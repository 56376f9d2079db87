--------------------------- MODULE WebClientProofs ---------------------------
(* The press of a button and what it is told, what is pressed again in doubt, *)
(* and what is undone, for any scenes and any number of presses.              *)
EXTENDS WebClient, FiniteSetTheorems, TLAPS

-----------------------------------------------------------------------------
(* Calls, their requests and their answers.                                 *)

IsCall(call) ==
    call = [n |-> call.n, op |-> call.op, key |-> call.key, endpoint |-> call.endpoint,
            body |-> call.body, asked |-> call.asked, via |-> call.via, undo |-> call.undo,
            undoes |-> call.undoes, sent |-> call.sent, left |-> call.left, reply |-> call.reply]

IsRequest(r) ==
    r = [call |-> r.call, op |-> r.op, endpoint |-> r.endpoint, body |-> r.body, undoes |-> r.undoes]

\* A call has the number of its press and runs what the press asked for.
CallsOK ==
    /\ presses \in Nat
    /\ \A call \in calls : /\ IsCall(call)
                           /\ call.n \in 1..presses
                           /\ call.body = call.asked
    /\ \A call, other \in calls : call.n = other.n => call = other

\* A request that still has a caller is that caller's.
WireOK ==
    \A r \in wire :
       /\ IsRequest(r)
       /\ r.call \in 0..presses
       /\ \A call \in calls : call.n = r.call =>
             r.op = call.op /\ r.endpoint = call.endpoint /\ r.body = call.body

\* A success was answered from the receipt of the operation, for this payload.
RepliesOK ==
    \A call \in calls : call.reply.code = "OK" =>
       /\ Landed(call.op)
       /\ receipts[call.op].endpoint = call.endpoint
       /\ receipts[call.op].body = call.body
       /\ receipts[call.op].reply = call.reply

CallInv == CallsOK /\ WireOK /\ RepliesOK

LEMMA OutcomeDone == \A code : Outcome(code) = "done" <=> code = "OK"
BY DEF Outcome

LEMMA CallInit == Init => CallInv
BY DEF Init, CallInv, CallsOK, WireOK, RepliesOK

\* A press, of a button or of an undo.
LEMMA CallBegin ==
  ASSUME CallInv, NEW c, NEW undoes, Begin(c, undoes), UNCHANGED <<receipts, wire>>
  PROVE  CallInv'
<1> DEFINE a == prepareCommandAttempt(c)
           new == [n |-> presses + 1, op |-> a.op, key |-> c.key, endpoint |-> a.endpoint,
                   body |-> a.body, asked |-> c.body, via |-> c.via, undo |-> c.undo, undoes |-> undoes,
                   sent |-> FALSE, left |-> FALSE, reply |-> WaitingFor]
<1>1. calls' = calls \union {new} /\ presses' = presses + 1 /\ presses \in Nat
  BY Zenon DEF Begin, CallInv, CallsOK
<1>2. new.body = new.asked
  BY DEF Begin, Conflicts
<1>3. IsCall(new) /\ new.n = presses + 1 /\ new.reply.code # "OK"
  BY DEF IsCall, WaitingFor, None
<1> HIDE DEF new
<1>4. CallsOK'
  BY <1>1, <1>2, <1>3 DEF CallInv, CallsOK
<1>5. WireOK'
  BY <1>1, <1>3 DEF CallInv, CallsOK, WireOK
<1>6. RepliesOK'
  BY <1>1, <1>3 DEF CallInv, RepliesOK, Landed
<1> QED  BY <1>4, <1>5, <1>6 DEF CallInv

LEMMA CallStops ==
  ASSUME CallInv, calls' \subseteq calls, UNCHANGED <<wire, receipts, presses>>
  PROVE  CallInv'
BY DEF CallInv, CallsOK, WireOK, RepliesOK, Landed

\* Calls that end, and requests whose callers are gone.
LEMMA CallEnds ==
  ASSUME CallInv, NEW gone, calls' \subseteq calls,
         \A call \in calls' : call.n \notin gone,
         wire' = wire \/ wire' = Orphaned(wire, gone),
         UNCHANGED <<receipts, presses>>
  PROVE  CallInv'
<1>1. CallsOK'  BY DEF CallInv, CallsOK
<1>2. RepliesOK'  BY DEF CallInv, RepliesOK, Landed
<1>3. WireOK'
  <2> SUFFICES ASSUME NEW r \in wire'
      PROVE  /\ IsRequest(r)
             /\ r.call \in 0..presses
             /\ \A call \in calls' : call.n = r.call =>
                   r.op = call.op /\ r.endpoint = call.endpoint /\ r.body = call.body
      BY DEF WireOK
  <2>1. PICK old \in wire : r = old \/ (r = [old EXCEPT !.call = Nobodys] /\ old.call \in gone)
      BY DEF Orphaned
  <2>2. IsRequest(old) /\ old.call \in 0..presses
        /\ \A call \in calls : call.n = old.call =>
              old.op = call.op /\ old.endpoint = call.endpoint /\ old.body = call.body
      BY DEF CallInv, WireOK
  <2>3. CASE r = old  BY <2>2, <2>3
  <2>4. CASE r = [old EXCEPT !.call = Nobodys]
      <3>1. IsRequest(r) /\ r.call = 0  BY <2>2, <2>4 DEF IsRequest, Nobodys
      <3>2. \A call \in calls' : call.n # 0  BY DEF CallInv, CallsOK
      <3> QED  BY <3>1, <3>2 DEF CallInv, CallsOK
  <2> QED  BY <2>1, <2>3, <2>4
<1> QED  BY <1>1, <1>2, <1>3 DEF CallInv

LEMMA CallMarked ==
  ASSUME NEW call, IsCall(call),
         NEW marked, \/ marked = [call EXCEPT !.sent = TRUE]
                     \/ marked = [call EXCEPT !.left = TRUE]
  PROVE  /\ IsCall(marked) /\ marked.n = call.n /\ marked.op = call.op /\ marked.endpoint = call.endpoint
         /\ marked.body = call.body /\ marked.asked = call.asked /\ marked.reply = call.reply
BY DEF IsCall

LEMMA CallSend ==
  ASSUME CallInv, Send
  PROVE  CallInv'
<1>1. PICK call \in calls :
         /\ calls' = (calls \ {call}) \union {[call EXCEPT !.sent = TRUE]}
         /\ wire' = wire \union {[call |-> call.n, op |-> call.op, endpoint |-> call.endpoint,
                                  body |-> call.body, undoes |-> call.undoes]}
  BY DEF Send
<1> DEFINE sent == [call EXCEPT !.sent = TRUE]
           r == [call |-> call.n, op |-> call.op, endpoint |-> call.endpoint,
                 body |-> call.body, undoes |-> call.undoes]
<1>2. UNCHANGED <<receipts, presses>>  BY DEF Send, server, counters
<1>3. IsCall(call) /\ call.n \in 1..presses /\ presses \in Nat  BY DEF CallInv, CallsOK
<1>4. /\ IsCall(sent) /\ sent.n = call.n /\ sent.op = call.op /\ sent.endpoint = call.endpoint
      /\ sent.body = call.body /\ sent.asked = call.asked /\ sent.reply = call.reply
  BY <1>3, CallMarked
<1>5. IsRequest(r) /\ r.call = call.n /\ r.op = call.op /\ r.endpoint = call.endpoint /\ r.body = call.body
  BY DEF IsRequest
<1>6. calls' = (calls \ {call}) \union {sent} /\ wire' = wire \union {r}  BY <1>1
<1> HIDE DEF sent, r
<1>7. CallsOK'  BY <1>2, <1>3, <1>4, <1>6 DEF CallInv, CallsOK
<1>8. WireOK'
  <2>1. \A q \in wire : \A other \in calls' : other.n = q.call =>
           q.op = other.op /\ q.endpoint = other.endpoint /\ q.body = other.body
    BY <1>4, <1>6 DEF CallInv, WireOK
  <2>2. \A other \in calls' : other.n = r.call =>
           r.op = other.op /\ r.endpoint = other.endpoint /\ r.body = other.body
    BY <1>4, <1>5, <1>6 DEF CallInv, CallsOK
  <2> QED  BY <1>2, <1>3, <1>5, <1>6, <2>1, <2>2 DEF CallInv, WireOK
<1>9. RepliesOK'  BY <1>2, <1>4, <1>6 DEF CallInv, RepliesOK, Landed
<1> QED  BY <1>7, <1>8, <1>9 DEF CallInv

\* An answer reaches its caller, if there is one.
LEMMA CallAnswered ==
  ASSUME CallInv, NEW r \in wire, NEW reply, calls' = Answered(r, reply), wire' = wire \ {r},
         presses' = presses,
         \A op \in DOMAIN receipts : op \in DOMAIN receipts' /\ receipts'[op] = receipts[op],
         reply.code = "OK" => /\ r.op \in DOMAIN receipts'
                              /\ receipts'[r.op].endpoint = r.endpoint
                              /\ receipts'[r.op].body = r.body
                              /\ receipts'[r.op].reply = reply
  PROVE  CallInv'
<1>1. \A call \in calls' : \E old \in calls :
         /\ IsCall(call) /\ call.n = old.n /\ call.op = old.op /\ call.endpoint = old.endpoint
         /\ call.body = old.body /\ call.asked = old.asked
         /\ IF old.n = r.call THEN call = [old EXCEPT !.reply = reply] /\ call.reply = reply ELSE call = old
  <2> SUFFICES ASSUME NEW old \in calls,
                      NEW call, call = IF old.n = r.call THEN [old EXCEPT !.reply = reply] ELSE old
      PROVE  /\ IsCall(call) /\ call.n = old.n /\ call.op = old.op /\ call.endpoint = old.endpoint
             /\ call.body = old.body /\ call.asked = old.asked
             /\ IF old.n = r.call THEN call = [old EXCEPT !.reply = reply] /\ call.reply = reply ELSE call = old
      BY DEF Answered
  <2>1. IsCall(old)  BY DEF CallInv, CallsOK
  <2> QED  BY <2>1 DEF IsCall
<1>2. CallsOK'  BY <1>1 DEF CallInv, CallsOK
<1>3. WireOK'  BY <1>1 DEF CallInv, WireOK
<1>4. RepliesOK'
  <2> SUFFICES ASSUME NEW call \in calls', call.reply.code = "OK"
      PROVE  /\ call.op \in DOMAIN receipts'
             /\ receipts'[call.op].endpoint = call.endpoint
             /\ receipts'[call.op].body = call.body
             /\ receipts'[call.op].reply = call.reply
      BY DEF RepliesOK, Landed
  <2>1. PICK old \in calls :
         /\ call.n = old.n /\ call.op = old.op /\ call.endpoint = old.endpoint /\ call.body = old.body
         /\ IF old.n = r.call THEN call.reply = reply ELSE call = old
    BY <1>1
  <2>2. CASE old.n = r.call  BY <2>1, <2>2 DEF CallInv, WireOK
  <2>3. CASE old.n # r.call  BY <2>1, <2>3 DEF CallInv, RepliesOK, Landed
  <2> QED  BY <2>2, <2>3
<1> QED  BY <1>2, <1>3, <1>4 DEF CallInv

LEMMA WithHas ==
  ASSUME NEW f, NEW k, NEW v
  PROVE  /\ DOMAIN With(f, k, v) = DOMAIN f \union {k}
         /\ With(f, k, v)[k] = v
         /\ \A x \in DOMAIN f : x # k => With(f, k, v)[x] = f[x]
BY DEF With

LEMMA CallProcess ==
  ASSUME CallInv, Process
  PROVE  CallInv'
<1>1. PICK r \in wire : wire' = wire \ {r} /\ IF Landed(r.op) THEN Replays(r) ELSE Serves(r)
  BY DEF Process
<1>2. presses' = presses  BY DEF Process, counters
<1>3. CASE Landed(r.op)
  <2> DEFINE old == receipts[r.op]
             precheck == ServeAll(r.endpoint, item, r.body, User)
             reply == IF r.endpoint \in ChecksBeforeReceipt /\ precheck.code # "OK"
                        THEN [code |-> precheck.code, rev |-> item.rev]
                      ELSE IF old.endpoint # r.endpoint \/ old.body # r.body
                        THEN [code |-> "IDEMPOTENCY_CONFLICT", rev |-> item.rev]
                      ELSE old.reply
  <2>1. UNCHANGED server /\ calls' = Answered(r, reply)  BY <1>1, <1>3 DEF Replays
  <2>2. receipts' = receipts  BY <2>1 DEF server
  <2>3. reply.code = "OK" => old.endpoint = r.endpoint /\ old.body = r.body /\ old.reply = reply  OBVIOUS
  <2> HIDE DEF reply
  <2> QED  BY <1>1, <1>2, <1>3, <2>1, <2>2, <2>3, CallAnswered DEF Landed
<1>4. CASE ~Landed(r.op)
  <2> DEFINE answer == ServeAll(r.endpoint, item, r.body, User)
             reply == [code |-> answer.code, rev |-> answer.item.rev]
             receipt == [endpoint |-> r.endpoint, body |-> r.body, reply |-> reply, from |-> item.rev]
  <2>1. Serves(r)  BY <1>1, <1>4
  <2>2. calls' = Answered(r, reply)  BY <2>1 DEF Serves
  <2>3. CASE answer.code = "OK"
    <3>1. receipts' = With(receipts, r.op, receipt)  BY <2>1, <2>3 DEF Serves
    <3>2. receipt.endpoint = r.endpoint /\ receipt.body = r.body /\ receipt.reply = reply  OBVIOUS
    <3> HIDE DEF reply, receipt
    <3>3. /\ r.op \in DOMAIN receipts' /\ receipts'[r.op] = receipt
          /\ \A op \in DOMAIN receipts : op \in DOMAIN receipts' /\ receipts'[op] = receipts[op]
      BY <1>4, <3>1 DEF With, Landed
    <3> QED  BY <1>1, <1>2, <2>2, <3>2, <3>3, CallAnswered
  <2>4. CASE answer.code # "OK"
    <3>1. receipts' = receipts  BY <2>1, <2>4 DEF Serves, server
    <3>2. reply.code # "OK"  BY <2>4
    <3> HIDE DEF reply
    <3> QED  BY <1>1, <1>2, <2>2, <3>1, <3>2, CallAnswered
  <2> QED  BY <2>3, <2>4
<1> QED  BY <1>3, <1>4

LEMMA CallLeave ==
  ASSUME CallInv, Leave
  PROVE  CallInv'
<1>1. UNCHANGED <<receipts, wire, presses>>  BY DEF Leave, server, counters
<1> DEFINE Behind(call) == IF call.via \in WithItsId THEN call ELSE [call EXCEPT !.left = TRUE]
<1>2. \A call \in calls' : \E old \in calls :
         /\ IsCall(call) /\ call.n = old.n /\ call.op = old.op /\ call.endpoint = old.endpoint
         /\ call.body = old.body /\ call.asked = old.asked /\ call.reply = old.reply
         /\ call = Behind(old)
  <2> SUFFICES ASSUME NEW old \in calls, NEW call, call = Behind(old)
      PROVE  /\ IsCall(call) /\ call.n = old.n /\ call.op = old.op /\ call.endpoint = old.endpoint
             /\ call.body = old.body /\ call.asked = old.asked /\ call.reply = old.reply
      BY DEF Leave
  <2>1. IsCall(old)  BY DEF CallInv, CallsOK
  <2> QED  BY <2>1, CallMarked
<1> HIDE DEF Behind
<1>3. CallsOK'  BY <1>1, <1>2 DEF CallInv, CallsOK
<1>4. WireOK'  BY <1>1, <1>2 DEF CallInv, WireOK
<1>5. RepliesOK'  BY <1>1, <1>2 DEF CallInv, RepliesOK, Landed
<1> QED  BY <1>3, <1>4, <1>5 DEF CallInv

LEMMA CallStep == CallInv /\ [Next]_vars => CallInv'
<1> SUFFICES ASSUME CallInv, [Next]_vars PROVE CallInv'  OBVIOUS
<1> USE DEF server, display, counters
<1>1. CASE Press
  BY <1>1, CallBegin, Zenon DEF Press
<1>2. CASE PressUndo
  BY <1>2, CallBegin, Zenon DEF PressUndo
<1>3. CASE NotSent
  <2>1. calls' \subseteq calls /\ UNCHANGED <<wire, receipts, presses>>  BY <1>3 DEF NotSent
  <2> QED  BY <2>1, CallStops
<1>4. CASE Send
  BY <1>4, CallSend
<1>5. CASE Lost
  <2>1. PICK call \in calls : calls' = calls \ {call} /\ wire' = Orphaned(wire, {call.n})
    BY <1>5 DEF Lost
  <2>2. UNCHANGED <<receipts, presses>>  BY <1>5 DEF Lost
  <2>3. \A other \in calls' : other.n \notin {call.n}  BY <2>1 DEF CallInv, CallsOK
  <2> QED  BY <2>1, <2>2, <2>3, CallEnds
<1>6. CASE AnswerDone
  <2>1. calls' \subseteq calls /\ UNCHANGED <<wire, receipts, presses>>  BY <1>6 DEF AnswerDone
  <2> QED  BY <2>1, CallStops
<1>7. CASE AnswerRejected
  <2>1. calls' \subseteq calls /\ UNCHANGED <<wire, receipts, presses>>  BY <1>7 DEF AnswerRejected
  <2> QED  BY <2>1, CallStops
<1>8. CASE AnswerUnknown
  <2>1. calls' \subseteq calls /\ UNCHANGED <<wire, receipts, presses>>  BY <1>8 DEF AnswerUnknown
  <2> QED  BY <2>1, CallStops
<1>9. CASE Process
  BY <1>9, CallProcess
<1>10. CASE Elsewhere \/ StartLoad \/ ReadLoad \/ EndLoad \/ Expire \/ UNCHANGED vars
  <2>1. UNCHANGED <<calls, wire, receipts, presses>>
    BY <1>10 DEF Elsewhere, StartLoad, ReadLoad, EndLoad, Expire, vars
  <2> QED  BY <2>1 DEF CallInv, CallsOK, WireOK, RepliesOK, Landed
<1>11. CASE Leave
  BY <1>11, CallLeave
<1>12. CASE Reload \/ CloseTab
  <2>1. PICK kept, keptForms, seen : PageGone(kept, keptForms, seen)
    BY <1>12, Zenon DEF Reload, CloseTab
  <2>2. calls' = {} /\ wire' = Orphaned(wire, {call.n : call \in calls}) /\ UNCHANGED <<receipts, presses>>
    BY <2>1 DEF PageGone
  <2> QED  BY <2>2, CallEnds
<1> QED
  BY <1>1, <1>2, <1>3, <1>4, <1>5, <1>6, <1>7, <1>8, <1>9, <1>10, <1>11, <1>12 DEF Next

\* A press that is told of a success is told of its own: the server has carried
\* out, under the operation the call ran, the endpoint and the payload the button
\* asked for, whatever was sent, lost, kept or answered before.
THEOREM SuccessWasAskedFor == Spec => []SuccessIsYours
<1>1. CallInv => SuccessIsYours
  BY OutcomeDone DEF CallInv, CallsOK, RepliesOK, SuccessIsYours
<1> QED  BY CallInit, CallStep, <1>1, PTL DEF Spec

-----------------------------------------------------------------------------
(* The commands of the screens: what a screen may send, and under which keys.*)

RequestAnswers == {"accept", "decline", "checking", "consult", "edit_terms", "confirm_terms", "cancel"}
RequestEndpoints == {"respond-request", "accept-request", "decline-request", "cancel-request",
                     "negotiate-request", "accept-assignment-change-request"}

\* Commands that are refused unless the row still has the revision they name.
Guarded(endpoint, action) ==
    \/ endpoint = "complete-task" /\ action \in {"reopen", "could_not_do", "could_not_do_undo"}
    \/ endpoint = "change-task-assignment" /\ action \in {"claim", "release", "takeover", "agreed"}
    \/ endpoint = "edit-task" /\ action \in {"record_progress", "save"}
    \/ endpoint = "claim-shopping-item" /\ action \in {"claim", "release", "takeover"}
    \/ endpoint = "transport-schedule" /\ action = "respond_conflict_review"
    \/ endpoint \in RequestEndpoints /\ action \in RequestAnswers
    \/ endpoint \in {"set-task-waiting", "create-assignment-change-request", "correct-task-actual",
                     "order-shopping-item", "purchase-shopping-item", "arrive-shopping-item",
                     "reopen-shopping-item", "cancel-shopping-item", "assign-shopping-item",
                     "start-request-followup", "resolve-google-event-review", "confirm-event-plan",
                     "confirm-nursery-review", "resolve-nursery-ambiguity",
                     "commit-concierge-duplicate", "set-subtask-completion"}

Unguarded(endpoint, action) ==
    \/ endpoint = "complete-task" /\ action \in {"complete", "codmon_submitted"}
    \/ endpoint = "edit-task" /\ action = "add_comment"
    \/ endpoint = "transport-schedule"
         /\ action \in {"set_override", "delete_override", "clear_day", "save_template"}
    \/ endpoint = "complete-onboarding-step"
         /\ action \in {"complete_step", "save_context", "finish_later", "reissue_invite"}
    \/ endpoint \in {"cancel-task", "set-subtask-completion", "add-task-completion-evidence", "create-task",
                     "add-shopping-item", "mark-handover-read", "routine-session-item-action",
                     "send-request", "confirm-request-draft", "create-handover", "set-family-role",
                     "create-household", "join-household", "create-household-invite",
                     "configure-dropoff-pickup", "configure-evening-routines",
                     "update-routine-schedule", "change-recurrence", "deactivate-recurrence",
                     "update-notification-preferences", "update-task-categories",
                     "update-household-terminology", "create-line-link-token",
                     "record-unplanned-actual"}

TaskEndpoints == {"set-subtask-completion", "complete-task", "cancel-task", "change-task-assignment"}

\* What a screen may send.
Fits(screen, endpoint, body) ==
    /\ Guarded(endpoint, body.action) \/ (body.rev = 0 /\ Unguarded(endpoint, body.action))
    /\ body.action = "request" <=> endpoint = "create-assignment-change-request"
    /\ body.action = "followup" <=> endpoint = "start-request-followup"
    /\ endpoint = "start-request-followup" => screen = "request"
    /\ endpoint = "set-subtask-completion" =>
          screen = "checklist" \/ (screen = "checkin" /\ body.rev = 0)
    /\ screen = "request" => endpoint \in RequestEndpoints \union {"start-request-followup"}
    /\ screen \in {"row", "checklist"} => endpoint \in TaskEndpoints
    /\ screen = "note" => endpoint = "mark-handover-read"

FormHeads == {"create-household", "join-household", "dropoff_pickup", "evening"}

IsCommand(c) ==
    c = [key |-> c.key, endpoint |-> c.endpoint, body |-> c.body, via |-> c.via, undo |-> c.undo]

\* The keys of forms and of candidates are no keys of buttons.
Keyed(screen, key, via) ==
    /\ via \in {"attempt", "resumes", "fresh", "form", "own"}
    /\ via \in {"attempt", "resumes"} => key[1] \notin FormHeads \union {"candidate"}
    /\ via = "form" => key[1] \in FormHeads
    /\ via = "own" => key[1] = "candidate" /\ screen = "concierge"

\* Commands that leave the row as it is, and the keys of attempts that are only
\* ever used for them.
Still(endpoint, action) ==
    \/ endpoint \in {"create-task", "add-shopping-item", "create-handover"}
    \/ endpoint = "edit-task" /\ action = "add_comment"

StillHeads == {"task-form:create", "shopping:quick-add", "shopping:add", "schedule:comment", "handover:create"}

\* The key of an undo says all of its payload, the key of an addition that it is one.
Determined(key, endpoint, body) ==
    /\ key[1] \in StillHeads => Still(endpoint, body.action)
    /\ key[1] = "reopen" => endpoint = "complete-task" /\ body = Body("reopen", None, key[2], None)
    /\ key[1] = "could-not-do:undo" =>
          endpoint = "complete-task" /\ body = Body("could_not_do_undo", None, key[2], None)

ShoppingPanels == {"goods", "batch", "ownership", "anyone", "additions"}

\* What can be undone: purchases, and what is recorded of a task on its row.
Undoable(screen, c) ==
    c.undo # None =>
       /\ c.via # "resumes"
       /\ \/ screen \in ShoppingPanels /\ c.undo \notin {"reopen", "could_not_do_undo"}
          \/ /\ screen = "row"
             /\ c.undo \in {"reopen", "could_not_do_undo"}
             /\ c.endpoint = "complete-task"
             /\ c.body.action \in {"complete", "could_not_do"}

Sound(c) ==
    /\ IsCommand(c)
    /\ Fits(scene.screen, c.endpoint, c.body)
    /\ Keyed(scene.screen, c.key, c.via)
    /\ Determined(c.key, c.endpoint, c.body)
    /\ Undoable(scene.screen, c)

AreSound(commands) == \A c \in commands : Sound(c)

LEMMA ViaSet ==
  ASSUME NEW key, NEW endpoint, NEW body, NEW via
  PROVE  /\ [Attempted(key, endpoint, body) EXCEPT !.via = via]
              = [key |-> key, endpoint |-> endpoint, body |-> body, via |-> via, undo |-> None]
         /\ [Plain(key, endpoint, body) EXCEPT !.via = via]
              = [key |-> key, endpoint |-> endpoint, body |-> body, via |-> via, undo |-> None]
BY DEF Attempted, Plain

LEMMA FormedIs ==
  \A key, endpoint, body : Formed(key, endpoint, body)
      = [key |-> key, endpoint |-> endpoint, body |-> body, via |-> "form", undo |-> None]
BY DEF Plain, Formed

LEMMA LeastStep ==
  ASSUME NEW S \in SUBSET (1..6), S # {}
  PROVE  \E i \in S : \A j \in S : i <= j
<1>1. CASE 1 \in S  BY <1>1
<1>2. CASE 1 \notin S /\ 2 \in S  BY <1>2
<1>3. CASE 1 \notin S /\ 2 \notin S /\ 3 \in S  BY <1>3
<1>4. CASE S \subseteq {4, 5, 6} /\ 4 \in S  BY <1>4
<1>5. CASE S \subseteq {5, 6} /\ 5 \in S  BY <1>5
<1>6. CASE S \subseteq {6} /\ 6 \in S  BY <1>6
<1>7. PICK i \in S : TRUE  OBVIOUS
<1>8. i \in {1, 2, 3, 4, 5, 6}  BY <1>7
<1> QED  BY <1>1, <1>2, <1>3, <1>4, <1>5, <1>6, <1>8

\* The wizard is at a step of its own or done.
LEMMA StepIsOne ==
  ASSUME NEW s
  PROVE  phaseForHousehold(s) \in AllSteps \union {"ready"}
<1> DEFINE todo == {i \in 1..Len(WizardSteps) : WizardSteps[i] \notin s.done}
           i == CHOOSE i \in todo : \A j \in todo : i <= j
<1>1. Len(WizardSteps) = 6  BY DEF WizardSteps
<1>2. CASE todo = {}  BY <1>2 DEF phaseForHousehold
<1>3. CASE todo # {}
  <2>1. \E k \in todo : \A j \in todo : k <= j
    <3>1. todo \in SUBSET (1..6)  BY <1>1
    <3> HIDE DEF todo
    <3> QED  BY <1>3, <3>1, LeastStep
  <2>2. i \in 1..Len(WizardSteps)  BY <2>1
  <2>3. phaseForHousehold(s) = WizardSteps[i]  BY <1>3 DEF phaseForHousehold
  <2> QED  BY <2>2, <2>3 DEF AllSteps
<1> QED  BY <1>2, <1>3

LEMMA TaskButtonsSound ==
  ASSUME scene.screen = "row", NEW row, NEW me
  PROVE  AreSound(TaskButtons(row, me))
<1> USE DEF AreSound, Sound, IsCommand, Fits, Keyed, Determined, Undoable, ShoppingPanels, Still, StillHeads, Guarded,
            Unguarded, RequestAnswers, RequestEndpoints,
            TaskEndpoints, FormHeads, Attempted, Plain, Body, When, None
<1>1. AreSound(handleComplete(row, me))
  BY DEF handleComplete
<1>2. AreSound(handleReopen(row))
  BY DEF handleReopen
<1>3. AreSound(handleCouldNotDo(row))
  BY DEF handleCouldNotDo
<1>4. AreSound(handleCancel(row))
  BY DEF handleCancel
<1>5. AreSound(handleAnyoneClaim(row, me))
  BY DEF handleAnyoneClaim
<1>6. runBulk(row, me) \subseteq handleCouldNotDo(row) \union handleComplete(row, me)
  BY DEF runBulk
<1> HIDE DEF Sound
<1> QED  BY <1>1, <1>2, <1>3, <1>4, <1>5, <1>6 DEF TaskButtons

LEMMA OtherTaskScreensSound ==
  ASSUME NEW row, NEW me
  PROVE  /\ scene.screen = "checklist" => AreSound(handleToggleSubtask(row, me))
         /\ scene.screen = "waiting" => AreSound(handleWaitingSubmit(row) \union handleResumeWaiting(row))
         /\ scene.screen = "assignment" => AreSound(handleAssignmentSubmit(row, me))
         /\ scene.screen = "progress" => AreSound(WorkUpdateForm(row))
         /\ scene.screen = "evidence" => AreSound(handleEvidenceSubmit(row))
         /\ scene.screen = "form" => AreSound(TaskForm(row))
         /\ scene.screen = "schedule" => AreSound(toggleCheck(row) \union comment)
         /\ scene.screen = "today" => AreSound(resolveAssignment(row, me) \union saveActualCorrection(row))
<1> USE DEF AreSound, Sound, IsCommand, Fits, Keyed, Determined, Undoable, ShoppingPanels, Still, StillHeads, Guarded,
            Unguarded, RequestAnswers, RequestEndpoints,
            TaskEndpoints, FormHeads, Attempted, Plain, Body, When, None
<1>1. scene.screen = "checklist" => AreSound(handleToggleSubtask(row, me))
  BY DEF handleToggleSubtask
<1>2. scene.screen = "waiting" => AreSound(handleWaitingSubmit(row) \union handleResumeWaiting(row))
  BY DEF handleWaitingSubmit, handleResumeWaiting
<1>3. scene.screen = "assignment" => AreSound(handleAssignmentSubmit(row, me))
  BY DEF handleAssignmentSubmit, assignmentDecisionCommand
<1>4. scene.screen = "progress" => AreSound(WorkUpdateForm(row))
  <2> SUFFICES ASSUME scene.screen = "progress", NEW c \in WorkUpdateForm(row) PROVE Sound(c)  OBVIOUS
  <2>1. PICK x \in Text : c = [Attempted(<<"work-progress">>, "edit-task",
                                        Body("record_progress", None, row.rev, x)) EXCEPT !.via = "resumes"]
    BY DEF WorkUpdateForm
  <2>2. c = [key |-> <<"work-progress">>, endpoint |-> "edit-task",
             body |-> Body("record_progress", None, row.rev, x), via |-> "resumes", undo |-> None]
    BY <2>1, ViaSet
  <2> QED  BY <2>2
<1>5. scene.screen = "evidence" => AreSound(handleEvidenceSubmit(row))
  BY DEF handleEvidenceSubmit
<1>6. scene.screen = "form" => AreSound(TaskForm(row))
  BY DEF TaskForm
<1>7. scene.screen = "schedule" => AreSound(toggleCheck(row) \union comment)
  BY DEF toggleCheck, comment
<1>8. scene.screen = "today" => AreSound(resolveAssignment(row, me) \union saveActualCorrection(row))
  BY DEF resolveAssignment, saveActualCorrection
<1> QED  BY <1>1, <1>2, <1>3, <1>4, <1>5, <1>6, <1>7, <1>8, Zenon

LEMMA ShoppingScreensSound ==
  ASSUME OnShopping, NEW row, NEW me
  PROVE  /\ AreSound(primaryAction(row)) /\ AreSound(menu(row)) /\ AreSound(purchaseSelected(row))
         /\ AreSound(ownership(row, me)) /\ AreSound(changeOwner(row, me))
         /\ AreSound(QuickAddShopping) /\ AreSound(AddShoppingItemForm) /\ AreSound(createTask)
         /\ \A recorded : AreSound(useShoppingUndo(row, recorded))
<1> USE DEF AreSound, Sound, IsCommand, Fits, Keyed, Determined, Undoable, ShoppingPanels, Still, StillHeads, Guarded,
            Unguarded, RequestAnswers, RequestEndpoints,
            TaskEndpoints, FormHeads, Attempted, Plain, Body, When, None
<1> USE DEF stable, OnShopping
<1>1. AreSound(primaryAction(row))
  BY DEF primaryAction
<1>2. AreSound(menu(row))
  BY DEF menu
<1>3. AreSound(purchaseSelected(row))
  BY DEF purchaseSelected
<1>4. AreSound(ownership(row, me))
  BY DEF ownership
<1>5. AreSound(changeOwner(row, me))
  BY DEF changeOwner
<1>6. AreSound(QuickAddShopping) /\ AreSound(AddShoppingItemForm) /\ AreSound(createTask)
  BY DEF QuickAddShopping, AddShoppingItemForm, createTask
<1>7. \A recorded : AreSound(useShoppingUndo(row, recorded))
  BY DEF useShoppingUndo
<1> HIDE DEF AreSound
<1> QED  BY <1>1, <1>2, <1>3, <1>4, <1>5, <1>6, <1>7

LEMMA FamilyScreensSound ==
  ASSUME NEW row, NEW me
  PROVE  /\ scene.screen = "request" => AreSound(RequestButtons(row, me))
         /\ scene.screen = "send" => AreSound(SendRequestForm \union ComposeHandoverForm)
         /\ scene.screen = "note" => AreSound(HandoverActions(row, me))
         /\ scene.screen = "checkin" => AreSound(CheckinPage(row))
         /\ scene.screen = "day" => AreSound(DayTransport(row))
         /\ scene.screen = "google" => AreSound(resolveGoogleReview(row))
         /\ scene.screen = "plan" => AreSound(confirmEventPlan(row))
         /\ scene.screen = "conflict" => AreSound(respondReview(row))
         /\ scene.screen = "nursery" => AreSound(NurseryReview(row))
<1> USE DEF AreSound, Sound, IsCommand, Fits, Keyed, Determined, Undoable, ShoppingPanels, Still, StillHeads, Guarded,
            Unguarded, RequestAnswers, RequestEndpoints,
            TaskEndpoints, FormHeads, Attempted, Plain, Body, When, None
<1>1. scene.screen = "request" => AreSound(respond(row))
  BY DEF respond
<1>2. scene.screen = "request" => AreSound(negotiate(row))
  BY DEF negotiate
<1>3. scene.screen = "request" => AreSound(OutgoingRequestRow(row))
  BY DEF OutgoingRequestRow
<1>4. scene.screen = "send" => AreSound(SendRequestForm \union ComposeHandoverForm)
  <2>1. scene.screen = "send" => AreSound(ComposeHandoverForm)  BY DEF ComposeHandoverForm
  <2>3. scene.screen = "send" => AreSound(SendRequestForm)
    <3> SUFFICES ASSUME scene.screen = "send", NEW c \in SendRequestForm PROVE Sound(c)  OBVIOUS
    <3>1. PICK endpoint \in {"send-request", "confirm-request-draft"}, x \in Text :
            c = [Attempted(<<"request:send">>, endpoint, Body("send", None, 0, x)) EXCEPT !.via = "resumes"]
      <4> HIDE DEF Attempted, Body, None
      <4> QED  BY DEF SendRequestForm
    <3>2. c = [key |-> <<"request:send">>, endpoint |-> endpoint, body |-> Body("send", None, 0, x),
               via |-> "resumes", undo |-> None]
      BY <3>1, ViaSet
    <3> QED  BY <3>2
  <2> HIDE DEF Sound
  <2> QED  BY <2>1, <2>3
<1>5. scene.screen = "note" => AreSound(HandoverActions(row, me))
  BY DEF HandoverActions
<1>6. scene.screen = "checkin" => AreSound(CheckinPage(row))
  BY DEF CheckinPage, runItemAction, runSubtaskAction
<1>7. scene.screen = "day" => AreSound(DayTransport(row))
  BY DEF DayTransport, clearDay, overrideDay
<1>8. scene.screen = "google" => AreSound(resolveGoogleReview(row))
  BY DEF resolveGoogleReview
<1>9. scene.screen = "plan" => AreSound(confirmEventPlan(row))
  BY DEF confirmEventPlan
<1>10. scene.screen = "conflict" => AreSound(respondReview(row))
  BY DEF respondReview
<1>11. scene.screen = "nursery" => AreSound(NurseryReview(row))
  BY DEF NurseryReview
<1> HIDE DEF Sound
<1>12. scene.screen = "request" => AreSound(RequestButtons(row, me))
  BY <1>1, <1>2, <1>3 DEF RequestButtons, IncomingRequestRow
<1> QED  BY <1>4, <1>5, <1>6, <1>7, <1>8, <1>9, <1>10, <1>11, <1>12, Zenon

LEMMA SettingsScreensSound ==
  ASSUME scene.screen \in {"household", "invite", "roles", "children", "setting"}, NEW row, NEW me
  PROVE  /\ AreSound(HouseholdGate(row, me)) /\ AreSound(InviteSection(row, me))
         /\ AreSound(FamilyRoles) /\ AreSound(ChildrenSettings) /\ AreSound(LineLinkSection)
         /\ AreSound(Setting(row))
<1> USE DEF AreSound, Sound, IsCommand, Fits, Keyed, Determined, Undoable, ShoppingPanels, Still, StillHeads, Guarded,
            Unguarded, RequestAnswers, RequestEndpoints,
            TaskEndpoints, FormHeads, Attempted, Plain, Body, When, None
<1> USE DEF Now
<1>0. \A key, endpoint, body : key[1] \in FormHeads /\ Fits(scene.screen, endpoint, body) => Sound(Formed(key, endpoint, body))
  BY FormedIs
<1>1. AreSound(JoinHouseholdForm(row.state))
  <2>1. \A x : <<"join-household">>[1] \in FormHeads /\ Fits(scene.screen, "join-household", Body("join", None, 0, x))
    OBVIOUS
  <2> HIDE DEF Sound, FormHeads, Fits, Body
  <2> QED  BY <1>0, <2>1 DEF JoinHouseholdForm
<1>2. AreSound(HouseholdSetup(row.state))
  <2>1. \A x : <<"create-household">>[1] \in FormHeads /\ Fits(scene.screen, "create-household", Body("create", None, 0, x))
    OBVIOUS
  <2> HIDE DEF Sound, FormHeads, Fits, Body
  <2> QED  BY <1>0, <1>1, <2>1 DEF HouseholdSetup, CreateHouseholdForm
<1>3. AreSound(StartToday) /\ AreSound(DropoffPickupStep) /\ AreSound(EveningRoutinesStep)
  <2>1. AreSound(StartToday)  BY DEF StartToday
  <2>2. \A x : /\ <<"dropoff_pickup">>[1] \in FormHeads
               /\ Fits(scene.screen, "configure-dropoff-pickup", Body("configure", None, 0, x))
               /\ <<"evening">>[1] \in FormHeads
               /\ Fits(scene.screen, "configure-evening-routines", Body("configure", None, 0, x))
    OBVIOUS
  <2> HIDE DEF Sound, FormHeads, Fits, Body
  <2> QED  BY <1>0, <2>1, <2>2 DEF DropoffPickupStep, EveningRoutinesStep
<1>4. \A step : AreSound(useCompleteStep(step))
  BY DEF useCompleteStep
<1>5. phaseForHousehold(row.state) \in AllSteps \union {"ready"}  BY StepIsOne
<1>6. \A step \in AllSteps : AreSound(Wizard(step))
  <2> HIDE DEF AreSound
  <2> QED  BY <1>3, <1>4 DEF Wizard, AllSteps, WizardSteps, MorningPreparationStep, ConnectionsStep,
               RecommendedNotificationsStep, WeekPreviewStep
<1>7. AreSound(HouseholdGate(row, me))
  <2> HIDE DEF Sound
  <2> QED  BY <1>2, <1>3, <1>5, <1>6 DEF HouseholdGate
<1>8. AreSound(InviteSection(row, me))
  <2>1. /\ Sound(Now("create-household-invite", "invite", None, None))
        /\ Sound(Now("complete-onboarding-step", "reissue_invite", None, None))
    OBVIOUS
  <2> HIDE DEF Sound, Now
  <2> QED  BY <1>1, <2>1 DEF InviteSection
<1>9. AreSound(FamilyRoles) /\ AreSound(ChildrenSettings) /\ AreSound(LineLinkSection)
  BY DEF FamilyRoles, ChildrenSettings, LineLinkSection
<1>10. AreSound(handleSave(row)) /\ AreSound(toggle(row))
  BY DEF handleSave, toggle
<1>11. /\ AreSound(ReminderSettingsSection) /\ AreSound(MorningNudgeSection) /\ AreSound(CategorySettings)
       /\ AreSound(HouseholdTerminology)
  BY DEF AsEdited, ReminderSettingsSection, MorningNudgeSection, CategorySettings, HouseholdTerminology
<1>12. AreSound(DropoffPickupMatrix) /\ AreSound(TransportTemplateEditor)
  BY DEF DropoffPickupMatrix, TransportTemplateEditor
<1>13. AreSound({})  OBVIOUS
<1> HIDE DEF AreSound
<1>14. AreSound(Setting(row))
  BY <1>10, <1>11, <1>12, <1>13 DEF Setting
<1> QED  BY <1>7, <1>8, <1>9, <1>14

LEMMA CandidateKind ==
  ASSUME NEW row, NEW me
  PROVE  \A c \in proposeConciergeCandidates(row, me) : c.kind \in CandidateKinds
<1> SUFFICES ASSUME NEW kind \in CandidateKinds, NEW c,
                    c = resolveHouseholdCandidate(attachCanonicalConciergeDuplicate(NewCandidate(kind), row), row, me)
    PROVE  c.kind \in CandidateKinds
    BY DEF proposeConciergeCandidates
<1> DEFINE new == NewCandidate(kind)
           attached == attachCanonicalConciergeDuplicate(new, row)
<1>1. attached \in {new, [new EXCEPT !.duplicate = row.rev]}
  BY DEF attachCanonicalConciergeDuplicate
<1>3. c \in {attached, [attached EXCEPT !.target = row.rev], [attached EXCEPT !.missing = TRUE]}
  BY DEF resolveHouseholdCandidate
<1> HIDE DEF attached
<1>2. attached = [kind |-> kind, duplicate |-> attached.duplicate, target |-> 0, missing |-> FALSE]
  <2>1. CASE attached = new  BY <2>1 DEF NewCandidate
  <2>2. CASE attached = [new EXCEPT !.duplicate = row.rev]
    <3>1. attached = [kind |-> kind, duplicate |-> row.rev, target |-> 0, missing |-> FALSE]
      BY <2>2 DEF NewCandidate
    <3> QED  BY <3>1
  <2> QED  BY <1>1, <2>1, <2>2
<1> QED  BY <1>2, <1>3

LEMMA ConciergeSound ==
  ASSUME scene.screen = "concierge", NEW row, NEW me
  PROVE  AreSound(ConciergePage(row, me))
<1> USE DEF AreSound, Sound, IsCommand, Fits, Keyed, Determined, Undoable, ShoppingPanels, Still, StillHeads, Guarded,
            Unguarded, RequestAnswers, RequestEndpoints,
            TaskEndpoints, FormHeads, Attempted, Plain, Body, When, None
<1> USE DEF Confirmed, InConcierge
<1>1. \A c \in proposeConciergeCandidates(row, me) : c.kind \in CandidateKinds
  BY CandidateKind
<1>2. \A c, x : AreSound(updateCommand(c, x))
  BY DEF updateCommand
<1>3. \A c, x : /\ Sound(taskCommand(c, x)) /\ Sound(shoppingCommand(c, x)) /\ Sound(shareCommand(c, x))
                /\ Sound(actualCommand(c, x)) /\ Sound(requestCommand(c, x)) /\ Sound(takeoverCommand(c, me, x))
  BY DEF taskCommand, shoppingCommand, shareCommand, actualCommand, requestCommand, takeoverCommand
<1> HIDE DEF Sound
<1>4. \A c, x : c.kind \in CandidateKinds => AreSound(buildConfirmedCommand(c, me, x))
  BY <1>2, <1>3 DEF buildConfirmedCommand, CandidateKinds
<1> QED  BY <1>1, <1>4 DEF ConciergePage

LEMMA OfferedSound ==
  ASSUME scene.screen \in Screens, NEW row, NEW me
  PROVE  AreSound(Offered(row, me))
<1>1. scene.screen = "row" => AreSound(Offered(row, me))
  BY TaskButtonsSound DEF Offered
<1>2. scene.screen \in {"checklist", "waiting", "assignment", "progress", "evidence", "form", "schedule", "today"}
        => AreSound(Offered(row, me))
  BY OtherTaskScreensSound DEF Offered
<1>3. scene.screen \in {"goods", "batch", "ownership", "anyone", "additions"} => AreSound(Offered(row, me))
  BY ShoppingScreensSound DEF Offered, AreSound, OnShopping
<1>4. scene.screen \in {"request", "send", "note", "checkin", "day", "google", "plan", "conflict", "nursery"}
        => AreSound(Offered(row, me))
  BY FamilyScreensSound DEF Offered
<1>5. scene.screen \in {"household", "invite", "roles", "children", "setting"} => AreSound(Offered(row, me))
  BY SettingsScreensSound DEF Offered, AreSound
<1>6. scene.screen = "concierge" => AreSound(Offered(row, me))
  BY ConciergeSound DEF Offered
<1> QED  BY <1>1, <1>2, <1>3, <1>4, <1>5, <1>6 DEF Screens

-----------------------------------------------------------------------------
(* What a command does to the row: its revision moves by one, or stays.     *)

IsRow(row) == row = [state |-> row.state, rev |-> row.rev] /\ row.rev \in Nat \ {0}

Moved(row, next) == IsRow(next) /\ next.rev \in {row.rev, row.rev + 1}

LEMMA ReplyMoved ==
  ASSUME NEW row, IsRow(row), NEW checks, NEW next, Moved(row, next), NEW made
  PROVE  Moved(row, Reply(row, checks, next, made).item)
BY DEF Reply, Moved

LEMMA BumpMoved ==
  ASSUME NEW row, IsRow(row)
  PROVE  /\ Moved(row, row)
         /\ \A state : Moved(row, Bump(row, state))
BY DEF Moved, IsRow, Bump

LEMMA TasksMove ==
  ASSUME NEW row, IsRow(row), NEW body, NEW who
  PROVE  /\ body.action \in {"complete", "codmon_submitted", "reopen", "could_not_do", "could_not_do_undo"}
               => Moved(row, complete_task(row, body, who).item)
         /\ Moved(row, cancel_task(row, body, who).item)
         /\ Moved(row, set_subtask_completion(row, body, who).item)
         /\ Moved(row, set_task_waiting(row, body, who).item)
         /\ body.action \in {"claim", "release", "takeover", "agreed"}
               => Moved(row, change_task_assignment(row, body, who).item)
         /\ Moved(row, create_assignment_change_request(row, body, who).item)
         /\ Moved(row, correct_task_actual(row, body, who).item)
         /\ Moved(row, add_task_completion_evidence(row, body, who).item)
         /\ body.action \in {"record_progress", "add_comment", "save"} => Moved(row, edit_task(row, body, who).item)
         /\ Moved(row, create_task(row, body, who).item)
<1> USE BumpMoved, ReplyMoved
<1>1. body.action \in {"complete", "codmon_submitted", "reopen", "could_not_do", "could_not_do_undo"}
         => Moved(row, complete_task(row, body, who).item)
  BY DEF complete_task, Reopen, CouldNotDo, SubmitCodmon, Complete
<1>2. Moved(row, cancel_task(row, body, who).item)
  <2>1. Moved(row, [row EXCEPT !.state.status = "cancelled"])  BY DEF Moved, IsRow
  <2> QED  BY <2>1 DEF cancel_task
<1>3. Moved(row, set_subtask_completion(row, body, who).item)
  BY DEF set_subtask_completion
<1>4. Moved(row, set_task_waiting(row, body, who).item)
  BY DEF set_task_waiting
<1>5. body.action \in {"claim", "release", "takeover", "agreed"}
         => Moved(row, change_task_assignment(row, body, who).item)
  BY DEF change_task_assignment
<1>6. /\ Moved(row, create_assignment_change_request(row, body, who).item)
      /\ Moved(row, correct_task_actual(row, body, who).item)
      /\ Moved(row, add_task_completion_evidence(row, body, who).item)
  BY DEF create_assignment_change_request, correct_task_actual, add_task_completion_evidence
<1>7. body.action \in {"record_progress", "add_comment", "save"} => Moved(row, edit_task(row, body, who).item)
  BY DEF edit_task
<1>8. Moved(row, create_task(row, body, who).item)
  BY DEF create_task
<1> QED  BY <1>1, <1>2, <1>3, <1>4, <1>5, <1>6, <1>7, <1>8, Zenon

LEMMA GoodsMove ==
  ASSUME NEW row, IsRow(row), NEW body, NEW who
  PROVE  /\ Moved(row, order_shopping_item(row, body, who).item)
         /\ Moved(row, purchase_shopping_item(row, body, who).item)
         /\ Moved(row, arrive_shopping_item(row, body, who).item)
         /\ Moved(row, reopen_shopping_item(row, body, who).item)
         /\ Moved(row, cancel_shopping_item(row, body, who).item)
         /\ Moved(row, assign_shopping_item(row, body, who).item)
         /\ body.action \in {"claim", "release", "takeover"} => Moved(row, claim_shopping_item(row, body, who).item)
         /\ Moved(row, add_shopping_item(row, body, who).item)
<1> USE BumpMoved, ReplyMoved
<1>1. \A ok, status : Moved(row, Recorded(row, body, who, ok, status).item)
  BY DEF Recorded
<1>2. /\ Moved(row, order_shopping_item(row, body, who).item)
      /\ Moved(row, purchase_shopping_item(row, body, who).item)
      /\ Moved(row, arrive_shopping_item(row, body, who).item)
  BY <1>1 DEF order_shopping_item, purchase_shopping_item, arrive_shopping_item
<1>3. /\ Moved(row, reopen_shopping_item(row, body, who).item)
      /\ Moved(row, cancel_shopping_item(row, body, who).item)
      /\ Moved(row, assign_shopping_item(row, body, who).item)
      /\ Moved(row, add_shopping_item(row, body, who).item)
  BY DEF reopen_shopping_item, cancel_shopping_item, assign_shopping_item, add_shopping_item
<1>4. body.action \in {"claim", "release", "takeover"} => Moved(row, claim_shopping_item(row, body, who).item)
  BY DEF claim_shopping_item
<1> QED  BY <1>2, <1>3, <1>4, Zenon

LEMMA FamilyMoves ==
  ASSUME NEW row, IsRow(row), NEW body, NEW who
  PROVE  /\ body.action \in RequestAnswers => Moved(row, transition(row, body, who).item)
         /\ Moved(row, start_request_followup(row, body, who).item)
         /\ Moved(row, mark_handover_read(row, body, who).item)
         /\ Moved(row, routine_session_item_action(row, body, who).item)
         /\ body.action \in {"set_override", "delete_override", "clear_day"}
               => Moved(row, transport_schedule(row, body, who).item)
         /\ Moved(row, resolve_google_event_review(row, body, who).item)
         /\ Moved(row, confirm_event_plan(row, body, who).item)
         /\ Moved(row, respond_conflict_review(row, body, who).item)
         /\ Moved(row, confirm_nursery_review(row, body, who).item)
         /\ Moved(row, resolve_nursery_ambiguity(row, body, who).item)
         /\ Moved(row, Created(row, body, who).item)
<1> USE BumpMoved, ReplyMoved
<1>1. body.action \in RequestAnswers => Moved(row, transition(row, body, who).item)
  BY DEF transition, RequestAnswers
<1>2. Moved(row, start_request_followup(row, body, who).item)
  <2>1. Moved(row, [row EXCEPT !.state.followup = TRUE])  BY DEF Moved, IsRow
  <2> QED  BY <2>1 DEF start_request_followup
<1>3. Moved(row, mark_handover_read(row, body, who).item)
  <2>1. Moved(row, [row EXCEPT !.state.read = @ \union {who}])  BY DEF Moved, IsRow
  <2> QED  BY <2>1 DEF mark_handover_read
<1>4. Moved(row, routine_session_item_action(row, body, who).item)
  BY DEF routine_session_item_action
<1>5. body.action \in {"set_override", "delete_override", "clear_day"}
         => Moved(row, transport_schedule(row, body, who).item)
  BY DEF transport_schedule
<1>6. \A closed, stale : Moved(row, Decides(row, body, who, closed, stale).item)
  BY DEF Decides
<1>7. /\ Moved(row, resolve_google_event_review(row, body, who).item)
      /\ Moved(row, confirm_event_plan(row, body, who).item)
      /\ Moved(row, respond_conflict_review(row, body, who).item)
      /\ Moved(row, confirm_nursery_review(row, body, who).item)
  BY <1>6 DEF resolve_google_event_review, confirm_event_plan, respond_conflict_review, confirm_nursery_review
<1>8. Moved(row, resolve_nursery_ambiguity(row, body, who).item) /\ Moved(row, Created(row, body, who).item)
  BY DEF resolve_nursery_ambiguity, Created
<1> QED  BY <1>1, <1>2, <1>3, <1>4, <1>5, <1>7, <1>8, Zenon

LEMMA SettingsMove ==
  ASSUME NEW row, IsRow(row), NEW body, NEW who
  PROVE  /\ Moved(row, set_family_role(row, body, who).item)
         /\ Moved(row, create_household(row, body, who).item)
         /\ Moved(row, join_household(row, body, who).item)
         /\ Moved(row, create_household_invite(row, body, who).item)
         /\ body.action \in {"finish_later", "reissue_invite"} => Moved(row, family_setup(row, body, who).item)
         /\ Moved(row, complete_onboarding_step(row, body, who).item)
         /\ Moved(row, configure_dropoff_pickup(row, body, who).item)
         /\ Moved(row, configure_evening_routines(row, body, who).item)
         /\ Moved(row, Overwritten(row, body).item)
         /\ Moved(row, deactivate_recurrence(row, body, who).item)
         /\ Moved(row, save_context(row, body, who).item)
         /\ Moved(row, commit_concierge_duplicate(row, body, who).item)
<1> USE BumpMoved, ReplyMoved
<1>1. Moved(row, set_family_role(row, body, who).item)
  BY DEF set_family_role
<1>2. /\ Moved(row, create_household(row, body, who).item)
      /\ Moved(row, join_household(row, body, who).item)
      /\ Moved(row, create_household_invite(row, body, who).item)
  BY DEF create_household, join_household, create_household_invite
<1>3. body.action \in {"finish_later", "reissue_invite"} => Moved(row, family_setup(row, body, who).item)
  BY DEF family_setup
<1>4. Moved(row, complete_onboarding_step(row, body, who).item)
  BY DEF complete_onboarding_step
<1>5. /\ Moved(row, configure_dropoff_pickup(row, body, who).item)
      /\ Moved(row, configure_evening_routines(row, body, who).item)
  BY DEF configure_dropoff_pickup, configure_evening_routines
<1>6. Moved(row, Overwritten(row, body).item)
  BY DEF Overwritten
<1>7. Moved(row, deactivate_recurrence(row, body, who).item)
  BY <1>6 DEF deactivate_recurrence
<1>8. Moved(row, save_context(row, body, who).item) /\ Moved(row, commit_concierge_duplicate(row, body, who).item)
  BY DEF save_context, commit_concierge_duplicate
<1> QED  BY <1>1, <1>2, <1>3, <1>4, <1>5, <1>6, <1>7, <1>8, Zenon

LEMMA ServedMoves ==
  ASSUME NEW row, IsRow(row), NEW endpoint, NEW body, Fits(scene.screen, endpoint, body), NEW who
  PROVE  Moved(row, ServeAll(endpoint, row, body, who).item)
<1> USE DEF ServeAll
<1>1. CASE endpoint \in {"set-family-role", "create-household", "join-household", "create-household-invite",
                         "configure-dropoff-pickup", "configure-evening-routines"}
  BY <1>1, SettingsMove
<1>2. CASE endpoint = "complete-onboarding-step"
  BY <1>2, SettingsMove DEF Fits, Guarded, Unguarded, RequestEndpoints
<1>3. CASE endpoint \in {"update-routine-schedule", "change-recurrence", "deactivate-recurrence",
                         "update-notification-preferences", "update-task-categories",
                         "update-household-terminology", "commit-concierge-duplicate"}
  BY <1>3, SettingsMove DEF update_routine_schedule, change_recurrence, update_notification_preferences,
         update_reminder_settings, update_task_categories, replace_household_terminology
<1>4. CASE endpoint = "transport-schedule"
  BY <1>4, SettingsMove, FamilyMoves DEF Fits, Guarded, Unguarded, RequestEndpoints, save_template, ServeFamily
<1>5. CASE endpoint \in {"create-line-link-token", "record-unplanned-actual", "send-request",
                         "confirm-request-draft", "create-handover"}
  BY <1>5, FamilyMoves DEF create_line_link_token, record_unplanned_actual, ServeFamily
<1>6. CASE endpoint \in RequestEndpoints
  BY <1>6, FamilyMoves DEF Fits, Guarded, Unguarded, RequestEndpoints, ServeFamily
<1>7. CASE endpoint \in {"start-request-followup", "mark-handover-read", "routine-session-item-action",
                         "resolve-google-event-review", "confirm-event-plan", "confirm-nursery-review",
                         "resolve-nursery-ambiguity"}
  BY <1>7, FamilyMoves DEF ServeFamily
<1>8. CASE endpoint \in {"complete-task", "change-task-assignment", "edit-task", "claim-shopping-item"}
  BY <1>8, TasksMove, GoodsMove DEF Fits, Guarded, Unguarded, RequestEndpoints, ServeFamily, Serve
<1>9. CASE endpoint \in {"cancel-task", "set-subtask-completion", "set-task-waiting", "create-task",
                         "create-assignment-change-request", "correct-task-actual", "add-task-completion-evidence"}
  BY <1>9, TasksMove DEF ServeFamily, Serve
<1>10. CASE endpoint \in {"order-shopping-item", "purchase-shopping-item", "arrive-shopping-item",
                          "reopen-shopping-item", "cancel-shopping-item", "assign-shopping-item", "add-shopping-item"}
  BY <1>10, GoodsMove DEF ServeFamily, Serve
<1> HIDE DEF ServeAll
<1> QED  BY <1>1, <1>2, <1>3, <1>4, <1>5, <1>6, <1>7, <1>8, <1>9, <1>10 DEF Fits, Guarded, Unguarded

-----------------------------------------------------------------------------
(* A command that names a revision is carried out at that revision only, and*)
(* moves the row to the next.                                               *)

AreChecks(checks) ==
    /\ DOMAIN checks \subseteq 1..4
    /\ \A i \in DOMAIN checks : checks[i].holds \/ checks[i].code # "OK"

\* A command carried out found every check to hold.
LEMMA ReplyHolds ==
  ASSUME NEW row, NEW checks, AreChecks(checks), NEW next, NEW made,
         Reply(row, checks, next, made).code = "OK"
  PROVE  (\A i \in DOMAIN checks : checks[i].holds) /\ Reply(row, checks, next, made).item = next
<1> DEFINE failing == {i \in DOMAIN checks : ~checks[i].holds}
           first == CHOOSE i \in failing : \A j \in failing : i <= j
<1>1. Reply(row, checks, next, made)
        = IF failing = {} THEN [code |-> "OK", item |-> next, made |-> made]
                          ELSE [code |-> checks[first].code, item |-> row, made |-> FALSE]
  BY DEF Reply
<1>2. CASE failing = {}  BY <1>1, <1>2
<1>3. CASE failing # {}
  <2>1. failing \in SUBSET (1..6)  BY DEF AreChecks
  <2>2. first \in failing
    <3>1. \E i \in failing : \A j \in failing : i <= j
      <4> HIDE DEF failing
      <4> QED  BY <1>3, <2>1, LeastStep
    <3> HIDE DEF failing
    <3> QED  BY <3>1
  <2>3. checks[first].code # "OK"  BY <2>2 DEF AreChecks
  <2> HIDE DEF first, failing
  <2> QED  BY <1>1, <1>3, <2>3
<1> QED  BY <1>2, <1>3

\* The revision is among what is checked.
AreGuards(checks, row, body) ==
    AreChecks(checks) /\ \E i \in DOMAIN checks : checks[i].holds => body.rev = row.rev

Lands(row, body, next) == body.rev = row.rev /\ next.rev = row.rev + 1

LEMMA ReplyLands ==
  ASSUME NEW row, NEW body, NEW checks, AreGuards(checks, row, body), NEW state, NEW made,
         Reply(row, checks, Bump(row, state), made).code = "OK"
  PROVE  Lands(row, body, Reply(row, checks, Bump(row, state), made).item)
<1> PICK i \in DOMAIN checks : checks[i].holds => body.rev = row.rev
  BY DEF AreGuards
<1>1. checks[i].holds /\ Reply(row, checks, Bump(row, state), made).item = Bump(row, state)
  BY ReplyHolds DEF AreGuards
<1>2. body.rev = row.rev  BY <1>1
<1>3. Bump(row, state).rev = row.rev + 1  BY DEF Bump
<1> QED  BY <1>1, <1>2, <1>3 DEF Lands

\* The lists of checks as the commands write them.
LEMMA Lists ==
  ASSUME NEW a, NEW b, NEW c, NEW d
  PROVE  /\ DOMAIN <<a, b>> = 1..2 /\ <<a, b>>[1] = a /\ <<a, b>>[2] = b
         /\ DOMAIN <<a, b, c>> = 1..3 /\ <<a, b, c>>[1] = a /\ <<a, b, c>>[2] = b /\ <<a, b, c>>[3] = c
         /\ DOMAIN (<<a, b>> \o <<c>>) = 1..3 /\ (<<a, b>> \o <<c>>)[1] = a /\ (<<a, b>> \o <<c>>)[2] = b
         /\ (<<a, b>> \o <<c>>)[3] = c
         /\ DOMAIN (<<a, b>> \o <<c, d>>) = 1..4 /\ (<<a, b>> \o <<c, d>>)[1] = a
         /\ (<<a, b>> \o <<c, d>>)[2] = b /\ (<<a, b>> \o <<c, d>>)[3] = c /\ (<<a, b>> \o <<c, d>>)[4] = d
OBVIOUS

LEMMA TwoChecks ==
  ASSUME NEW row, NEW body, NEW a, NEW b, a.code # "OK", b.code # "OK",
         (a.holds => body.rev = row.rev) \/ (b.holds => body.rev = row.rev)
  PROVE  AreGuards(<<a, b>>, row, body)
<1> DEFINE l == <<a, b>>
<1>1. DOMAIN l = 1..2 /\ l[1] = a /\ l[2] = b  BY Lists
<1> HIDE DEF l
<1> QED  BY <1>1 DEF AreGuards, AreChecks

LEMMA ThreeChecks ==
  ASSUME NEW row, NEW body, NEW a, NEW b, NEW c, a.code # "OK", b.code # "OK", c.code # "OK",
         (a.holds => body.rev = row.rev) \/ (b.holds => body.rev = row.rev)
  PROVE  AreGuards(<<a, b>> \o <<c>>, row, body) /\ AreGuards(<<a, b, c>>, row, body)
<1>1. ASSUME NEW l, DOMAIN l = 1..3, l[1] = a, l[2] = b, l[3] = c
      PROVE  AreGuards(l, row, body)
  BY <1>1 DEF AreGuards, AreChecks
<1>2. AreGuards(<<a, b>> \o <<c>>, row, body)
  <2> DEFINE l == <<a, b>> \o <<c>>
  <2>1. DOMAIN l = 1..3 /\ l[1] = a /\ l[2] = b /\ l[3] = c  BY Lists
  <2> HIDE DEF l
  <2>2. AreGuards(l, row, body)  BY <1>1, <2>1
  <2> QED  BY <2>2 DEF l
<1>3. AreGuards(<<a, b, c>>, row, body)
  <2> DEFINE l == <<a, b, c>>
  <2>1. DOMAIN l = 1..3 /\ l[1] = a /\ l[2] = b /\ l[3] = c  BY Lists
  <2> HIDE DEF l
  <2>2. AreGuards(l, row, body)  BY <1>1, <2>1
  <2> QED  BY <2>2 DEF l
<1> QED  BY <1>2, <1>3

LEMMA FourChecks ==
  ASSUME NEW row, NEW body, NEW a, NEW b, NEW c, NEW d,
         a.code # "OK", b.code # "OK", c.code # "OK", d.code # "OK",
         (a.holds => body.rev = row.rev) \/ (b.holds => body.rev = row.rev)
  PROVE  AreGuards(<<a, b>> \o <<c, d>>, row, body)
<1> DEFINE l == <<a, b>> \o <<c, d>>
<1>1. DOMAIN l = 1..4 /\ l[1] = a /\ l[2] = b /\ l[3] = c /\ l[4] = d  BY Lists
<1> HIDE DEF l
<1> QED  BY <1>1 DEF AreGuards, AreChecks

LEMMA TasksLand ==
  ASSUME NEW row, NEW body, NEW who
  PROVE  /\ body.action \in {"reopen", "could_not_do", "could_not_do_undo"}
               /\ complete_task(row, body, who).code = "OK"
               => Lands(row, body, complete_task(row, body, who).item)
         /\ body.action \in {"claim", "release", "takeover", "agreed"}
               /\ change_task_assignment(row, body, who).code = "OK"
               => Lands(row, body, change_task_assignment(row, body, who).item)
         /\ body.action \in {"record_progress", "save"} /\ edit_task(row, body, who).code = "OK"
               => Lands(row, body, edit_task(row, body, who).item)
         /\ set_task_waiting(row, body, who).code = "OK"
               => Lands(row, body, set_task_waiting(row, body, who).item)
         /\ correct_task_actual(row, body, who).code = "OK"
               => Lands(row, body, correct_task_actual(row, body, who).item)
<1>1. ASSUME body.action = "reopen", complete_task(row, body, who).code = "OK"
      PROVE  Lands(row, body, complete_task(row, body, who).item)
  <2> DEFINE a == Fresh(row, body)
             b == Check(row.state.status = "completed", "TASK_NOT_COMPLETED")
             c == Check(row.state.mode # "subtasks", "TASK_REOPEN_USE_SUBTASKS")
  <2>1. a.code # "OK" /\ b.code # "OK" /\ c.code # "OK"
       /\ (a.holds => body.rev = row.rev)
    BY <1>1 DEF Fresh, Check
  <2>2. \E state : complete_task(row, body, who) = Reply(row, <<a, b, c>>, Bump(row, state), FALSE)
    BY <1>1 DEF complete_task, Reopen
  <2> HIDE DEF a, b, c
  <2>3. AreGuards(<<a, b, c>>, row, body)  BY <2>1, ThreeChecks
  <2> QED  BY <1>1, <2>2, <2>3, ReplyLands
<1>2. ASSUME body.action = "could_not_do", complete_task(row, body, who).code = "OK"
      PROVE  Lands(row, body, complete_task(row, body, who).item)
  <2> DEFINE a == Fresh(row, body)
             b == Check(row.state.status = "todo", "TASK_TERMINAL")
  <2>1. a.code # "OK" /\ b.code # "OK"
       /\ (a.holds => body.rev = row.rev)
    BY <1>2 DEF Fresh, Check
  <2>2. \E state : complete_task(row, body, who) = Reply(row, <<a, b>>, Bump(row, state), FALSE)
    BY <1>2 DEF complete_task, CouldNotDo
  <2> HIDE DEF a, b
  <2>3. AreGuards(<<a, b>>, row, body)  BY <2>1, TwoChecks
  <2> QED  BY <1>2, <2>2, <2>3, ReplyLands
<1>3. ASSUME body.action = "could_not_do_undo", complete_task(row, body, who).code = "OK"
      PROVE  Lands(row, body, complete_task(row, body, who).item)
  <2> DEFINE a == Fresh(row, body)
             b == Check(row.state.status = "could_not_do", "TASK_NOT_COULD_NOT_DO")
  <2>1. a.code # "OK" /\ b.code # "OK"
       /\ (a.holds => body.rev = row.rev)
    BY <1>3 DEF Fresh, Check
  <2>2. \E state : complete_task(row, body, who) = Reply(row, <<a, b>>, Bump(row, state), FALSE)
    BY <1>3 DEF complete_task, CouldNotDo
  <2> HIDE DEF a, b
  <2>3. AreGuards(<<a, b>>, row, body)  BY <2>1, TwoChecks
  <2> QED  BY <1>3, <2>2, <2>3, ReplyLands
<1>4. ASSUME body.action = "claim", change_task_assignment(row, body, who).code = "OK"
      PROVE  Lands(row, body, change_task_assignment(row, body, who).item)
  <2> DEFINE a == Fresh(row, body)
             b == Check(row.state.status = "todo", "TASK_NOT_OPEN")
             c == Check(row.state.assignment = "anyone", "TASK_NOT_ANYONE")
             d == Check(row.state.claim = Nobody, "TASK_ALREADY_CLAIMED")
  <2>1. a.code # "OK" /\ b.code # "OK" /\ c.code # "OK" /\ d.code # "OK"
       /\ (a.holds => body.rev = row.rev)
    BY DEF Fresh, Check
  <2>2. \E state : change_task_assignment(row, body, who) = Reply(row, <<a, b>> \o <<c, d>>, Bump(row, state), FALSE)
    BY <1>4 DEF change_task_assignment
  <2> HIDE DEF a, b, c, d
  <2>3. AreGuards(<<a, b>> \o <<c, d>>, row, body)  BY <2>1, FourChecks
  <2> QED  BY <1>4, <2>2, <2>3, ReplyLands
<1>5. ASSUME body.action = "release", change_task_assignment(row, body, who).code = "OK"
      PROVE  Lands(row, body, change_task_assignment(row, body, who).item)
  <2> DEFINE a == Fresh(row, body)
             b == Check(row.state.status = "todo", "TASK_NOT_OPEN")
             c == Check(row.state.assignment = "anyone", "TASK_NOT_ANYONE")
             d == Check(row.state.claim = who, "TASK_CLAIM_NOT_OWNED")
  <2>1. a.code # "OK" /\ b.code # "OK" /\ c.code # "OK" /\ d.code # "OK"
       /\ (a.holds => body.rev = row.rev)
    BY DEF Fresh, Check
  <2>2. \E state : change_task_assignment(row, body, who) = Reply(row, <<a, b>> \o <<c, d>>, Bump(row, state), FALSE)
    BY <1>5 DEF change_task_assignment
  <2> HIDE DEF a, b, c, d
  <2>3. AreGuards(<<a, b>> \o <<c, d>>, row, body)  BY <2>1, FourChecks
  <2> QED  BY <1>5, <2>2, <2>3, ReplyLands
<1>6. ASSUME body.action = "takeover", change_task_assignment(row, body, who).code = "OK"
      PROVE  Lands(row, body, change_task_assignment(row, body, who).item)
  <2> DEFINE a == Fresh(row, body)
             b == Check(row.state.status = "todo", "TASK_NOT_OPEN")
             c == Check(row.state.assignment = "anyone", "TASK_NOT_ANYONE")
             d == Check(row.state.claim = Other(who), "TASK_TAKEOVER_NOT_REQUIRED")
  <2>1. a.code # "OK" /\ b.code # "OK" /\ c.code # "OK" /\ d.code # "OK"
       /\ (a.holds => body.rev = row.rev)
    BY DEF Fresh, Check
  <2>2. \E state : change_task_assignment(row, body, who) = Reply(row, <<a, b>> \o <<c, d>>, Bump(row, state), FALSE)
    BY <1>6 DEF change_task_assignment
  <2> HIDE DEF a, b, c, d
  <2>3. AreGuards(<<a, b>> \o <<c, d>>, row, body)  BY <2>1, FourChecks
  <2> QED  BY <1>6, <2>2, <2>3, ReplyLands
<1>7. ASSUME body.action = "agreed", change_task_assignment(row, body, who).code = "OK"
      PROVE  Lands(row, body, change_task_assignment(row, body, who).item)
  <2> DEFINE a == Fresh(row, body)
             b == Check(row.state.status = "todo", "TASK_NOT_OPEN")
  <2>1. a.code # "OK" /\ b.code # "OK"
       /\ (a.holds => body.rev = row.rev)
    BY <1>7 DEF Fresh, Check
  <2>2. \E state : change_task_assignment(row, body, who) = Reply(row, <<a, b>>, Bump(row, state), FALSE)
    BY <1>7 DEF change_task_assignment
  <2> HIDE DEF a, b
  <2>3. AreGuards(<<a, b>>, row, body)  BY <2>1, TwoChecks
  <2> QED  BY <1>7, <2>2, <2>3, ReplyLands
<1>8. ASSUME body.action = "record_progress", edit_task(row, body, who).code = "OK"
      PROVE  Lands(row, body, edit_task(row, body, who).item)
  <2> DEFINE a == Fresh(row, body)
             b == Check(row.state.status \in {"todo", "completed"}, "TASK_TERMINAL")
  <2>1. a.code # "OK" /\ b.code # "OK"
       /\ (a.holds => body.rev = row.rev)
    BY <1>8 DEF Fresh, Check
  <2>2. \E state : edit_task(row, body, who) = Reply(row, <<a, b>>, Bump(row, state), TRUE)
    BY <1>8 DEF edit_task
  <2> HIDE DEF a, b
  <2>3. AreGuards(<<a, b>>, row, body)  BY <2>1, TwoChecks
  <2> QED  BY <1>8, <2>2, <2>3, ReplyLands
<1>9. ASSUME body.action = "save", edit_task(row, body, who).code = "OK"
      PROVE  Lands(row, body, edit_task(row, body, who).item)
  <2> DEFINE a == Check(row.state.status # "cancelled", "TASK_TERMINAL")
             b == Fresh(row, body)
  <2>1. a.code # "OK" /\ b.code # "OK"
       /\ (b.holds => body.rev = row.rev)
    BY <1>9 DEF Fresh, Check
  <2>2. \E state : edit_task(row, body, who) = Reply(row, <<a, b>>, Bump(row, state), FALSE)
    BY <1>9 DEF edit_task
  <2> HIDE DEF a, b
  <2>3. AreGuards(<<a, b>>, row, body)  BY <2>1, TwoChecks
  <2> QED  BY <1>9, <2>2, <2>3, ReplyLands
<1>10. ASSUME set_task_waiting(row, body, who).code = "OK"
      PROVE  Lands(row, body, set_task_waiting(row, body, who).item)
  <2> DEFINE a == Fresh(row, body)
             b == Check(row.state.status = "todo", "TASK_WAITING_STATE_CONFLICT")
             c == Check(body.action \in {"resume", "update"} => row.state.waiting, "TASK_WAITING_STATE_CONFLICT")
  <2>1. a.code # "OK" /\ b.code # "OK" /\ c.code # "OK"
       /\ (a.holds => body.rev = row.rev)
    BY <1>10 DEF Fresh, Check
  <2>2. \E state : set_task_waiting(row, body, who) = Reply(row, <<a, b, c>>, Bump(row, state), FALSE)
    BY <1>10 DEF set_task_waiting
  <2> HIDE DEF a, b, c
  <2>3. AreGuards(<<a, b, c>>, row, body)  BY <2>1, ThreeChecks
  <2> QED  BY <1>10, <2>2, <2>3, ReplyLands
<1>11. ASSUME correct_task_actual(row, body, who).code = "OK"
      PROVE  Lands(row, body, correct_task_actual(row, body, who).item)
  <2> DEFINE a == Fresh(row, body)
             b == Check(row.state.status = "completed", "TASK_PERFORMER_CONFLICT")
  <2>1. a.code # "OK" /\ b.code # "OK"
       /\ (a.holds => body.rev = row.rev)
    BY <1>11 DEF Fresh, Check
  <2>2. \E state : correct_task_actual(row, body, who) = Reply(row, <<a, b>>, Bump(row, state), FALSE)
    BY <1>11 DEF correct_task_actual
  <2> HIDE DEF a, b
  <2>3. AreGuards(<<a, b>>, row, body)  BY <2>1, TwoChecks
  <2> QED  BY <1>11, <2>2, <2>3, ReplyLands
<1> QED  BY <1>1, <1>2, <1>3, <1>4, <1>5, <1>6, <1>7, <1>8, <1>9, <1>10, <1>11, Zenon

LEMMA GoodsLand ==
  ASSUME NEW row, NEW body, NEW who
  PROVE  /\ \A ok, status : Recorded(row, body, who, ok, status).code = "OK"
               => Lands(row, body, Recorded(row, body, who, ok, status).item)
         /\ reopen_shopping_item(row, body, who).code = "OK"
               => Lands(row, body, reopen_shopping_item(row, body, who).item)
         /\ cancel_shopping_item(row, body, who).code = "OK"
               => Lands(row, body, cancel_shopping_item(row, body, who).item)
         /\ assign_shopping_item(row, body, who).code = "OK"
               => Lands(row, body, assign_shopping_item(row, body, who).item)
         /\ body.action \in {"claim", "release", "takeover"} /\ claim_shopping_item(row, body, who).code = "OK"
               => Lands(row, body, claim_shopping_item(row, body, who).item)
<1>1. ASSUME NEW ok, NEW status, Recorded(row, body, who, ok, status).code = "OK"
      PROVE  Lands(row, body, Recorded(row, body, who, ok, status).item)
  <2> DEFINE a == Fresh(row, body)
             b == Check(ok, "INVALID_SHOPPING_TRANSITION")
             c == Check(row.state.assignment \in {User, Partner} => row.state.assignment = who,
                        "SHOPPING_PERFORMER_NOT_ASSIGNEE")
             d == Check(row.state.assignment = "anyone" => row.state.claim \in {Nobody, who},
                        "SHOPPING_CLAIMED_BY_OTHER")
  <2>1. a.code # "OK" /\ b.code # "OK" /\ c.code # "OK" /\ d.code # "OK"
       /\ (a.holds => body.rev = row.rev)
    BY DEF Fresh, Check
  <2>2. \E state : Recorded(row, body, who, ok, status) = Reply(row, <<a, b>> \o <<c, d>>, Bump(row, state), FALSE)
    BY <1>1 DEF Recorded, BuyableBy
  <2> HIDE DEF a, b, c, d
  <2>3. AreGuards(<<a, b>> \o <<c, d>>, row, body)  BY <2>1, FourChecks
  <2> QED  BY <1>1, <2>2, <2>3, ReplyLands
<1>2. ASSUME reopen_shopping_item(row, body, who).code = "OK"
      PROVE  Lands(row, body, reopen_shopping_item(row, body, who).item)
  <2> DEFINE a == Fresh(row, body)
             b == Check(row.state.status \in {"ordered", "purchased", "arrived"}, "INVALID_SHOPPING_TRANSITION")
  <2>1. a.code # "OK" /\ b.code # "OK"
       /\ (a.holds => body.rev = row.rev)
    BY <1>2 DEF Fresh, Check
  <2>2. \E state : reopen_shopping_item(row, body, who) = Reply(row, <<a, b>>, Bump(row, state), FALSE)
    BY <1>2 DEF reopen_shopping_item
  <2> HIDE DEF a, b
  <2>3. AreGuards(<<a, b>>, row, body)  BY <2>1, TwoChecks
  <2> QED  BY <1>2, <2>2, <2>3, ReplyLands
<1>3. ASSUME cancel_shopping_item(row, body, who).code = "OK"
      PROVE  Lands(row, body, cancel_shopping_item(row, body, who).item)
  <2> DEFINE a == Fresh(row, body)
             b == Check(row.state.status \in {"wanted", "assigned", "ordered"}, "INVALID_SHOPPING_TRANSITION")
  <2>1. a.code # "OK" /\ b.code # "OK"
       /\ (a.holds => body.rev = row.rev)
    BY <1>3 DEF Fresh, Check
  <2>2. \E state : cancel_shopping_item(row, body, who) = Reply(row, <<a, b>>, Bump(row, state), FALSE)
    BY <1>3 DEF cancel_shopping_item
  <2> HIDE DEF a, b
  <2>3. AreGuards(<<a, b>>, row, body)  BY <2>1, TwoChecks
  <2> QED  BY <1>3, <2>2, <2>3, ReplyLands
<1>4. ASSUME assign_shopping_item(row, body, who).code = "OK"
      PROVE  Lands(row, body, assign_shopping_item(row, body, who).item)
  <2> DEFINE a == Fresh(row, body)
             b == Check([row.state EXCEPT !.assignment = body.arg].status \in {"wanted", "assigned"}, "INVALID_SHOPPING_TRANSITION")
  <2>1. a.code # "OK" /\ b.code # "OK"
       /\ (a.holds => body.rev = row.rev)
    BY <1>4 DEF Fresh, Check
  <2>2. \E state : assign_shopping_item(row, body, who) = Reply(row, <<a, b>>, Bump(row, state), FALSE)
    BY <1>4 DEF assign_shopping_item
  <2> HIDE DEF a, b
  <2>3. AreGuards(<<a, b>>, row, body)  BY <2>1, TwoChecks
  <2> QED  BY <1>4, <2>2, <2>3, ReplyLands
<1>5. ASSUME body.action = "claim", claim_shopping_item(row, body, who).code = "OK"
      PROVE  Lands(row, body, claim_shopping_item(row, body, who).item)
  <2> DEFINE a == Fresh(row, body)
             b == Check(row.state.assignment = "anyone" /\ row.state.status = "wanted", "SHOPPING_NOT_CLAIMABLE")
             c == Check(row.state.claim = Nobody, "SHOPPING_ALREADY_CLAIMED")
  <2>1. a.code # "OK" /\ b.code # "OK" /\ c.code # "OK"
       /\ (a.holds => body.rev = row.rev)
    BY DEF Fresh, Check
  <2>2. \E state : claim_shopping_item(row, body, who) = Reply(row, <<a, b>> \o <<c>>, Bump(row, state), FALSE)
    BY <1>5 DEF claim_shopping_item
  <2> HIDE DEF a, b, c
  <2>3. AreGuards(<<a, b>> \o <<c>>, row, body)  BY <2>1, ThreeChecks
  <2> QED  BY <1>5, <2>2, <2>3, ReplyLands
<1>6. ASSUME body.action = "release", claim_shopping_item(row, body, who).code = "OK"
      PROVE  Lands(row, body, claim_shopping_item(row, body, who).item)
  <2> DEFINE a == Fresh(row, body)
             b == Check(row.state.assignment = "anyone" /\ row.state.status = "wanted", "SHOPPING_NOT_CLAIMABLE")
             c == Check(row.state.claim = who, "SHOPPING_CLAIM_NOT_OWNED")
  <2>1. a.code # "OK" /\ b.code # "OK" /\ c.code # "OK"
       /\ (a.holds => body.rev = row.rev)
    BY DEF Fresh, Check
  <2>2. \E state : claim_shopping_item(row, body, who) = Reply(row, <<a, b>> \o <<c>>, Bump(row, state), FALSE)
    BY <1>6 DEF claim_shopping_item
  <2> HIDE DEF a, b, c
  <2>3. AreGuards(<<a, b>> \o <<c>>, row, body)  BY <2>1, ThreeChecks
  <2> QED  BY <1>6, <2>2, <2>3, ReplyLands
<1>7. ASSUME body.action = "takeover", claim_shopping_item(row, body, who).code = "OK"
      PROVE  Lands(row, body, claim_shopping_item(row, body, who).item)
  <2> DEFINE a == Fresh(row, body)
             b == Check(row.state.assignment = "anyone" /\ row.state.status = "wanted", "SHOPPING_NOT_CLAIMABLE")
             c == Check(row.state.claim = Other(who), "SHOPPING_TAKEOVER_NOT_REQUIRED")
  <2>1. a.code # "OK" /\ b.code # "OK" /\ c.code # "OK"
       /\ (a.holds => body.rev = row.rev)
    BY DEF Fresh, Check
  <2>2. \E state : claim_shopping_item(row, body, who) = Reply(row, <<a, b>> \o <<c>>, Bump(row, state), FALSE)
    BY <1>7 DEF claim_shopping_item
  <2> HIDE DEF a, b, c
  <2>3. AreGuards(<<a, b>> \o <<c>>, row, body)  BY <2>1, ThreeChecks
  <2> QED  BY <1>7, <2>2, <2>3, ReplyLands
<1> QED  BY <1>1, <1>2, <1>3, <1>4, <1>5, <1>6, <1>7, Zenon

LEMMA FamilyLand ==
  ASSUME NEW row, NEW body, NEW who
  PROVE  /\ body.action \in RequestAnswers /\ transition(row, body, who).code = "OK"
               => Lands(row, body, transition(row, body, who).item)
         /\ \A closed, stale : closed # "OK" /\ stale # "OK" /\ Decides(row, body, who, closed, stale).code = "OK"
               => Lands(row, body, Decides(row, body, who, closed, stale).item)
         /\ resolve_nursery_ambiguity(row, body, who).code = "OK"
               => Lands(row, body, resolve_nursery_ambiguity(row, body, who).item)
         /\ commit_concierge_duplicate(row, body, who).code = "OK"
               => Lands(row, body, commit_concierge_duplicate(row, body, who).item)
<1>1. ASSUME body.action = "accept", transition(row, body, who).code = "OK"
      PROVE  Lands(row, body, transition(row, body, who).item)
  <2> DEFINE a == Check(body.rev = row.rev, "REQUEST_ATTEMPT_STALE")
             b == Check(row.state.status \in Deciding \union Talking, "REQUEST_ATTEMPT_STALE")
             c == Check(who # row.state.requester, "REQUEST_TRANSITION_INVALID")
             d == Check(row.state.status \in Deciding, "REQUEST_TRANSITION_INVALID")
  <2>1. a.code # "OK" /\ b.code # "OK" /\ c.code # "OK" /\ d.code # "OK"
       /\ (a.holds => body.rev = row.rev)
    BY DEF Check
  <2>2. \E state : transition(row, body, who) = Reply(row, <<a, b>> \o <<c, d>>, Bump(row, state), FALSE)
    BY <1>1 DEF transition
  <2> HIDE DEF a, b, c, d
  <2>3. AreGuards(<<a, b>> \o <<c, d>>, row, body)  BY <2>1, FourChecks
  <2> QED  BY <1>1, <2>2, <2>3, ReplyLands
<1>2. ASSUME body.action = "decline", transition(row, body, who).code = "OK"
      PROVE  Lands(row, body, transition(row, body, who).item)
  <2> DEFINE a == Check(body.rev = row.rev, "REQUEST_ATTEMPT_STALE")
             b == Check(row.state.status \in Deciding \union Talking, "REQUEST_ATTEMPT_STALE")
             c == Check(who # row.state.requester, "REQUEST_TRANSITION_INVALID")
             d == Check(row.state.status \in Deciding, "REQUEST_TRANSITION_INVALID")
  <2>1. a.code # "OK" /\ b.code # "OK" /\ c.code # "OK" /\ d.code # "OK"
       /\ (a.holds => body.rev = row.rev)
    BY DEF Check
  <2>2. \E state : transition(row, body, who) = Reply(row, <<a, b>> \o <<c, d>>, Bump(row, state), FALSE)
    BY <1>2 DEF transition
  <2> HIDE DEF a, b, c, d
  <2>3. AreGuards(<<a, b>> \o <<c, d>>, row, body)  BY <2>1, FourChecks
  <2> QED  BY <1>2, <2>2, <2>3, ReplyLands
<1>3. ASSUME body.action = "checking", transition(row, body, who).code = "OK"
      PROVE  Lands(row, body, transition(row, body, who).item)
  <2> DEFINE a == Check(body.rev = row.rev, "REQUEST_ATTEMPT_STALE")
             b == Check(row.state.status \in Deciding \union Talking, "REQUEST_ATTEMPT_STALE")
             c == Check(who # row.state.requester, "REQUEST_TRANSITION_INVALID")
             d == Check(row.state.status \in {"pending"}, "REQUEST_TRANSITION_INVALID")
  <2>1. a.code # "OK" /\ b.code # "OK" /\ c.code # "OK" /\ d.code # "OK"
       /\ (a.holds => body.rev = row.rev)
    BY DEF Check
  <2>2. \E state : transition(row, body, who) = Reply(row, <<a, b>> \o <<c, d>>, Bump(row, state), FALSE)
    BY <1>3 DEF transition
  <2> HIDE DEF a, b, c, d
  <2>3. AreGuards(<<a, b>> \o <<c, d>>, row, body)  BY <2>1, FourChecks
  <2> QED  BY <1>3, <2>2, <2>3, ReplyLands
<1>4. ASSUME body.action = "consult", transition(row, body, who).code = "OK"
      PROVE  Lands(row, body, transition(row, body, who).item)
  <2> DEFINE a == Check(body.rev = row.rev, "REQUEST_ATTEMPT_STALE")
             b == Check(row.state.status \in Deciding \union Talking, "REQUEST_ATTEMPT_STALE")
             c == Check(row.state.status \in Deciding, "REQUEST_TRANSITION_INVALID")
  <2>1. a.code # "OK" /\ b.code # "OK" /\ c.code # "OK"
       /\ (a.holds => body.rev = row.rev)
    BY DEF Check
  <2>2. \E state : transition(row, body, who) = Reply(row, <<a, b>> \o <<c>>, Bump(row, state), FALSE)
    BY <1>4 DEF transition
  <2> HIDE DEF a, b, c
  <2>3. AreGuards(<<a, b>> \o <<c>>, row, body)  BY <2>1, ThreeChecks
  <2> QED  BY <1>4, <2>2, <2>3, ReplyLands
<1>5. ASSUME body.action = "edit_terms", transition(row, body, who).code = "OK"
      PROVE  Lands(row, body, transition(row, body, who).item)
  <2> DEFINE a == Check(body.rev = row.rev, "REQUEST_ATTEMPT_STALE")
             b == Check(row.state.status \in Deciding \union Talking, "REQUEST_ATTEMPT_STALE")
             c == Check(row.state.status \in Talking, "REQUEST_TRANSITION_INVALID")
  <2>1. a.code # "OK" /\ b.code # "OK" /\ c.code # "OK"
       /\ (a.holds => body.rev = row.rev)
    BY DEF Check
  <2>2. \E state : transition(row, body, who) = Reply(row, <<a, b>> \o <<c>>, Bump(row, state), FALSE)
    BY <1>5 DEF transition
  <2> HIDE DEF a, b, c
  <2>3. AreGuards(<<a, b>> \o <<c>>, row, body)  BY <2>1, ThreeChecks
  <2> QED  BY <1>5, <2>2, <2>3, ReplyLands
<1>6. ASSUME body.action = "confirm_terms", transition(row, body, who).code = "OK"
      PROVE  Lands(row, body, transition(row, body, who).item)
  <2> DEFINE a == Check(body.rev = row.rev, "REQUEST_ATTEMPT_STALE")
             b == Check(row.state.status \in Deciding \union Talking, "REQUEST_ATTEMPT_STALE")
             c == Check(row.state.status \in Talking, "REQUEST_TRANSITION_INVALID")
  <2>1. a.code # "OK" /\ b.code # "OK" /\ c.code # "OK"
       /\ (a.holds => body.rev = row.rev)
    BY DEF Check
  <2>2. \E state : transition(row, body, who) = Reply(row, <<a, b>> \o <<c>>, Bump(row, state), FALSE)
    BY <1>6 DEF transition
  <2> HIDE DEF a, b, c
  <2>3. AreGuards(<<a, b>> \o <<c>>, row, body)  BY <2>1, ThreeChecks
  <2> QED  BY <1>6, <2>2, <2>3, ReplyLands
<1>7. ASSUME body.action = "cancel", transition(row, body, who).code = "OK"
      PROVE  Lands(row, body, transition(row, body, who).item)
  <2> DEFINE a == Check(body.rev = row.rev, "REQUEST_ATTEMPT_STALE")
             b == Check(row.state.status \in Deciding \union Talking, "REQUEST_ATTEMPT_STALE")
             c == Check(who = row.state.requester, "REQUEST_TRANSITION_INVALID")
  <2>1. a.code # "OK" /\ b.code # "OK" /\ c.code # "OK"
       /\ (a.holds => body.rev = row.rev)
    BY DEF Check
  <2>2. \E state : transition(row, body, who) = Reply(row, <<a, b>> \o <<c>>, Bump(row, state), FALSE)
    BY <1>7 DEF transition
  <2> HIDE DEF a, b, c
  <2>3. AreGuards(<<a, b>> \o <<c>>, row, body)  BY <2>1, ThreeChecks
  <2> QED  BY <1>7, <2>2, <2>3, ReplyLands
<1>8. ASSUME NEW closed, NEW stale, closed # "OK", stale # "OK", Decides(row, body, who, closed, stale).code = "OK"
      PROVE  Lands(row, body, Decides(row, body, who, closed, stale).item)
  <2> DEFINE a == Check(row.state.status = "pending", closed)
             b == Check(body.rev = row.rev, stale)
  <2>1. a.code # "OK" /\ b.code # "OK"
       /\ (b.holds => body.rev = row.rev)
    BY <1>8 DEF Fresh, Check
  <2>2. \E state : Decides(row, body, who, closed, stale) = Reply(row, <<a, b>>, Bump(row, state), FALSE)
    BY <1>8 DEF Decides
  <2> HIDE DEF a, b
  <2>3. AreGuards(<<a, b>>, row, body)  BY <2>1, TwoChecks
  <2> QED  BY <1>8, <2>2, <2>3, ReplyLands
<1>9. ASSUME resolve_nursery_ambiguity(row, body, who).code = "OK"
      PROVE  Lands(row, body, resolve_nursery_ambiguity(row, body, who).item)
  <2> DEFINE a == Check(row.state.status # "resolved" /\ body.rev = row.rev, "NURSERY_INTAKE_STALE")
             checks == <<a>>
  <2>0. a.code # "OK" /\ (a.holds => body.rev = row.rev)  BY DEF Check
  <2>3. DOMAIN checks = 1..1 /\ checks[1] = a  OBVIOUS
  <2>1. AreGuards(checks, row, body)
    <3> HIDE DEF a, checks
    <3> QED  BY <2>0, <2>3 DEF AreGuards, AreChecks
  <2>2. \E state : resolve_nursery_ambiguity(row, body, who) = Reply(row, checks, Bump(row, state), FALSE)
    BY <1>9 DEF resolve_nursery_ambiguity
  <2> HIDE DEF checks
  <2> QED  BY <1>9, <2>1, <2>2, ReplyLands
<1>10. ASSUME commit_concierge_duplicate(row, body, who).code = "OK"
      PROVE  Lands(row, body, commit_concierge_duplicate(row, body, who).item)
  <2> DEFINE a == Fresh(row, body)
             b == IF row.state \in ShoppingState THEN Check(row.state.status \in {"wanted", "assigned", "ordered"}, "INVALID_SHOPPING_TRANSITION") ELSE Check(row.state.status = "todo", "TASK_NOT_OPEN")
  <2>1. a.code # "OK" /\ b.code # "OK"
       /\ (a.holds => body.rev = row.rev)
    BY <1>10 DEF Fresh, Check
  <2>2. \E state : commit_concierge_duplicate(row, body, who) = Reply(row, <<a, b>>, Bump(row, state), FALSE)
    BY <1>10 DEF commit_concierge_duplicate
  <2> HIDE DEF a, b
  <2>3. AreGuards(<<a, b>>, row, body)  BY <2>1, TwoChecks
  <2> QED  BY <1>10, <2>2, <2>3, ReplyLands
<1> QED  BY <1>1, <1>2, <1>3, <1>4, <1>5, <1>6, <1>7, <1>8, <1>9, <1>10, Zenon DEF RequestAnswers

Followed(row) == [row EXCEPT !.state.followup = TRUE]

\* What a command with a revision does when it is carried out.
GuardedEffect(row, body, next) ==
    \/ Lands(row, body, next)
    \/ body.action = "request"
    \/ /\ body.action = "followup" /\ body.rev = row.rev
       /\ ~row.state.followup /\ next = Followed(row)

LEMMA FollowupLands ==
  ASSUME NEW row, NEW body, NEW who, start_request_followup(row, body, who).code = "OK"
  PROVE  /\ body.rev = row.rev /\ ~row.state.followup
         /\ start_request_followup(row, body, who).item = Followed(row)
<1> DEFINE a == Fresh(row, body)
           b == Check(row.state.status = "accepted", "REQUEST_AGREEMENT_NOT_ESTABLISHED")
           c == Check(~row.state.followup, "INTERNAL_ERROR")
           checks == <<a, b, c>>
           next == Followed(row)
<1>1. a.code # "OK" /\ b.code # "OK" /\ c.code # "OK"
      /\ (a.holds => body.rev = row.rev) /\ (c.holds => ~row.state.followup)
  BY DEF Fresh, Check
<1>2. start_request_followup(row, body, who) = Reply(row, checks, next, TRUE)
  BY DEF start_request_followup, Followed
<1> HIDE DEF a, b, c, next
<1>3. DOMAIN checks = 1..3 /\ checks[1] = a /\ checks[2] = b /\ checks[3] = c
  BY Lists
<1> HIDE DEF checks
<1>4. AreChecks(checks)
  BY <1>1, <1>3 DEF AreChecks
<1>5. PICK made : start_request_followup(row, body, who) = Reply(row, checks, next, made)
  BY <1>2
<1>6. Reply(row, checks, next, made).code = "OK"
  BY <1>5
<1>7. (\A i \in DOMAIN checks : checks[i].holds) /\ Reply(row, checks, next, made).item = next
  BY <1>4, <1>6, ReplyHolds
<1>8. a.holds /\ c.holds
  BY <1>3, <1>7
<1> QED  BY <1>1, <1>5, <1>7, <1>8 DEF next

\* A tick that changes something.
Ticks(row, body) == IF body.action = "tick" THEN row.state.ticked \union {body.arg} ELSE row.state.ticked \ {body.arg}

LEMMA TickLands ==
  ASSUME NEW row, NEW body, NEW who, set_subtask_completion(row, body, who).code = "OK", body.rev # 0
  PROVE  /\ body.rev = row.rev
         /\ Ticks(row, body) # row.state.ticked => Lands(row, body, set_subtask_completion(row, body, who).item)
<1> DEFINE performer == IF body.text = "partner" THEN Other(who) ELSE who
           first == FreshIfGiven(row, body)
           second == Check(row.state.mode = "subtasks", "INVALID_INPUT")
           third == Check(row.state.status \in {"todo", "completed"}, "TASK_TERMINAL")
           fourth == IF body.action = "tick" /\ body.arg \notin row.state.ticked
                     THEN NotClaimedByOther(row.state, performer) ELSE Check(TRUE, "OK")
           checks == << first, second, third, fourth >>
<1>1. first.code # "OK" /\ (first.holds => body.rev = row.rev)
  BY DEF FreshIfGiven, Fresh, Check
<1>2. second.code # "OK" /\ third.code # "OK" /\ (fourth.holds \/ fourth.code # "OK")
  BY DEF Check, NotClaimedByOther
<1>3. \E next : /\ set_subtask_completion(row, body, who) = Reply(row, checks, next, FALSE)
                /\ Ticks(row, body) # row.state.ticked => \E state : next = Bump(row, state)
  <2>1. set_subtask_completion(row, body, who)
          = Reply(row, checks, IF Ticks(row, body) = row.state.ticked THEN row
                               ELSE IF Ticks(row, body) = Box THEN Bump(row, Closed(row.state, "completed", Box))
                               ELSE Bump(row, [row.state EXCEPT !.status = "todo", !.ticked = Ticks(row, body)]), FALSE)
    BY DEF set_subtask_completion, Ticks
  <2> HIDE DEF checks
  <2> QED  BY <2>1
<1> HIDE DEF first, second, third, fourth
<1>4. AreGuards(checks, row, body)
  <2>1. DOMAIN checks = 1..4 /\ checks[1] = first /\ checks[2] = second /\ checks[3] = third /\ checks[4] = fourth
    OBVIOUS
  <2> HIDE DEF checks
  <2> QED  BY <1>1, <1>2, <2>1 DEF AreGuards, AreChecks
<1> HIDE DEF checks
<1>5. PICK next : /\ set_subtask_completion(row, body, who) = Reply(row, checks, next, FALSE)
                  /\ Ticks(row, body) # row.state.ticked => \E state : next = Bump(row, state)
  BY <1>3
<1>6. PICK made : set_subtask_completion(row, body, who) = Reply(row, checks, next, made)
  BY <1>5
<1>7. \A i \in DOMAIN checks : checks[i].holds
  BY <1>4, <1>6, ReplyHolds DEF AreGuards
<1>8. body.rev = row.rev
  BY <1>4, <1>7 DEF AreGuards
<1>9. Ticks(row, body) # row.state.ticked => Lands(row, body, set_subtask_completion(row, body, who).item)
  <2> SUFFICES ASSUME Ticks(row, body) # row.state.ticked
      PROVE  Lands(row, body, set_subtask_completion(row, body, who).item)
      OBVIOUS
  <2>1. PICK state : next = Bump(row, state)  BY <1>5
  <2> QED  BY <1>4, <1>6, <2>1, ReplyLands
<1> QED  BY <1>8, <1>9

\* The command behind an endpoint of the task and the shopping screens.
LEMMA ServesTask ==
  ASSUME NEW row, NEW body, NEW who
  PROVE  /\ ServeAll("complete-task", row, body, who) = complete_task(row, body, who)
         /\ ServeAll("change-task-assignment", row, body, who) = change_task_assignment(row, body, who)
         /\ ServeAll("edit-task", row, body, who) = edit_task(row, body, who)
         /\ ServeAll("set-task-waiting", row, body, who) = set_task_waiting(row, body, who)
         /\ ServeAll("correct-task-actual", row, body, who) = correct_task_actual(row, body, who)
         /\ ServeAll("order-shopping-item", row, body, who) = order_shopping_item(row, body, who)
         /\ ServeAll("purchase-shopping-item", row, body, who) = purchase_shopping_item(row, body, who)
         /\ ServeAll("arrive-shopping-item", row, body, who) = arrive_shopping_item(row, body, who)
         /\ ServeAll("reopen-shopping-item", row, body, who) = reopen_shopping_item(row, body, who)
         /\ ServeAll("cancel-shopping-item", row, body, who) = cancel_shopping_item(row, body, who)
         /\ ServeAll("assign-shopping-item", row, body, who) = assign_shopping_item(row, body, who)
         /\ ServeAll("claim-shopping-item", row, body, who) = claim_shopping_item(row, body, who)
         /\ ServeAll("set-subtask-completion", row, body, who) = set_subtask_completion(row, body, who)
BY DEF ServeAll, ServeFamily, Serve

\* A command that names a revision is carried out at that revision only, and
\* moves the row to the next: but for a request for another person, which
\* leaves the row alone, a follow-up, of which there is one, and a tick that is there.
LEMMA GuardedLands ==
  ASSUME NEW row, NEW endpoint, NEW body, Fits(scene.screen, endpoint, body), body.rev # 0, NEW who,
         endpoint = "set-subtask-completion" => Ticks(row, body) # row.state.ticked,
         ServeAll(endpoint, row, body, who).code = "OK"
  PROVE  GuardedEffect(row, body, ServeAll(endpoint, row, body, who).item)
<1>0. Guarded(endpoint, body.action)  BY DEF Fits
<1>1. CASE endpoint \in {"complete-task", "change-task-assignment", "edit-task"}
  <2>1. CASE endpoint = "complete-task"
    BY <1>0, <2>1, ServesTask, TasksLand DEF Guarded, RequestEndpoints, GuardedEffect
  <2>2. CASE endpoint = "change-task-assignment"
    BY <1>0, <2>2, ServesTask, TasksLand DEF Guarded, RequestEndpoints, GuardedEffect
  <2>3. CASE endpoint = "edit-task"
    BY <1>0, <2>3, ServesTask, TasksLand DEF Guarded, RequestEndpoints, GuardedEffect
  <2> QED  BY <1>1, <2>1, <2>2, <2>3
<1>2. CASE endpoint \in {"set-task-waiting", "correct-task-actual"}
  BY <1>2, ServesTask, TasksLand DEF GuardedEffect
<1>3. CASE endpoint \in {"order-shopping-item", "purchase-shopping-item", "arrive-shopping-item",
                         "reopen-shopping-item", "cancel-shopping-item", "assign-shopping-item"}
  <2>1. CASE endpoint = "order-shopping-item"
    BY <2>1, ServesTask, GoodsLand DEF GuardedEffect, order_shopping_item
  <2>2. CASE endpoint = "purchase-shopping-item"
    BY <2>2, ServesTask, GoodsLand DEF GuardedEffect, purchase_shopping_item
  <2>3. CASE endpoint = "arrive-shopping-item"
    BY <2>3, ServesTask, GoodsLand DEF GuardedEffect, arrive_shopping_item
  <2>4. CASE endpoint \in {"reopen-shopping-item", "cancel-shopping-item", "assign-shopping-item"}
    BY <2>4, ServesTask, GoodsLand DEF GuardedEffect
  <2> QED  BY <1>3, <2>1, <2>2, <2>3, <2>4
<1>4. CASE endpoint = "claim-shopping-item"
  BY <1>0, <1>4, ServesTask, GoodsLand DEF Guarded, RequestEndpoints, GuardedEffect
<1> USE DEF ServeAll
<1>5. CASE endpoint = "transport-schedule"
  BY <1>0, <1>5, FamilyLand DEF Guarded, RequestEndpoints, ServeFamily, GuardedEffect, respond_conflict_review
<1>6. CASE endpoint \in RequestEndpoints
  BY <1>0, <1>6, FamilyLand DEF Guarded, RequestEndpoints, ServeFamily, GuardedEffect
<1>7. CASE endpoint \in {"resolve-google-event-review", "confirm-event-plan", "confirm-nursery-review",
                         "resolve-nursery-ambiguity"}
  <2>1. CASE endpoint = "resolve-google-event-review"
    BY <2>1, FamilyLand DEF ServeFamily, GuardedEffect, resolve_google_event_review
  <2>2. CASE endpoint = "confirm-event-plan"
    BY <2>2, FamilyLand DEF ServeFamily, GuardedEffect, confirm_event_plan
  <2>3. CASE endpoint = "confirm-nursery-review"
    BY <2>3, FamilyLand DEF ServeFamily, GuardedEffect, confirm_nursery_review
  <2>4. CASE endpoint = "resolve-nursery-ambiguity"
    BY <2>4, FamilyLand DEF ServeFamily, GuardedEffect
  <2> QED  BY <1>7, <2>1, <2>2, <2>3, <2>4
<1>8. CASE endpoint = "commit-concierge-duplicate"
  BY <1>8, FamilyLand DEF GuardedEffect
<1>9. CASE endpoint = "set-subtask-completion"
  <2> HIDE DEF ServeAll
  <2> QED  BY <1>9, ServesTask, TickLands DEF GuardedEffect
<1>10. CASE endpoint = "create-assignment-change-request"
  BY <1>10 DEF Fits, GuardedEffect
<1>11. CASE endpoint = "start-request-followup"
  <2>1. body.action = "followup"  BY <1>11 DEF Fits
  <2>2. ServeAll(endpoint, row, body, who) = start_request_followup(row, body, who)
    BY <1>11 DEF ServeFamily
  <2> QED  BY <2>1, <2>2, FollowupLands DEF GuardedEffect
<1> QED  BY <1>0, <1>1, <1>2, <1>3, <1>4, <1>5, <1>6, <1>7, <1>8, <1>9, <1>10, <1>11 DEF Guarded

-----------------------------------------------------------------------------
(* Tasks and requests: what a command leaves as it was.                     *)

\* A task is moved on, left alone, or cancelled, which leaves its revision.
TaskMoved(row, next) ==
    /\ DOMAIN next.state = DOMAIN row.state
    /\ \/ next = row
       \/ next.rev = row.rev + 1
       \/ row.state.status = "todo" /\ next = [row EXCEPT !.state.status = "cancelled"]

LEMMA ReplyTaskMoved ==
  ASSUME NEW row, NEW checks, NEW next, TaskMoved(row, next), NEW made
  PROVE  TaskMoved(row, Reply(row, checks, next, made).item)
BY DEF Reply, TaskMoved

LEMMA BumpTaskMoved ==
  ASSUME NEW row
  PROVE  /\ TaskMoved(row, row)
         /\ \A state : DOMAIN state = DOMAIN row.state => TaskMoved(row, Bump(row, state))
BY DEF TaskMoved, Bump

LEMMA FieldsKept ==
  ASSUME NEW t, NEW status, NEW ticked, NEW to
  PROVE  /\ DOMAIN Closed(t, status, ticked) = DOMAIN t
         /\ DOMAIN [t EXCEPT !.status = status] = DOMAIN t
         /\ DOMAIN [t EXCEPT !.status = status, !.ticked = ticked] = DOMAIN t
         /\ DOMAIN [t EXCEPT !.claim = to] = DOMAIN t
         /\ DOMAIN [t EXCEPT !.assignment = to, !.claim = Nobody] = DOMAIN t
BY DEF Closed

LEMMA TaskStepsMove ==
  ASSUME NEW row, NEW endpoint \in TaskEndpoints, NEW body, Fits(scene.screen, endpoint, body), NEW who
  PROVE  TaskMoved(row, ServeAll(endpoint, row, body, who).item)
<1> USE ReplyTaskMoved, BumpTaskMoved, FieldsKept
<1>0. \A status, ticked, checks, made : TaskMoved(row, Reply(row, checks, Bump(row, Closed(row.state, status, ticked)), made).item)
  <2> SUFFICES ASSUME NEW status, NEW ticked, NEW checks, NEW made
      PROVE  TaskMoved(row, Reply(row, checks, Bump(row, Closed(row.state, status, ticked)), made).item)
      OBVIOUS
  <2> DEFINE state == Closed(row.state, status, ticked)
  <2>1. DOMAIN state = DOMAIN row.state  OBVIOUS
  <2> HIDE DEF state
  <2>2. TaskMoved(row, Reply(row, checks, Bump(row, state), made).item)  BY <2>1
  <2> QED  BY <2>2 DEF state
<1>1. CASE endpoint = "complete-task"
  <2>1. body.action \in {"complete", "codmon_submitted", "reopen", "could_not_do", "could_not_do_undo"}
    BY <1>1 DEF Fits, Guarded, Unguarded, RequestEndpoints
  <2>2. TaskMoved(row, Complete(row, body, who).item)  BY <1>0, Zenon DEF Complete
  <2>3. TaskMoved(row, SubmitCodmon(row, body, who).item)  BY <1>0, Zenon DEF SubmitCodmon
  <2>4. TaskMoved(row, Reopen(row, body, who).item)  BY DEF Reopen
  <2>5. TaskMoved(row, CouldNotDo(row, body, who).item)
    <3>1. CASE body.action = "could_not_do"  BY <1>0, <3>1, Zenon DEF CouldNotDo
    <3>2. CASE body.action # "could_not_do"  BY <3>2 DEF CouldNotDo
    <3> QED  BY <3>1, <3>2
  <2> QED  BY <1>1, <2>1, <2>2, <2>3, <2>4, <2>5 DEF ServeAll, ServeFamily, Serve, complete_task
<1>2. CASE endpoint = "cancel-task"
  <2>1. row.state.status = "todo" => TaskMoved(row, [row EXCEPT !.state.status = "cancelled"])
    <3> SUFFICES ASSUME row.state.status = "todo"
        PROVE  DOMAIN [row EXCEPT !.state.status = "cancelled"].state = DOMAIN row.state
        BY DEF TaskMoved
    <3> QED  OBVIOUS
  <2>2. TaskMoved(row, cancel_task(row, body, who).item)
    <3>1. CASE row.state.status = "todo"  BY <2>1, <3>1 DEF cancel_task
    <3>2. CASE row.state.status # "todo"
      <4> DEFINE a == Check(row.state.status = "todo", "TASK_TERMINAL")
                 next == [row EXCEPT !.state.status = "cancelled"]
                 checks == <<a>>
      <4>1. ~a.holds  BY <3>2 DEF Check
      <4>2. DOMAIN checks = 1..1 /\ checks[1] = a  OBVIOUS
      <4>3. cancel_task(row, body, who) = Reply(row, checks, next, FALSE)  BY DEF cancel_task
      <4> HIDE DEF a, next, checks
      <4>4. cancel_task(row, body, who).item = row
        <5>1. 1 \in {i \in DOMAIN checks : ~checks[i].holds}  BY <4>1, <4>2
        <5> QED  BY <4>3, <5>1 DEF Reply
      <4> QED  BY <4>4
    <3> QED  BY <3>1, <3>2
  <2> QED  BY <1>2, <2>2 DEF ServeAll, ServeFamily, Serve
<1>3. CASE endpoint = "set-subtask-completion"
  <2>1. TaskMoved(row, set_subtask_completion(row, body, who).item)
    <3> DEFINE ticked == IF body.action = "tick" THEN row.state.ticked \union {body.arg}
                                                 ELSE row.state.ticked \ {body.arg}
               other == [row.state EXCEPT !.status = "todo", !.ticked = ticked]
    <3>1. \E checks : set_subtask_completion(row, body, who)
             = Reply(row, checks, IF ticked = row.state.ticked THEN row
                                  ELSE IF ticked = Box THEN Bump(row, Closed(row.state, "completed", Box))
                                  ELSE Bump(row, other), FALSE)
      BY DEF set_subtask_completion
    <3>2. DOMAIN other = DOMAIN row.state  OBVIOUS
    <3> HIDE DEF ticked, other
    <3>3. TaskMoved(row, Bump(row, other))  BY <3>2
    <3>4. TaskMoved(row, Bump(row, Closed(row.state, "completed", Box)))
      <4> DEFINE state == Closed(row.state, "completed", Box)
      <4>1. DOMAIN state = DOMAIN row.state  OBVIOUS
      <4> HIDE DEF state
      <4>2. TaskMoved(row, Bump(row, state))  BY <4>1
      <4> QED  BY <4>2 DEF state
    <3> DEFINE next == IF ticked = row.state.ticked THEN row
                       ELSE IF ticked = Box THEN Bump(row, Closed(row.state, "completed", Box))
                       ELSE Bump(row, other)
    <3>5. TaskMoved(row, next)  BY <3>3, <3>4
    <3> HIDE DEF next
    <3>6. PICK checks : set_subtask_completion(row, body, who) = Reply(row, checks, next, FALSE)
      BY <3>1 DEF next
    <3>7. TaskMoved(row, Reply(row, checks, next, FALSE).item)
      BY <3>5, ReplyTaskMoved, Zenon
    <3> QED  BY <3>6, <3>7, Zenon
  <2> QED  BY <1>3, <2>1 DEF ServeAll, ServeFamily, Serve
<1>4. CASE endpoint = "change-task-assignment"
  <2>1. body.action \in {"claim", "release", "takeover", "agreed"}
    BY <1>4 DEF Fits, Guarded, Unguarded, RequestEndpoints
  <2>2. TaskMoved(row, change_task_assignment(row, body, who).item)
    BY <2>1 DEF change_task_assignment
  <2> QED  BY <1>4, <2>2 DEF ServeAll, ServeFamily, Serve
<1> QED  BY <1>1, <1>2, <1>3, <1>4 DEF TaskEndpoints

\* What is recorded of a task moves it on and closes it.
LEMMA RecordCloses ==
  ASSUME NEW row, "status" \in DOMAIN row.state, NEW body, body.action \in {"complete", "could_not_do"}, NEW who,
         ServeAll("complete-task", row, body, who).code = "OK"
  PROVE  LET next == ServeAll("complete-task", row, body, who).item
         IN  next.rev = row.rev + 1 /\ next.state.status # "todo"
<1> DEFINE answer == ServeAll("complete-task", row, body, who)
<1>1. answer = complete_task(row, body, who)
  BY DEF ServeAll, ServeFamily, Serve
<1>2. \A status, ticked : Closed(row.state, status, ticked).status = status
  BY DEF Closed
<1>3. PICK state, a, b : state.status # "todo" /\ answer = Reply(row, <<a, b>>, Bump(row, state), FALSE)
                         /\ (a.holds \/ a.code # "OK") /\ (b.holds \/ b.code # "OK")
  <2>1. CASE body.action = "complete"
    <3> DEFINE a == Check(row.state.status = "todo", "TASK_TERMINAL")
               b == NotClaimedByOther(row.state, Performer(body, who))
               state == Closed(row.state, "completed", IF row.state.mode = "subtasks" THEN Box ELSE {})
    <3>1. a.code # "OK" /\ b.code # "OK"  BY DEF Check, NotClaimedByOther
    <3>2. state.status # "todo"  BY <1>2
    <3>3. answer = Reply(row, <<a, b>>, Bump(row, state), FALSE)
      BY <1>1, <2>1 DEF complete_task, Complete
    <3> HIDE DEF a, b, state, answer
    <3> QED  BY <3>1, <3>2, <3>3
  <2>2. CASE body.action = "could_not_do"
    <3> DEFINE a == Fresh(row, body)
               b == Check(row.state.status = "todo", "TASK_TERMINAL")
               state == Closed(row.state, "could_not_do", row.state.ticked)
    <3>1. a.code # "OK" /\ b.code # "OK"  BY DEF Check, Fresh
    <3>2. state.status # "todo"  BY <1>2
    <3>3. answer = Reply(row, <<a, b>>, Bump(row, state), FALSE)
      BY <1>1, <2>2 DEF complete_task, CouldNotDo
    <3> HIDE DEF a, b, state, answer
    <3> QED  BY <3>1, <3>2, <3>3
  <2> QED  BY <2>1, <2>2
<1> HIDE DEF answer
<1> DEFINE checks == <<a, b>>
<1>4. AreChecks(checks)
  BY Lists, <1>3 DEF AreChecks
<1>5. answer = Reply(row, checks, Bump(row, state), FALSE)
  BY <1>3
<1> HIDE DEF checks
<1>6. answer.code = "OK"  BY DEF answer
<1>7. answer.item = Bump(row, state)
  <2>1. PICK made : answer = Reply(row, checks, Bump(row, state), made)  BY <1>5
  <2> QED  BY <1>4, <1>6, <2>1, ReplyHolds
<1>8. Bump(row, state).rev = row.rev + 1 /\ Bump(row, state).state = state  BY DEF Bump
<1> QED  BY <1>3, <1>7, <1>8 DEF answer

\* Answers to a request and its follow-up.
RequestMoved(row, next) ==
    /\ "followup" \in DOMAIN next.state
    /\ row.state.followup => next.state.followup

LEMMA RequestStepsMove ==
  ASSUME NEW row, "state" \in DOMAIN row, "followup" \in DOMAIN row.state,
         NEW endpoint \in RequestEndpoints \union {"start-request-followup"}, NEW body,
         Fits(scene.screen, endpoint, body), NEW who
  PROVE  RequestMoved(row, ServeAll(endpoint, row, body, who).item)
<1>1. \A checks, next, made : RequestMoved(row, next) => RequestMoved(row, Reply(row, checks, next, made).item)
  BY DEF Reply, RequestMoved
<1>2. \A state : DOMAIN state = DOMAIN row.state /\ state.followup = row.state.followup
         => RequestMoved(row, Bump(row, state))
  BY DEF RequestMoved, Bump
<1>3. \A status, confirmed :
         /\ DOMAIN [row.state EXCEPT !.status = status] = DOMAIN row.state
         /\ [row.state EXCEPT !.status = status].followup = row.state.followup
         /\ DOMAIN [row.state EXCEPT !.status = status, !.confirmed = confirmed] = DOMAIN row.state
         /\ [row.state EXCEPT !.status = status, !.confirmed = confirmed].followup = row.state.followup
         /\ DOMAIN [row.state EXCEPT !.confirmed = confirmed, !.status = status] = DOMAIN row.state
         /\ [row.state EXCEPT !.confirmed = confirmed, !.status = status].followup = row.state.followup
  OBVIOUS
<1>4. CASE endpoint \in RequestEndpoints
  <2>1. body.action \in RequestAnswers
    BY <1>4 DEF Fits, Guarded, Unguarded, RequestEndpoints
  <2>2. RequestMoved(row, transition(row, body, who).item)
    BY <1>1, <1>2, <1>3, <2>1 DEF transition, RequestAnswers
  <2> QED  BY <1>4, <2>2 DEF ServeAll, ServeFamily, RequestEndpoints
<1>5. CASE endpoint = "start-request-followup"
  <2>1. RequestMoved(row, [row EXCEPT !.state.followup = TRUE])
    BY DEF RequestMoved
  <2>2. ServeAll(endpoint, row, body, who) = start_request_followup(row, body, who)
    BY <1>5 DEF ServeAll, ServeFamily
  <2>3. RequestMoved(row, start_request_followup(row, body, who).item)
    <3> DEFINE next == [row EXCEPT !.state.followup = TRUE]
    <3>1. \E checks, made : start_request_followup(row, body, who) = Reply(row, checks, next, made)
      BY DEF start_request_followup
    <3> HIDE DEF next
    <3> QED  BY <1>1, <2>1, <3>1 DEF next
  <2> QED  BY <2>2, <2>3
<1> QED  BY <1>4, <1>5

\* A note is ended once, and only its end moves the revision.
NoteMoved(row, next) ==
    /\ {"status", "author"} \subseteq DOMAIN next.state
    /\ \/ next.rev = row.rev /\ next.state.status = row.state.status
       \/ row.state.status = "active" /\ next.rev = row.rev + 1 /\ next.state.status = "expired"

LEMMA NoteStepsMove ==
  ASSUME NEW row, IsRow(row), {"status", "author"} \subseteq DOMAIN row.state, NEW body, NEW who
  PROVE  NoteMoved(row, ServeAll("mark-handover-read", row, body, who).item)
<1>1. \A checks, next, made : NoteMoved(row, next) => NoteMoved(row, Reply(row, checks, next, made).item)
  BY DEF Reply, NoteMoved
<1>2. NoteMoved(row, row)
  BY DEF NoteMoved
<1>3. row.state.status = "active" => NoteMoved(row, Bump(row, [row.state EXCEPT !.status = "expired"]))
  BY DEF NoteMoved, Bump
<1>4. NoteMoved(row, [row EXCEPT !.state.read = @ \union {who}])
  BY DEF NoteMoved, IsRow
<1>5. NoteMoved(row, mark_handover_read(row, body, who).item)
  BY <1>1, <1>2, <1>3, <1>4 DEF mark_handover_read
<1>6. ServeAll("mark-handover-read", row, body, who) = mark_handover_read(row, body, who)
  BY DEF ServeAll, ServeFamily
<1> QED  BY <1>5, <1>6

-----------------------------------------------------------------------------
(* What is kept, under way and offered.                                     *)

IsKept(a) == a = [op |-> a.op, endpoint |-> a.endpoint, body |-> a.body, expired |-> a.expired]
IsForm(f) == f = [op |-> f.op, saved |-> f.saved, locked |-> f.locked]

AttemptsKeep ==
    \A k \in DOMAIN attempts :
       /\ IsKept(attempts[k])
       /\ Fits(scene.screen, attempts[k].endpoint, attempts[k].body)
       /\ Determined(k, attempts[k].endpoint, attempts[k].body)
       /\ k[1] \notin FormHeads
       /\ k[1] = "candidate" => scene.screen = "concierge" /\ k \in DOMAIN forms /\ forms[k].op = attempts[k].op

FormsKeep == \A k \in DOMAIN forms : IsForm(forms[k])

CallsKeep ==
    \A call \in calls :
       /\ Fits(scene.screen, call.endpoint, call.body)
       /\ Determined(call.key, call.endpoint, call.body)
       /\ Keyed(scene.screen, call.key, call.via)
       /\ Undoable(scene.screen, call)
       /\ call.via \in WithItsId => call.key \in DOMAIN forms /\ forms[call.key].op = call.op

RequestsFit ==
    /\ \A r \in wire : Fits(scene.screen, r.endpoint, r.body)
    /\ \A op \in DOMAIN receipts : Fits(scene.screen, receipts[op].endpoint, receipts[op].body)

OffersKeep ==
    \A o \in offer :
       \/ scene.screen \in ShoppingPanels /\ o.undo \notin {"reopen", "could_not_do_undo"}
       \/ scene.screen = "row" /\ o.undo \in {"reopen", "could_not_do_undo"}

KeepInv == scene \in Scenes /\ AttemptsKeep /\ FormsKeep /\ CallsKeep /\ RequestsFit /\ OffersKeep

\* Presses whose result the user does not know, and those repeated.
IsWish(w) ==
    w = [op |-> w.op, key |-> w.key, via |-> w.via, body |-> w.body, forgot |-> w.forgot]

WishesOK == \A w \in doubt : IsWish(w) /\ Keyed(scene.screen, w.key, w.via)

WishesKept == \A w \in doubt : w.forgot = None => Remembered(w, attempts, forms)

Recovered == \A a \in again : a.first # a.second /\ a.forgot # None

DoubtInv == WishesOK /\ WishesKept /\ Recovered

-----------------------------------------------------------------------------
(* The row.                                                                 *)

RowOK(row) ==
    /\ IsRow(row)
    /\ scene.screen \in {"row", "checklist"} => {"status", "ticked"} \subseteq DOMAIN row.state
    /\ scene.screen = "request" => "followup" \in DOMAIN row.state
    /\ scene.screen = "note" => {"status", "author"} \subseteq DOMAIN row.state

\* A list as the user may see it: an old one, or with the present ticks.
SeenOK(row) ==
    /\ row.rev \in Nat /\ row.rev <= item.rev
    /\ row.rev = item.rev => row.state.ticked = item.state.ticked

LoadOK(l) == l = [n |-> l.n, read |-> l.read, row |-> l.row] /\ SeenOK(l.row)

\* A tick that is not there, or one of an old list.
Apt(body) ==
    /\ body.rev \in Nat /\ body.rev <= item.rev
    /\ body.rev = item.rev => (body.action = "tick" <=> body.arg \notin item.state.ticked)

TickInv ==
    scene.screen = "checklist" =>
       /\ SeenOK(shown)
       /\ \A l \in loads : LoadOK(l)
       /\ \A k \in DOMAIN attempts : Apt(attempts[k].body)
       /\ \A call \in calls : Apt(call.body)
       /\ \A r \in wire : Apt(r.body)

\* What names a revision is carried out once.
SpentInv ==
    \A op \in DOMAIN receipts :
       LET body == receipts[op].body
       IN  body.rev # 0 /\ body.action # "request" =>
              IF body.action = "followup" THEN item.state.followup
                                          ELSE body.rev \in Nat /\ body.rev < item.rev

OnceInv ==
    \A first, second \in DOMAIN receipts :
       first # second /\ receipts[first].body = receipts[second].body => Unprotected(receipts[first])

-----------------------------------------------------------------------------
(* Records of a task, and their undos.                                      *)

IsRecord(receipt) == receipt.endpoint = "complete-task" /\ receipt.body.action \in {"complete", "could_not_do"}

RecordInv ==
    scene.screen = "row" =>
       \A op \in DOMAIN receipts : IsRecord(receipts[op]) =>
          /\ receipts[op].reply.rev \in Nat \ {0}
          /\ receipts[op].reply.rev <= item.rev
          /\ receipts[op].reply.rev = item.rev => author = op /\ item.state.status # "todo"

UndoOf(op, rev) == op \in DOMAIN receipts /\ IsRecord(receipts[op]) /\ receipts[op].reply.rev = rev

UndoKey(key) == key[1] \in {"reopen", "could-not-do:undo"}

UndoInv ==
    scene.screen \notin ShoppingPanels =>
       /\ \A o \in offer : UndoOf(o.op, o.rev)
       /\ \A call \in calls : call.undoes # Nobodys => scene.screen = "row" /\ UndoKey(call.key) /\ UndoOf(call.undoes, call.body.rev)
       /\ \A r \in wire : r.undoes # Nobodys => scene.screen = "row" /\ UndoOf(r.undoes, r.body.rev)

KeysOf(g) ==
    /\ \A k \in DOMAIN attempts : attempts[k].op \in 1..presses /\ g[attempts[k].op] = k
    /\ \A k \in DOMAIN forms : forms[k].op \in 1..presses /\ g[forms[k].op] = k
    /\ \A call \in calls : call.op \in 1..presses /\ g[call.op] = call.key
    /\ \A r \in wire : /\ r.op \in 1..presses
                       /\ Determined(g[r.op], r.endpoint, r.body)
                       /\ scene.screen \notin ShoppingPanels /\ r.undoes # Nobodys => UndoKey(g[r.op])
    /\ \A op \in DOMAIN receipts : /\ op \in 1..presses
                                  /\ Determined(g[op], receipts[op].endpoint, receipts[op].body)

KeyInv == \E g : KeysOf(g)

-----------------------------------------------------------------------------
(* What a success is told of.                                               *)

\* Keys of attempts that name the revision the button was shown with.
StampedSecond ==
    {"codmon-submitted", "reopen", "could-not-do:set", "could-not-do:undo", "cancel", "completion-evidence",
     "task-form:edit", "task-form:cancel", "schedule:check", "batch-purchase", "event-plan",
     "order-shopping-item", "purchase-shopping-item", "arrive-shopping-item", "reopen-shopping-item",
     "cancel-shopping-item", "assign-shopping-item", "claim-shopping-item"}
StampedThird == {"complete", "assignment", "waiting", "claim", "request", "resolve-assignment", "nursery"}

Stamped(key) == key[1] \in StampedSecond \union StampedThird \union {"assignment-decision", "subtask"}
Stamp(key) == IF key[1] \in StampedThird THEN key[3]
              ELSE IF key[1] = "assignment-decision" THEN key[4]
              ELSE IF key[1] = "subtask" THEN key[5] ELSE key[2]

\* An operation under such a key was carried out at that revision or a later one.
Timely(key, op) ==
    Stamped(key) => /\ Stamp(key) \in Nat /\ Stamp(key) <= item.rev
                    /\ Landed(op) => Stamp(key) <= receipts[op].from

DatedInv ==
    scene.screen \notin WithoutRevision =>
       /\ \A k \in DOMAIN attempts : Timely(k, attempts[k].op)
       /\ \A call \in calls : call.via \notin Unkept => Timely(call.key, call.op)

\* The row as the user may see it is an old one, and a note seen at the present
\* revision is ended if it is.
Glimpse(row) ==
    /\ row.rev \in Nat /\ row.rev <= item.rev
    /\ scene.screen = "note" /\ row.rev = item.rev => row.state.status = item.state.status

SightInv ==
    Glimpse(shown) /\ \A l \in loads : l = [n |-> l.n, read |-> l.read, row |-> l.row] /\ Glimpse(l.row)

ReceiptInv ==
    \A op \in DOMAIN receipts :
       LET r == receipts[op]
       IN  /\ r.from \in Nat /\ r.reply.rev \in Nat /\ r.from <= r.reply.rev /\ r.reply.rev <= item.rev
           /\ Still(r.endpoint, r.body.action) => r.from = r.reply.rev
           /\ scene.screen = "note" /\ r.from # r.reply.rev =>
                 item.state.status = "expired" /\ r.reply.rev = item.rev

OfferInv == \A o \in offer : o.op \in 1..presses /\ o.rev \in Nat /\ o.rev <= item.rev

FreshInv == SightInv /\ ReceiptInv /\ OfferInv /\ DatedInv

-----------------------------------------------------------------------------
(* What is kept and what is in doubt, step by step.                         *)

LEMMA KeepInit == Init => KeepInv /\ DoubtInv
BY DEF Init, KeepInv, DoubtInv, AttemptsKeep, FormsKeep, CallsKeep, RequestsFit, OffersKeep, WishesOK,
       WishesKept, Recovered

LEMMA ResumedIs ==
  ASSUME NEW c0, IsCommand(c0), NEW c \in {c0, Resumed(c0)}
  PROVE  /\ IsCommand(c) /\ c.key = c0.key /\ c.endpoint = c0.endpoint /\ c.via = c0.via /\ c.undo = c0.undo
         /\ c = c0 \/ (/\ c.via = "resumes" /\ Kept(c) /\ ~attempts[c.key].expired
                       /\ c.body = attempts[c.key].body)
<1>1. CASE c = c0  BY <1>1
<1>2. CASE c # c0
  <2>1. /\ c = [c0 EXCEPT !.body = attempts[c0.key].body]
        /\ c0.via = "resumes" /\ Kept(c0) /\ ~attempts[c0.key].expired
    BY <1>2 DEF Resumed
  <2>2. c = [key |-> c0.key, endpoint |-> c0.endpoint, body |-> attempts[c0.key].body,
             via |-> c0.via, undo |-> c0.undo]
    BY <2>1 DEF IsCommand
  <2> QED  BY <2>1, <2>2 DEF IsCommand, Kept
<1> QED  BY <1>1, <1>2

\* The attempt a press prepares.
Prepared(c, a) ==
    /\ IsKept(a) /\ a.endpoint = c.endpoint /\ a.body = c.body
    /\ Fits(scene.screen, a.endpoint, a.body)
    /\ Determined(c.key, a.endpoint, a.body)
    /\ c.via \in {"attempt", "resumes"} /\ c.key \in DOMAIN attempts /\ ~attempts[c.key].expired
         => a = attempts[c.key]
    /\ c.via \in WithItsId /\ c.key \in DOMAIN forms => a.op = forms[c.key].op
    /\ \/ a.op = presses + 1
       \/ c.key \in DOMAIN attempts /\ a.op = attempts[c.key].op
       \/ c.via \in WithItsId /\ c.key \in DOMAIN forms /\ a.op = forms[c.key].op

LEMMA Preparing ==
  ASSUME KeepInv, NEW c0, Sound(c0), NEW c \in {c0, Resumed(c0)}, ~Conflicts(c)
  PROVE  Prepared(c, prepareCommandAttempt(c)) /\ Keyed(scene.screen, c.key, c.via) /\ Undoable(scene.screen, c) /\ IsCommand(c)
<1> DEFINE a == prepareCommandAttempt(c)
<1>1. /\ IsCommand(c) /\ c.key = c0.key /\ c.endpoint = c0.endpoint /\ c.via = c0.via /\ c.undo = c0.undo
      /\ c = c0 \/ (/\ c.via = "resumes" /\ Kept(c) /\ ~attempts[c.key].expired
                    /\ c.body = attempts[c.key].body)
  BY ResumedIs DEF Sound
<1>2. Keyed(scene.screen, c.key, c.via)
  BY <1>1 DEF Sound
<1>3. a.endpoint = c.endpoint /\ a.body = c.body
  BY DEF Conflicts
<1>4. Undoable(scene.screen, c)
  BY <1>1 DEF Sound, Undoable
<1>5. c.key \in DOMAIN attempts /\ c.via \notin Unkept <=> Kept(c)
  BY DEF Kept
<1>6. CASE Kept(c) /\ ~attempts[c.key].expired
  <2>1. a = attempts[c.key]  BY <1>6 DEF prepareCommandAttempt
  <2>2. c.via = "own" => c.key \in DOMAIN forms /\ forms[c.key].op = attempts[c.key].op
    BY <1>2, <1>6 DEF Keyed, KeepInv, AttemptsKeep, Kept
  <2>3. Prepared(c, a)
    BY <1>3, <1>6, <2>1, <2>2 DEF Prepared, KeepInv, AttemptsKeep, Kept, WithItsId, Unkept
  <2> QED  BY <1>1, <1>2, <1>4, <2>3
<1>7. CASE ~Kept(c) \/ attempts[c.key].expired
  <2>1. c = c0  BY <1>1, <1>7
  <2>2. PICK op : /\ a = NewAttempt(op, c)
                  /\ \/ op = IdFor(c) /\ (~Kept(c) \/ c.via = "resumes")
                     \/ Kept(c) /\ op = attempts[c.key].op
    BY <1>7 DEF prepareCommandAttempt
  <2>3. a = [op |-> op, endpoint |-> c.endpoint, body |-> c.body, expired |-> FALSE]
    BY <2>2 DEF NewAttempt
  <2>4. a.op = op /\ IsKept(a)  BY <2>3 DEF IsKept
  <2>5. Fits(scene.screen, a.endpoint, a.body) /\ Determined(c.key, a.endpoint, a.body)
    BY <1>3, <2>1 DEF Sound
  <2>6. ~(c.via \in {"attempt", "resumes"} /\ c.key \in DOMAIN attempts /\ ~attempts[c.key].expired)
    BY <1>7 DEF Kept, Unkept
  <2>7. c.via \in WithItsId /\ c.key \in DOMAIN forms => op = forms[c.key].op
    <3> SUFFICES ASSUME c.via \in WithItsId, c.key \in DOMAIN forms PROVE op = forms[c.key].op  OBVIOUS
    <3>1. CASE op = IdFor(c)  BY <3>1 DEF IdFor
    <3>2. CASE Kept(c) /\ op = attempts[c.key].op
      <4>1. c.via = "own"  BY <3>2 DEF Kept, WithItsId, Unkept
      <4> QED  BY <1>2, <3>2, <4>1 DEF Keyed, KeepInv, AttemptsKeep, Kept
    <3> QED  BY <2>2, <3>1, <3>2
  <2>8. \/ op = presses + 1
        \/ c.key \in DOMAIN attempts /\ op = attempts[c.key].op
        \/ c.via \in WithItsId /\ c.key \in DOMAIN forms /\ op = forms[c.key].op
    BY <2>2 DEF IdFor, Kept
  <2> HIDE DEF a
  <2>9. Prepared(c, a)
    BY <1>3, <2>4, <2>5, <2>6, <2>7, <2>8 DEF Prepared
  <2> QED  BY <1>1, <1>2, <1>4, <2>9 DEF a
<1> QED  BY <1>6, <1>7

\* A press, for what is kept and for what is in doubt.
LEMMA KeepBegin ==
  ASSUME KeepInv, DoubtInv, NEW c0, Sound(c0), NEW c \in {c0, Resumed(c0)}, NEW undoes, Begin(c, undoes),
         UNCHANGED <<scene, wire, receipts, offer, doubt>>
  PROVE  KeepInv' /\ DoubtInv'
<1> DEFINE a == prepareCommandAttempt(c)
           new == [n |-> presses + 1, op |-> a.op, key |-> c.key, endpoint |-> a.endpoint,
                   body |-> a.body, asked |-> c.body, via |-> c.via, undo |-> c.undo, undoes |-> undoes,
                   sent |-> FALSE, left |-> FALSE, reply |-> WaitingFor]
           form == [op |-> a.op, saved |-> FALSE, locked |-> IF c.via = "own" THEN {c} ELSE {}]
<1>1. /\ ~Conflicts(c)
      /\ attempts' = Keep(c.key, c.via, a)
      /\ forms' = IF c.via \notin WithItsId THEN forms ELSE With(forms, c.key, form)
      /\ calls' = calls \union {new}
      /\ again' = again \union Repeats(a.op, c)
  BY Zenon DEF Begin
<1>2. Prepared(c, a) /\ Keyed(scene.screen, c.key, c.via) /\ Undoable(scene.screen, c) /\ IsCommand(c)
  BY <1>1, Preparing
<1>3. form.op = a.op /\ IsForm(form)
  BY DEF IsForm
<1>4. /\ new.op = a.op /\ new.key = c.key /\ new.endpoint = c.endpoint /\ new.body = c.body /\ new.via = c.via
      /\ new.undo = c.undo
  BY <1>2 DEF Prepared
<1> HIDE DEF a, new, form
<1>5. scene' = scene /\ doubt' = doubt /\ offer' = offer /\ wire' = wire /\ receipts' = receipts
  OBVIOUS
<1>6. \A k \in DOMAIN forms : k \in DOMAIN forms' /\ forms'[k].op = forms[k].op /\ (k # c.key => forms'[k] = forms[k])
  BY <1>1, <1>2, <1>3 DEF With, Prepared
<1>7. c.via \in WithItsId => c.key \in DOMAIN forms' /\ forms'[c.key].op = a.op
  BY <1>1, <1>3 DEF With
<1>8. c.via \notin Unkept => c.via \in {"attempt", "resumes"} \/ (c.via = "own" /\ c.key[1] = "candidate")
  BY <1>2 DEF Keyed, Unkept
<1>9. \A k \in DOMAIN attempts' :
         \/ k \in DOMAIN attempts /\ attempts'[k] = attempts[k]
         \/ c.via \notin Unkept /\ k = c.key /\ attempts'[k] = a
  BY <1>1 DEF Keep, With
<1>10. \A k \in DOMAIN attempts : k \in DOMAIN attempts' /\ (c.via \in Unkept \/ k # c.key => attempts'[k] = attempts[k])
  BY <1>1 DEF Keep, With
<1>11. c.via \notin Unkept => attempts'[c.key] = a
  BY <1>1 DEF Keep, With
<1>12. AttemptsKeep'
  <2> SUFFICES ASSUME NEW k \in DOMAIN attempts'
      PROVE  /\ IsKept(attempts'[k])
             /\ Fits(scene.screen, attempts'[k].endpoint, attempts'[k].body)
             /\ Determined(k, attempts'[k].endpoint, attempts'[k].body)
             /\ k[1] \notin FormHeads
             /\ k[1] = "candidate" => scene.screen = "concierge" /\ k \in DOMAIN forms' /\ forms'[k].op = attempts'[k].op
      BY <1>5 DEF AttemptsKeep
  <2>1. CASE k \in DOMAIN attempts /\ attempts'[k] = attempts[k]
    BY <1>6, <2>1 DEF KeepInv, AttemptsKeep
  <2>2. CASE c.via \notin Unkept /\ k = c.key /\ attempts'[k] = a
    BY <1>2, <1>7, <1>8, <2>2 DEF Prepared, Keyed, FormHeads, WithItsId
  <2> QED  BY <1>9, <2>1, <2>2
<1>13. FormsKeep'
  BY <1>1, <1>3 DEF KeepInv, FormsKeep, With
<1>14. CallsKeep'
  <2> SUFFICES ASSUME NEW call \in calls'
      PROVE  /\ Fits(scene.screen, call.endpoint, call.body)
             /\ Determined(call.key, call.endpoint, call.body)
             /\ Keyed(scene.screen, call.key, call.via)
             /\ Undoable(scene.screen, call)
             /\ call.via \in WithItsId => call.key \in DOMAIN forms' /\ forms'[call.key].op = call.op
      BY <1>5 DEF CallsKeep
  <2>1. CASE call \in calls  BY <1>6, <2>1 DEF KeepInv, CallsKeep
  <2>2. CASE call = new
    <3>1. Undoable(scene.screen, call)  BY <1>2, <1>4, <2>2 DEF Undoable
    <3> QED  BY <1>2, <1>4, <1>7, <2>2, <3>1 DEF Prepared
  <2> QED  BY <1>1, <2>1, <2>2
<1>15. (scene \in Scenes /\ RequestsFit /\ OffersKeep)'
  BY <1>5 DEF KeepInv, RequestsFit, OffersKeep
<1>16. WishesOK'
  BY <1>5 DEF DoubtInv, WishesOK
<1>17. c.via \in {"attempt", "resumes"} /\ c.key \in DOMAIN attempts /\ ~attempts[c.key].expired
         => a = attempts[c.key]
  BY <1>2 DEF Prepared
<1>18. WishesKept'
  <2> SUFFICES ASSUME NEW w \in doubt, w.forgot = None PROVE Remembered(w, attempts', forms')
      BY <1>5 DEF WishesKept
  <2>1. Remembered(w, attempts, forms) /\ Keyed(scene.screen, w.key, w.via)
    BY DEF DoubtInv, WishesOK, WishesKept
  <2>2. CASE w.via \in WithItsId  BY <1>6, <2>1, <2>2 DEF Remembered
  <2>3. CASE w.via \notin WithItsId
    <3>1. w.via \in {"attempt", "resumes"} /\ w.key \in DOMAIN attempts /\ ~attempts[w.key].expired
      BY <2>1, <2>3 DEF Remembered, Keyed, WithItsId
    <3>2. attempts'[w.key] = attempts[w.key]
      <4>1. CASE c.via \in Unkept \/ w.key # c.key  BY <1>10, <3>1, <4>1
      <4>2. CASE c.via \notin Unkept /\ w.key = c.key
        <5>1. c.via \in {"attempt", "resumes"}  BY <1>8, <2>1, <3>1, <4>2 DEF Keyed
        <5> QED  BY <1>11, <1>17, <3>1, <4>2, <5>1
      <4> QED  BY <4>1, <4>2
    <3> QED  BY <1>10, <2>1, <2>3, <3>1, <3>2 DEF Remembered
  <2> QED  BY <2>2, <2>3
<1>19. Recovered'
  <2> SUFFICES ASSUME NEW x \in again' PROVE x.first # x.second /\ x.forgot # None
      BY DEF Recovered
  <2>1. CASE x \in again  BY <2>1 DEF DoubtInv, Recovered
  <2>2. CASE x \notin again
    <3>1. PICK w \in doubt : /\ SameWish(w, c) /\ w.op # a.op
                             /\ x = [first |-> w.op, second |-> a.op, forgot |-> w.forgot]
      BY <1>1, <2>2 DEF Repeats
    <3>2. w.forgot # None
      <4> SUFFICES ASSUME w.forgot = None PROVE FALSE  OBVIOUS
      <4>1. Remembered(w, attempts, forms) /\ w.via = c.via /\ w.key = c.key
        BY <3>1 DEF DoubtInv, WishesKept, SameWish
      <4>2. CASE c.via \in WithItsId
        <5>1. w.key \in DOMAIN forms /\ forms[w.key].op = w.op  BY <4>1, <4>2 DEF Remembered
        <5> QED  BY <1>2, <3>1, <4>1, <4>2, <5>1 DEF Prepared
      <4>3. CASE c.via \notin WithItsId
        <5>1. /\ c.via \in {"attempt", "resumes"} /\ c.key \in DOMAIN attempts
              /\ ~attempts[c.key].expired /\ attempts[c.key].op = w.op
          BY <1>2, <4>1, <4>3 DEF Remembered, Keyed, WithItsId
        <5> QED  BY <1>17, <3>1, <5>1
      <4> QED  BY <4>2, <4>3
    <3> QED  BY <3>1, <3>2
  <2> QED  BY <2>1, <2>2
<1> QED  BY <1>12, <1>13, <1>14, <1>15, <1>16, <1>18, <1>19 DEF KeepInv, DoubtInv

LEMMA UndoSound ==
  ASSUME KeepInv, NEW o \in offer
  PROVE  AreSound(UndoCommands(o))
<1>1. scene.screen \in ShoppingPanels \/ (scene.screen = "row" /\ o.undo \in {"reopen", "could_not_do_undo"})
  BY DEF KeepInv, OffersKeep
<1> DEFINE one == Attempted(<<"reopen", o.rev>>, "complete-task", Body("reopen", None, o.rev, None))
           two == Attempted(<<"could-not-do:undo", o.rev>>, "complete-task", Body("could_not_do_undo", None, o.rev, None))
<1>2. scene.screen \in ShoppingPanels \union {"row"} => Sound(one) /\ Sound(two)
  BY DEF Sound, IsCommand, Fits, Keyed, Determined, Undoable, ShoppingPanels, Still, StillHeads, Guarded, TaskEndpoints, FormHeads, Attempted,
         Body, None
<1>3. UndoCommands(o) = CASE o.undo = "reopen" -> {one} [] o.undo = "could_not_do_undo" -> {two}
                          [] OTHER -> useShoppingUndo(item, o.undo)
  BY DEF UndoCommands
<1> HIDE DEF one, two
<1>4. CASE o.undo \in {"reopen", "could_not_do_undo"}
  BY <1>1, <1>2, <1>3, <1>4 DEF AreSound
<1>5. CASE o.undo \notin {"reopen", "could_not_do_undo"}
  <2>1. OnShopping  BY <1>1, <1>5 DEF OnShopping, ShoppingPanels
  <2>2. UndoCommands(o) = useShoppingUndo(item, o.undo)  BY <1>3, <1>5
  <2> QED  BY <2>1, <2>2, ShoppingScreensSound DEF AreSound
<1> QED  BY <1>4, <1>5

Wishes(W) == \A w \in W : IsWish(w) /\ Keyed(scene.screen, w.key, w.via)

LEMMA ForgetIs ==
  ASSUME NEW W, Wishes(W), NEW kept, NEW keptForms, NEW why, why # None
  PROVE  /\ Wishes(Forget(W, kept, keptForms, why))
         /\ \A w \in Forget(W, kept, keptForms, why) : w.forgot = None => Remembered(w, kept, keptForms)
<1> SUFFICES ASSUME NEW w \in Forget(W, kept, keptForms, why)
    PROVE  /\ IsWish(w) /\ Keyed(scene.screen, w.key, w.via)
           /\ w.forgot = None => Remembered(w, kept, keptForms)
    BY DEF Wishes
<1>1. PICK old \in W : w = IF old.forgot # None \/ Remembered(old, kept, keptForms) THEN old ELSE [old EXCEPT !.forgot = why]
  BY DEF Forget
<1>2. IsWish(old) /\ Keyed(scene.screen, old.key, old.via)
  BY DEF Wishes
<1>3. CASE old.forgot # None \/ Remembered(old, kept, keptForms)  BY <1>1, <1>2, <1>3
<1>4. CASE ~(old.forgot # None \/ Remembered(old, kept, keptForms))
  <2>1. w = [op |-> old.op, key |-> old.key, via |-> old.via, body |-> old.body, forgot |-> why]
    BY <1>1, <1>2, <1>4 DEF IsWish
  <2> QED  BY <1>2, <2>1 DEF IsWish
<1> QED  BY <1>3, <1>4

LEMMA ForgetKeeps ==
  ASSUME NEW W, Wishes(W), NEW why, why # None, scene' = scene,
         doubt' = Forget(W, attempts', forms', why), again' = again, DoubtInv
  PROVE  DoubtInv'
<1>1. WishesOK'  BY ForgetIs DEF WishesOK, Wishes
<1>2. WishesKept'  BY ForgetIs DEF WishesKept
<1> QED  BY <1>1, <1>2 DEF DoubtInv, Recovered

LEMMA WishesOf ==
  ASSUME KeepInv, DoubtInv
  PROVE  /\ Wishes(doubt)
         /\ \A some \in SUBSET calls : Wishes(Unsure(some))
         /\ \A call : Wishes(Told(call))
<1>1. Wishes(doubt)  BY DEF DoubtInv, WishesOK, Wishes
<1>2. \A call \in calls : IsWish(Wish(call)) /\ Keyed(scene.screen, Wish(call).key, Wish(call).via)
  BY DEF KeepInv, CallsKeep, IsWish, Wish
<1>3. \A some \in SUBSET calls : Wishes(Unsure(some))
  BY <1>1, <1>2 DEF Wishes, Unsure
<1>4. \A call : Wishes(Told(call))
  BY <1>1 DEF Wishes, Told
<1> QED  BY <1>1, <1>3, <1>4

\* The attempt of a call that has ended is dropped or kept.
LEMMA CallSettled ==
  ASSUME KeepInv, NEW call \in calls, calls' \subseteq calls, scene' = scene, receipts' = receipts,
         attempts' = Drop(call) \/ attempts' = Keep(call.key, call.via, AttemptOf(call)),
         \A k \in DOMAIN forms : k \in DOMAIN forms' /\ forms'[k].op = forms[k].op,
         FormsKeep', (\A r \in wire' : \E old \in wire : r.endpoint = old.endpoint /\ r.body = old.body),
         OffersKeep'
  PROVE  KeepInv'
<1>1. AttemptsKeep'
  <2> SUFFICES ASSUME NEW k \in DOMAIN attempts'
      PROVE  /\ IsKept(attempts'[k])
             /\ Fits(scene.screen, attempts'[k].endpoint, attempts'[k].body)
             /\ Determined(k, attempts'[k].endpoint, attempts'[k].body)
             /\ k[1] \notin FormHeads
             /\ k[1] = "candidate" => scene.screen = "concierge" /\ k \in DOMAIN forms' /\ forms'[k].op = attempts'[k].op
      BY DEF AttemptsKeep
  <2>1. \/ k \in DOMAIN attempts /\ attempts'[k] = attempts[k]
        \/ call.via \notin Unkept /\ k = call.key /\ attempts'[k] = AttemptOf(call)
    BY DEF Drop, Keep, With, Without
  <2>2. CASE k \in DOMAIN attempts /\ attempts'[k] = attempts[k]
    BY <2>2 DEF KeepInv, AttemptsKeep
  <2>3. CASE call.via \notin Unkept /\ k = call.key /\ attempts'[k] = AttemptOf(call)
    <3>1. Keyed(scene.screen, call.key, call.via) /\ Fits(scene.screen, call.endpoint, call.body)
          /\ Determined(call.key, call.endpoint, call.body)
          /\ (call.via \in WithItsId => call.key \in DOMAIN forms /\ forms[call.key].op = call.op)
      BY DEF KeepInv, CallsKeep
    <3>2. /\ IsKept(attempts'[k]) /\ attempts'[k].op = call.op /\ attempts'[k].endpoint = call.endpoint
          /\ attempts'[k].body = call.body
      BY <2>3 DEF AttemptOf, IsKept
    <3>3. call.via \in {"attempt", "resumes"} \/ (call.via = "own" /\ call.key[1] = "candidate")
      BY <2>3, <3>1 DEF Keyed, Unkept
    <3> QED  BY <2>3, <3>1, <3>2, <3>3 DEF Keyed, FormHeads, WithItsId
  <2> QED  BY <2>1, <2>2, <2>3
<1>2. CallsKeep'  BY DEF KeepInv, CallsKeep
<1>3. RequestsFit'  BY DEF KeepInv, RequestsFit
<1> QED  BY <1>1, <1>2, <1>3 DEF KeepInv

\* Nothing is lost while a call is under way.
LEMMA KeepCalls ==
  ASSUME KeepInv, DoubtInv, scene' = scene, attempts' = attempts, forms' = forms, offer' = offer, doubt' = doubt,
         again' = again, receipts' = receipts,
         (\A r \in wire' : (\E old \in wire : r.endpoint = old.endpoint /\ r.body = old.body)
                           \/ \E old \in calls : r.endpoint = old.endpoint /\ r.body = old.body),
         \A call \in calls' : \E old \in calls :
            call.op = old.op /\ call.key = old.key /\ call.endpoint = old.endpoint
            /\ call.body = old.body /\ call.via = old.via /\ call.undo = old.undo
  PROVE  KeepInv' /\ DoubtInv'
<1>1. AttemptsKeep' /\ FormsKeep' /\ OffersKeep'  BY DEF KeepInv, AttemptsKeep, FormsKeep, OffersKeep
<1>2. CallsKeep'
  <2> SUFFICES ASSUME NEW call \in calls'
      PROVE  /\ Fits(scene.screen, call.endpoint, call.body)
             /\ Determined(call.key, call.endpoint, call.body)
             /\ Keyed(scene.screen, call.key, call.via)
             /\ Undoable(scene.screen, call)
             /\ call.via \in WithItsId => call.key \in DOMAIN forms /\ forms[call.key].op = call.op
      BY DEF CallsKeep
  <2>1. PICK old \in calls :
            call.op = old.op /\ call.key = old.key /\ call.endpoint = old.endpoint
            /\ call.body = old.body /\ call.via = old.via /\ call.undo = old.undo
    OBVIOUS
  <2>2. Undoable(scene.screen, call)  BY <2>1 DEF KeepInv, CallsKeep, Undoable
  <2> QED  BY <2>1, <2>2 DEF KeepInv, CallsKeep
<1>3. RequestsFit'  BY DEF KeepInv, RequestsFit, CallsKeep
<1>4. DoubtInv'  BY DEF DoubtInv, WishesOK, WishesKept, Recovered
<1> QED  BY <1>1, <1>2, <1>3, <1>4 DEF KeepInv

LEMMA OrphansFit ==
  ASSUME CallInv, NEW gone, NEW r \in Orphaned(wire, gone)
  PROVE  \E old \in wire : /\ r.op = old.op /\ r.endpoint = old.endpoint /\ r.body = old.body
                           /\ r.undoes = old.undoes
<1>1. PICK old \in wire : r = old \/ r = [old EXCEPT !.call = Nobodys]  BY DEF Orphaned
<1>2. IsRequest(old)  BY DEF CallInv, WireOK
<1> QED  BY <1>1, <1>2 DEF IsRequest

LEMMA KeepPress ==
  ASSUME KeepInv, DoubtInv, Press \/ PressUndo
  PROVE  KeepInv' /\ DoubtInv'
<1> USE DEF server, display
<1>1. CASE Press
  <2>1. PICK c0 \in Offered(shown, User) : Begin(Resumed(c0), Nobodys)
    BY <1>1 DEF Press
  <2>2. scene.screen \in Screens  BY ScenesAssumption DEF KeepInv
  <2>3. Sound(c0)  BY <2>1, <2>2, OfferedSound DEF AreSound
  <2>4. UNCHANGED <<scene, wire, receipts, offer, doubt>>  BY <1>1 DEF Press
  <2> QED  BY <2>1, <2>3, <2>4, KeepBegin
<1>2. CASE PressUndo
  <2>1. PICK o \in offer : \E c \in UndoCommands(o) : Begin(c, o.op)
    BY <1>2 DEF PressUndo
  <2>2. PICK c \in UndoCommands(o) : Begin(c, o.op)  BY <2>1
  <2>3. Sound(c)  BY <2>2, UndoSound DEF AreSound
  <2>4. UNCHANGED <<scene, wire, receipts, offer, doubt>>  BY <1>2 DEF PressUndo
  <2> QED  BY <2>2, <2>3, <2>4, KeepBegin
<1> QED  BY <1>1, <1>2

LEMMA NotNone == "client" # None /\ "page" # None
BY DEF None

LEMMA KeepNotSent ==
  ASSUME KeepInv, DoubtInv, NotSent
  PROVE  KeepInv' /\ DoubtInv'
<1>1. PICK call \in calls : /\ calls' = calls \ {call}
                            /\ attempts' = Drop(call)
                            /\ doubt' = Forget(doubt, Drop(call), forms, "client")
  BY DEF NotSent
<1>2. UNCHANGED <<scene, receipts, wire, forms, offer, again>>  BY DEF NotSent, server
<1>3. KeepInv'
  <2>1. FormsKeep' /\ OffersKeep'  BY <1>2 DEF KeepInv, FormsKeep, OffersKeep
  <2> QED  BY <1>1, <1>2, <2>1, CallSettled
<1>4. DoubtInv'
  BY <1>1, <1>2, WishesOf, ForgetKeeps, NotNone
<1> QED  BY <1>3, <1>4

LEMMA KeepSend ==
  ASSUME CallInv, KeepInv, DoubtInv, Send
  PROVE  KeepInv' /\ DoubtInv'
<1>1. PICK call \in calls :
         /\ calls' = (calls \ {call}) \union {[call EXCEPT !.sent = TRUE]}
         /\ wire' = wire \union {[call |-> call.n, op |-> call.op, endpoint |-> call.endpoint,
                                  body |-> call.body, undoes |-> call.undoes]}
  BY DEF Send
<1> DEFINE sent == [call EXCEPT !.sent = TRUE]
<1>2. UNCHANGED <<scene, receipts, attempts, forms, offer, doubt, again>>  BY DEF Send, server
<1>3. /\ sent.op = call.op /\ sent.key = call.key /\ sent.endpoint = call.endpoint
      /\ sent.body = call.body /\ sent.via = call.via /\ sent.undo = call.undo
  BY DEF CallInv, CallsOK, IsCall
<1>4. calls' = (calls \ {call}) \union {sent}  BY <1>1
<1> HIDE DEF sent
<1>5. \A c \in calls' : \E old \in calls :
            c.op = old.op /\ c.key = old.key /\ c.endpoint = old.endpoint
            /\ c.body = old.body /\ c.via = old.via /\ c.undo = old.undo
  BY <1>3, <1>4
<1>6. \A r \in wire' : (\E old \in wire : r.endpoint = old.endpoint /\ r.body = old.body)
                           \/ \E old \in calls : r.endpoint = old.endpoint /\ r.body = old.body
  BY <1>1
<1> QED  BY <1>2, <1>5, <1>6, KeepCalls

LEMMA KeepUnknown ==
  ASSUME CallInv, KeepInv, DoubtInv, Lost \/ AnswerUnknown
  PROVE  KeepInv' /\ DoubtInv'
<1>1. PICK call \in calls :
         /\ calls' = calls \ {call}
         /\ attempts' = Keep(call.key, call.via, AttemptOf(call))
         /\ wire' = wire \/ wire' = Orphaned(wire, {call.n})
         /\ doubt' = Forget(Unsure({call}), Keep(call.key, call.via, AttemptOf(call)), forms, "client")
  BY DEF Lost, AnswerUnknown
<1>2. UNCHANGED <<scene, receipts, forms, offer, again>>  BY DEF Lost, AnswerUnknown, server
<1>3. \A r \in wire' : \E old \in wire : r.endpoint = old.endpoint /\ r.body = old.body
  BY <1>1, OrphansFit
<1>4. KeepInv'
  <2>1. FormsKeep' /\ OffersKeep'  BY <1>2 DEF KeepInv, FormsKeep, OffersKeep
  <2> QED  BY <1>1, <1>2, <1>3, <2>1, CallSettled
<1>5. Wishes(Unsure({call}))  BY WishesOf
<1>6. DoubtInv'
  BY <1>1, <1>2, <1>5, ForgetKeeps, NotNone
<1> QED  BY <1>4, <1>6

LEMMA FormSet ==
  ASSUME NEW f, IsForm(f), NEW g,
         g = [f EXCEPT !.saved = TRUE] \/ g = [f EXCEPT !.locked = {}, !.saved = FALSE]
  PROVE  IsForm(g) /\ g.op = f.op
BY DEF IsForm

LEMMA AttemptSet ==
  ASSUME NEW a, IsKept(a), NEW g, g = [a EXCEPT !.expired = TRUE]
  PROVE  IsKept(g) /\ g.op = a.op /\ g.endpoint = a.endpoint /\ g.body = a.body
BY DEF IsKept

LEMMA KeepAnswered ==
  ASSUME KeepInv, DoubtInv, AnswerDone \/ AnswerRejected
  PROVE  KeepInv' /\ DoubtInv'
<1>1. PICK call \in calls :
         /\ calls' = calls \ {call}
         /\ attempts' = Drop(call)
         /\ offer' \in {offer, {}, OfferOf(call)}
         /\ forms' = forms \/ (call.via = "own" /\ forms' = [forms EXCEPT ![call.key].saved = TRUE])
         /\ doubt' = Forget(Told(call), Drop(call), forms, "client")
  BY DEF AnswerDone, AnswerRejected, display
<1>2. UNCHANGED <<scene, receipts, wire, again>>  BY DEF AnswerDone, AnswerRejected, server
<1>3. /\ Undoable(scene.screen, call)
      /\ call.via = "own" => call.key \in DOMAIN forms
  BY DEF KeepInv, CallsKeep, WithItsId
<1>4. /\ FormsKeep' /\ DOMAIN forms' = DOMAIN forms /\ \A k \in DOMAIN forms : forms'[k].op = forms[k].op
  <2>1. CASE forms' = forms  BY <2>1 DEF KeepInv, FormsKeep
  <2>2. CASE call.via = "own" /\ forms' = [forms EXCEPT ![call.key].saved = TRUE]
    <3>1. DOMAIN forms' = DOMAIN forms /\ \A k \in DOMAIN forms : forms'[k].op = forms[k].op /\ IsForm(forms'[k])
      <4>1. /\ DOMAIN forms' = DOMAIN forms
            /\ \A k \in DOMAIN forms : forms'[k] = forms[k] \/ forms'[k] = [forms[k] EXCEPT !.saved = TRUE]
        BY <2>2
      <4> QED  BY <4>1, FormSet DEF KeepInv, FormsKeep
    <3> QED  BY <3>1 DEF FormsKeep
  <2> QED  BY <1>1, <2>1, <2>2
<1>5. OffersKeep'
  <2>1. \A o \in OfferOf(call) : o \in offer \/ (call.undo # None /\ o.undo = call.undo)
    BY DEF OfferOf
  <2> QED  BY <1>1, <1>2, <1>3, <2>1 DEF KeepInv, OffersKeep, Undoable
<1>6. KeepInv'
  BY <1>1, <1>2, <1>4, <1>5, CallSettled
<1>7. \A w, kept : Remembered(w, kept, forms') <=> Remembered(w, kept, forms)
  BY <1>4 DEF Remembered
<1>8. Forget(Told(call), Drop(call), forms', "client") = Forget(Told(call), Drop(call), forms, "client")
  BY <1>7 DEF Forget
<1>9. DoubtInv'
  BY <1>1, <1>2, <1>8, WishesOf, ForgetKeeps, NotNone
<1> QED  BY <1>6, <1>9

LEMMA KeepProcess ==
  ASSUME CallInv, KeepInv, DoubtInv, Process
  PROVE  KeepInv' /\ DoubtInv'
<1>1. PICK r \in wire : wire' = wire \ {r} /\ IF Landed(r.op) THEN Replays(r) ELSE Serves(r)
  BY DEF Process
<1>2. UNCHANGED <<scene, attempts, forms, offer, doubt, again>>  BY DEF Process
<1>3. PICK reply : calls' = Answered(r, reply)
  BY <1>1, Zenon DEF Replays, Serves
<1>4. \A call \in calls' : \E old \in calls :
            call.op = old.op /\ call.key = old.key /\ call.endpoint = old.endpoint
            /\ call.body = old.body /\ call.via = old.via /\ call.undo = old.undo
  <2> SUFFICES ASSUME NEW old \in calls, NEW call, call = IF old.n = r.call THEN [old EXCEPT !.reply = reply] ELSE old
      PROVE  call.op = old.op /\ call.key = old.key /\ call.endpoint = old.endpoint
            /\ call.body = old.body /\ call.via = old.via /\ call.undo = old.undo
      BY <1>3 DEF Answered
  <2> QED  BY DEF CallInv, CallsOK, IsCall
<1>5. receipts' = receipts
      \/ \E receipt : receipts' = With(receipts, r.op, receipt) /\ receipt.endpoint = r.endpoint /\ receipt.body = r.body
  <2>1. CASE Landed(r.op)  BY <1>1, <2>1 DEF Replays, server
  <2>2. CASE ~Landed(r.op)
    <3> DEFINE answer == ServeAll(r.endpoint, item, r.body, User)
               receipt == [endpoint |-> r.endpoint, body |-> r.body, reply |-> [code |-> answer.code, rev |-> answer.item.rev],
                           from |-> item.rev]
    <3>1. receipts' = receipts \/ receipts' = With(receipts, r.op, receipt)
      BY <1>1, <2>2 DEF Serves, server
    <3>2. receipt.endpoint = r.endpoint /\ receipt.body = r.body  OBVIOUS
    <3> HIDE DEF receipt
    <3> QED  BY <3>1, <3>2
  <2> QED  BY <2>1, <2>2
<1>6. \A op \in DOMAIN receipts' : Fits(scene.screen, receipts'[op].endpoint, receipts'[op].body)
  BY <1>5 DEF KeepInv, RequestsFit, With
<1>7. AttemptsKeep' /\ FormsKeep' /\ OffersKeep' /\ DoubtInv'
  BY <1>2 DEF KeepInv, AttemptsKeep, FormsKeep, OffersKeep, DoubtInv, WishesOK, WishesKept, Recovered
<1>8. CallsKeep'
  <2> SUFFICES ASSUME NEW call \in calls'
      PROVE  /\ Fits(scene.screen, call.endpoint, call.body)
             /\ Determined(call.key, call.endpoint, call.body)
             /\ Keyed(scene.screen, call.key, call.via)
             /\ Undoable(scene.screen, call)
             /\ call.via \in WithItsId => call.key \in DOMAIN forms /\ forms[call.key].op = call.op
      BY <1>2 DEF CallsKeep
  <2>1. PICK old \in calls :
            call.op = old.op /\ call.key = old.key /\ call.endpoint = old.endpoint
            /\ call.body = old.body /\ call.via = old.via /\ call.undo = old.undo
    BY <1>4
  <2>2. Undoable(scene.screen, call)  BY <2>1 DEF KeepInv, CallsKeep, Undoable
  <2> QED  BY <2>1, <2>2 DEF KeepInv, CallsKeep
<1>9. RequestsFit'  BY <1>1, <1>2, <1>6 DEF KeepInv, RequestsFit
<1> QED  BY <1>2, <1>7, <1>8, <1>9 DEF KeepInv

LEMMA KeepLeave ==
  ASSUME CallInv, KeepInv, DoubtInv, Leave
  PROVE  KeepInv' /\ DoubtInv'
<1>1. \A call \in calls' : \E old \in calls :
            call.op = old.op /\ call.key = old.key /\ call.endpoint = old.endpoint
            /\ call.body = old.body /\ call.via = old.via /\ call.undo = old.undo
  <2> SUFFICES ASSUME NEW old \in calls, NEW call, call = IF old.via \in WithItsId THEN old ELSE [old EXCEPT !.left = TRUE]
      PROVE  call.op = old.op /\ call.key = old.key /\ call.endpoint = old.endpoint
            /\ call.body = old.body /\ call.via = old.via /\ call.undo = old.undo
      BY DEF Leave
  <2> QED  BY DEF CallInv, CallsOK, IsCall
<1>2. UNCHANGED <<scene, receipts, wire, attempts, forms, offer, doubt, again>>  BY DEF Leave, server
<1> QED  BY <1>1, <1>2, KeepCalls

LEMMA KeepPageGone ==
  ASSUME CallInv, KeepInv, DoubtInv, Reload \/ CloseTab
  PROVE  KeepInv' /\ DoubtInv'
<1>1. PICK kept, keptForms, seen : /\ PageGone(kept, keptForms, seen)
                                   /\ kept \in {attempts, <<>>}
                                   /\ IF InConcierge
                                      THEN keptForms = [k \in DOMAIN forms |-> [forms[k] EXCEPT !.locked = {}, !.saved = FALSE]]
                                      ELSE keptForms = <<>>
  BY Zenon DEF Reload, CloseTab
<1>2. /\ attempts' \in {attempts, <<>>} /\ forms' = keptForms /\ calls' = {} /\ offer' = {}
      /\ wire' = Orphaned(wire, {call.n : call \in calls})
      /\ doubt' = Forget(Forget(Unsure({call \in calls : call.sent}), attempts, forms, "client"), attempts', forms', "page")
      /\ UNCHANGED <<scene, receipts, again>>
  BY <1>1 DEF PageGone, server
<1>3. FormsKeep' /\ (InConcierge => DOMAIN forms' = DOMAIN forms /\ \A k \in DOMAIN forms : forms'[k].op = forms[k].op)
  <2>1. CASE InConcierge
    <3>1. forms' = [k \in DOMAIN forms |-> [forms[k] EXCEPT !.locked = {}, !.saved = FALSE]]
      BY <1>1, <1>2, <2>1
    <3>2. \A k \in DOMAIN forms : IsForm(forms'[k]) /\ forms'[k].op = forms[k].op
      <4>1. \A k \in DOMAIN forms : forms'[k] = [forms[k] EXCEPT !.locked = {}, !.saved = FALSE]  BY <3>1
      <4> QED  BY <4>1, FormSet DEF KeepInv, FormsKeep
    <3> QED  BY <3>1, <3>2 DEF FormsKeep
  <2>2. CASE ~InConcierge  BY <1>1, <1>2, <2>2 DEF FormsKeep
  <2> QED  BY <2>1, <2>2
<1>4. AttemptsKeep'
  <2>1. CASE attempts' = attempts
    BY <1>2, <1>3, <2>1 DEF KeepInv, AttemptsKeep, InConcierge
  <2>2. CASE attempts' = <<>>
    BY <2>2 DEF AttemptsKeep
  <2> QED  BY <1>2, <2>1, <2>2
<1>5. CallsKeep' /\ OffersKeep'  BY <1>2 DEF CallsKeep, OffersKeep
<1>6. RequestsFit'
  <2>1. \A r \in wire' : \E old \in wire : r.endpoint = old.endpoint /\ r.body = old.body
    BY <1>2, OrphansFit
  <2> QED  BY <1>2, <2>1 DEF KeepInv, RequestsFit
<1>7. Wishes(Forget(Unsure({call \in calls : call.sent}), attempts, forms, "client"))
  BY WishesOf, ForgetIs, NotNone
<1>8. DoubtInv'
  BY <1>2, <1>7, ForgetKeeps, NotNone
<1> QED  BY <1>2, <1>3, <1>4, <1>5, <1>6, <1>8 DEF KeepInv

LEMMA KeepExpire ==
  ASSUME KeepInv, DoubtInv, Expire
  PROVE  KeepInv' /\ DoubtInv'
<1>1. PICK k \in DOMAIN attempts :
         /\ attempts' = [attempts EXCEPT ![k].expired = TRUE]
         /\ doubt' = Forget(doubt, attempts', forms, "page")
  BY DEF Expire
<1>2. UNCHANGED <<scene, receipts, wire, forms, calls, offer, again>>  BY DEF Expire, server
<1>3. DOMAIN attempts' = DOMAIN attempts
      /\ \A j \in DOMAIN attempts : /\ IsKept(attempts'[j]) /\ attempts'[j].op = attempts[j].op
                                    /\ attempts'[j].endpoint = attempts[j].endpoint
                                    /\ attempts'[j].body = attempts[j].body
  <2>1. /\ DOMAIN attempts' = DOMAIN attempts
        /\ \A j \in DOMAIN attempts : attempts'[j] = attempts[j] \/ attempts'[j] = [attempts[j] EXCEPT !.expired = TRUE]
    BY <1>1
  <2> QED  BY <2>1, AttemptSet DEF KeepInv, AttemptsKeep
<1>4. AttemptsKeep'  BY <1>2, <1>3 DEF KeepInv, AttemptsKeep
<1>5. (FormsKeep /\ CallsKeep /\ RequestsFit /\ OffersKeep)'
  BY <1>2 DEF KeepInv, FormsKeep, CallsKeep, RequestsFit, OffersKeep
<1>6. DoubtInv'
  BY <1>1, <1>2, WishesOf, ForgetKeeps, NotNone
<1> QED  BY <1>2, <1>4, <1>5, <1>6 DEF KeepInv

LEMMA KeepStep == CallInv /\ KeepInv /\ DoubtInv /\ [Next]_vars => KeepInv' /\ DoubtInv'
<1> SUFFICES ASSUME CallInv, KeepInv, DoubtInv, [Next]_vars PROVE KeepInv' /\ DoubtInv'  OBVIOUS
<1>1. CASE Elsewhere \/ StartLoad \/ ReadLoad \/ EndLoad \/ UNCHANGED vars
  <2>1. UNCHANGED <<scene, calls, attempts, forms, wire, receipts, offer, doubt, again>>
    BY <1>1 DEF Elsewhere, StartLoad, ReadLoad, EndLoad, vars, server
  <2> QED  BY <2>1 DEF KeepInv, AttemptsKeep, FormsKeep, CallsKeep, RequestsFit, OffersKeep, DoubtInv, WishesOK, WishesKept,
                       Recovered
<1> QED
  BY <1>1, KeepPress, KeepNotSent, KeepSend, KeepUnknown, KeepAnswered, KeepProcess, KeepLeave, KeepPageGone,
     KeepExpire DEF Next

\* A press repeated while the result of the first is not known runs the operation
\* of the first again, as long as the page keeps it: it is another operation only
\* when the first is forgotten (its attempt dropped, expired or gone with the page).
THEOREM RetryReusesOperation == Spec => [](\A a \in again : a.first # a.second /\ a.forgot # None)
<1>1. DoubtInv => \A a \in again : a.first # a.second /\ a.forgot # None
  BY DEF DoubtInv, Recovered
<1> QED  BY CallInit, CallStep, KeepInit, KeepStep, <1>1, PTL DEF Spec

-----------------------------------------------------------------------------
(* The row, step by step, whoever moves it.                                 *)

\* What the partner may do to the row fits the scene, too.
LEMMA TaskButtonsFit ==
  ASSUME scene.screen \notin {"request", "note"}, NEW row, NEW me, NEW c \in TaskButtons(row, me)
  PROVE  Fits(scene.screen, c.endpoint, c.body)
<1> USE DEF Fits, Guarded, Unguarded, TaskEndpoints, Attempted, Body, When, None, RequestAnswers, RequestEndpoints
<1>1. \A d \in handleComplete(row, me) : Fits(scene.screen, d.endpoint, d.body)
  BY DEF handleComplete
<1>2. \A d \in handleReopen(row) : Fits(scene.screen, d.endpoint, d.body)
  BY DEF handleReopen
<1>3. \A d \in handleCouldNotDo(row) : Fits(scene.screen, d.endpoint, d.body)
  BY DEF handleCouldNotDo
<1>4. \A d \in handleCancel(row) : Fits(scene.screen, d.endpoint, d.body)
  BY DEF handleCancel
<1>5. \A d \in handleAnyoneClaim(row, me) : Fits(scene.screen, d.endpoint, d.body)
  BY DEF handleAnyoneClaim
<1>6. runBulk(row, me) \subseteq handleCouldNotDo(row) \union handleComplete(row, me)
  BY DEF runBulk
<1> HIDE DEF Fits
<1> QED  BY <1>1, <1>2, <1>3, <1>4, <1>5, <1>6 DEF TaskButtons

LEMMA GoodsFit ==
  ASSUME scene.screen \notin {"request", "note", "row", "checklist"}, NEW row, NEW c \in primaryAction(row) \union menu(row)
  PROVE  Fits(scene.screen, c.endpoint, c.body)
<1> USE DEF Fits, Guarded, Attempted, Body, When, None, stable, RequestAnswers, RequestEndpoints
<1>1. \A d \in primaryAction(row) : Fits(scene.screen, d.endpoint, d.body)
  BY DEF primaryAction
<1>2. \A d \in menu(row) : Fits(scene.screen, d.endpoint, d.body)
  BY DEF menu
<1> HIDE DEF Fits
<1> QED  BY <1>1, <1>2

LEMMA PartnersFit ==
  ASSUME scene.screen \in Screens, RowOK(item), NEW c \in Partners(item)
  PROVE  Fits(scene.screen, c.endpoint, c.body)
<1>1. CASE c \in Offered(item, Partner)
  BY <1>1, OfferedSound DEF AreSound, Sound
<1>2. CASE item.state \in ShoppingState /\ c \in primaryAction(item) \union menu(item)
  <2>1. DOMAIN item.state = {"status", "method", "assignment", "claim"}  BY <1>2 DEF ShoppingState
  <2>2. scene.screen \notin {"request", "note", "row", "checklist"}  BY <2>1 DEF RowOK
  <2> QED  BY <1>2, <2>2, GoodsFit
<1>3. CASE item.state \in TaskState /\ c \in TaskButtons(item, Partner)
  <2>1. DOMAIN item.state = {"status", "mode", "assignment", "claim", "waiting", "ticked"}  BY <1>3 DEF TaskState
  <2>2. scene.screen \notin {"request", "note"}  BY <2>1 DEF RowOK
  <2> QED  BY <1>3, <2>2, TaskButtonsFit
<1> QED  BY <1>1, <1>2, <1>3 DEF Partners

Advanced(old, next) ==
    /\ next.rev \in {old.rev, old.rev + 1}
    /\ scene.screen \in {"row", "checklist"} => TaskMoved(old, next)
    /\ scene.screen = "request" => RequestMoved(old, next)
    /\ scene.screen = "note" => NoteMoved(old, next)

LEMMA Serving ==
  ASSUME RowOK(item), NEW endpoint, NEW body, Fits(scene.screen, endpoint, body), NEW who
  PROVE  LET next == ServeAll(endpoint, item, body, who).item
         IN  RowOK(next) /\ Advanced(item, next)
<1> DEFINE next == ServeAll(endpoint, item, body, who).item
<1>1. Moved(item, next)  BY ServedMoves DEF RowOK
<1>2. scene.screen \in {"row", "checklist"} => TaskMoved(item, next)
  BY TaskStepsMove DEF Fits
<1>3. scene.screen = "request" => RequestMoved(item, next)
  <2> SUFFICES ASSUME scene.screen = "request" PROVE RequestMoved(item, next)  OBVIOUS
  <2>1. endpoint \in RequestEndpoints \union {"start-request-followup"}  BY DEF Fits
  <2>2. item = [state |-> item.state, rev |-> item.rev]  BY DEF RowOK, IsRow
  <2>3. "state" \in DOMAIN item  BY <2>2
  <2> QED  BY <2>1, <2>3, RequestStepsMove DEF RowOK
<1>6. scene.screen = "note" => NoteMoved(item, next)
  BY NoteStepsMove DEF Fits, RowOK
<1> HIDE DEF next
<1>4. Advanced(item, next)  BY <1>1, <1>2, <1>3, <1>6 DEF Advanced, Moved
<1>5. RowOK(next)  BY <1>1, <1>2, <1>3, <1>6 DEF RowOK, Moved, TaskMoved, RequestMoved, NoteMoved
<1> QED  BY <1>4, <1>5 DEF next

LEMMA RowInit == Init => RowOK(item)
<1> SUFFICES ASSUME Init PROVE RowOK(item)  OBVIOUS
<1>1. scene \in Scenes /\ item = [state |-> scene.state, rev |-> 1]  BY DEF Init
<1>6. scene.state \in StatesOf(scene.screen)  BY <1>1, ScenesAssumption
<1>2. IsRow(item) /\ item.state = scene.state  BY <1>1 DEF IsRow
<1>3. scene.state \in TaskState => {"status", "ticked"} \subseteq DOMAIN scene.state
  BY DEF TaskState
<1>4. scene.state \in RequestState => "followup" \in DOMAIN scene.state
  BY DEF RequestState
<1>5. scene.state \in HandoverState => {"status", "author"} \subseteq DOMAIN scene.state
  BY DEF HandoverState
<1> QED  BY <1>2, <1>3, <1>4, <1>5, <1>6 DEF RowOK, StatesOf

LEMMA RowStep ==
  ASSUME KeepInv, RowOK(item), [Next]_vars
  PROVE  RowOK(item)' /\ Advanced(item, item')
<1>0. scene' = scene
  BY DEF Next, Press, PressUndo, NotSent, Send, Lost, AnswerDone, AnswerRejected, AnswerUnknown, Process, Elsewhere,
         StartLoad, ReadLoad, EndLoad, Leave, Reload, CloseTab, PageGone, Expire, vars
<1>1. item' = item => RowOK(item)' /\ Advanced(item, item')
  BY <1>0 DEF RowOK, Advanced, TaskMoved, RequestMoved, NoteMoved, IsRow
<1>2. CASE Process
  <2>1. PICK r \in wire : IF Landed(r.op) THEN Replays(r) ELSE Serves(r)  BY <1>2 DEF Process
  <2>2. item' \in {item, ServeAll(r.endpoint, item, r.body, User).item}
    BY <2>1 DEF Replays, Serves, server
  <2>3. Fits(scene.screen, r.endpoint, r.body)  BY DEF KeepInv, RequestsFit
  <2> QED  BY <1>0, <1>1, <2>2, <2>3, Serving DEF RowOK
<1>3. CASE Elsewhere
  <2>1. PICK c \in Partners(item) : item' = ServeAll(c.endpoint, item, c.body, Partner).item  BY <1>3 DEF Elsewhere
  <2>2. Fits(scene.screen, c.endpoint, c.body)  BY <2>1, PartnersFit, ScenesAssumption DEF KeepInv
  <2> QED  BY <1>0, <2>1, <2>2, Serving DEF RowOK
<1>4. CASE ~Process /\ ~Elsewhere
  <2>1. item' = item
    BY <1>4 DEF Next, Press, PressUndo, NotSent, Send, Lost, AnswerDone, AnswerRejected, AnswerUnknown,
         StartLoad, ReadLoad, EndLoad, Leave, Reload, CloseTab, PageGone, Expire, vars, server
  <2> QED  BY <1>1, <2>1
<1> QED  BY <1>2, <1>3, <1>4

-----------------------------------------------------------------------------
(* What names a revision is carried out once.                               *)

OnceAll == SpentInv /\ OnceInv

\* A request that is carried out for the first time spends the revision it names.
LEMMA FirstTime ==
  ASSUME KeepInv, TickInv, RowOK(item), NEW r \in wire, r.body.rev # 0, r.body.action # "request",
         ServeAll(r.endpoint, item, r.body, User).code = "OK"
  PROVE  LET next == ServeAll(r.endpoint, item, r.body, User).item
         IN  IF r.body.action = "followup" THEN ~item.state.followup /\ next.state.followup
             ELSE r.body.rev = item.rev /\ next.rev = item.rev + 1
<1> DEFINE next == ServeAll(r.endpoint, item, r.body, User).item
<1>1. Fits(scene.screen, r.endpoint, r.body)  BY DEF KeepInv, RequestsFit
<1>2. CASE r.body.action = "followup"
  <2>1. r.endpoint = "start-request-followup" /\ scene.screen = "request"  BY <1>1, <1>2 DEF Fits
  <2>2. ServeAll(r.endpoint, item, r.body, User) = start_request_followup(item, r.body, User)
    BY <2>1 DEF ServeAll, ServeFamily
  <2>3. ~item.state.followup /\ next = Followed(item)
    BY <2>2, FollowupLands
  <2>4. item = [state |-> item.state, rev |-> item.rev] /\ "followup" \in DOMAIN item.state
    BY <2>1 DEF RowOK, IsRow
  <2>5. "state" \in DOMAIN item  BY <2>4
  <2>6. next.state.followup  BY <2>3, <2>4, <2>5 DEF Followed
  <2> QED  BY <1>2, <2>3, <2>6
<1>3. CASE r.body.action # "followup"
  <2>1. r.endpoint = "set-subtask-completion" => Ticks(item, r.body) # item.state.ticked
    <3> SUFFICES ASSUME r.endpoint = "set-subtask-completion" PROVE Ticks(item, r.body) # item.state.ticked  OBVIOUS
    <3>1. scene.screen = "checklist"  BY <1>1 DEF Fits
    <3>2. ServeAll(r.endpoint, item, r.body, User) = set_subtask_completion(item, r.body, User)
      BY DEF ServeAll, ServeFamily, Serve
    <3>3. r.body.rev = item.rev  BY <3>2, TickLands
    <3>4. r.body.action = "tick" <=> r.body.arg \notin item.state.ticked
      BY <3>1, <3>3 DEF TickInv, Apt
    <3> QED  BY <3>4 DEF Ticks
  <2>2. GuardedEffect(item, r.body, next)  BY <1>1, <2>1, GuardedLands
  <2> QED  BY <1>3, <2>2 DEF GuardedEffect, Lands
<1> QED  BY <1>2, <1>3

LEMMA OnceServed ==
  ASSUME KeepInv, TickInv, RowOK(item), OnceAll, NEW r \in wire, ~Landed(r.op), Serves(r),
         ServeAll(r.endpoint, item, r.body, User).code = "OK"
  PROVE  OnceAll'
<1> DEFINE next == ServeAll(r.endpoint, item, r.body, User).item
           receipt == [endpoint |-> r.endpoint, body |-> r.body,
                       reply |-> [code |-> ServeAll(r.endpoint, item, r.body, User).code, rev |-> next.rev],
                       from |-> item.rev]
<1>1. item' = next /\ receipts' = With(receipts, r.op, receipt)
  BY DEF Serves
<1>2. receipt.endpoint = r.endpoint /\ receipt.body = r.body  OBVIOUS
<1>3. Fits(scene.screen, r.endpoint, r.body)  BY DEF KeepInv, RequestsFit
<1>4. RowOK(next) /\ Advanced(item, next)  BY <1>3, Serving
<1>5. r.body.rev # 0 /\ r.body.action # "request" =>
         IF r.body.action = "followup" THEN ~item.state.followup /\ next.state.followup
         ELSE r.body.rev = item.rev /\ next.rev = item.rev + 1
  BY FirstTime
<1> HIDE DEF next, receipt
<1>6. /\ DOMAIN receipts' = DOMAIN receipts \union {r.op} /\ receipts'[r.op] = receipt
      /\ \A op \in DOMAIN receipts : op # r.op /\ receipts'[op] = receipts[op]
  <2>1. r.op \notin DOMAIN receipts /\ receipts' = With(receipts, r.op, receipt)  BY <1>1 DEF Landed
  <2> QED  BY <2>1 DEF With
<1>7. item.rev \in Nat /\ next.rev \in {item.rev, item.rev + 1}
  BY <1>4 DEF RowOK, IsRow, Advanced
<1>8. SpentInv'
  <2> SUFFICES ASSUME NEW op \in DOMAIN receipts',
                      receipts'[op].body.rev # 0, receipts'[op].body.action # "request"
      PROVE  IF receipts'[op].body.action = "followup" THEN item'.state.followup
             ELSE receipts'[op].body.rev \in Nat /\ receipts'[op].body.rev < item'.rev
      BY DEF SpentInv
  <2>1. CASE op = r.op  BY <1>1, <1>2, <1>5, <1>6, <1>7, <2>1
  <2>2. CASE op # r.op
    <3>1. op \in DOMAIN receipts /\ receipts'[op] = receipts[op]  BY <1>6, <2>2
    <3>2. IF receipts[op].body.action = "followup" THEN item.state.followup
          ELSE receipts[op].body.rev \in Nat /\ receipts[op].body.rev < item.rev
      BY <3>1 DEF OnceAll, SpentInv
    <3>3. CASE receipts[op].body.action = "followup"
      <4>1. scene.screen = "request"  BY <3>1, <3>3 DEF KeepInv, RequestsFit, Fits
      <4> QED  BY <1>1, <1>4, <3>1, <3>2, <3>3, <4>1 DEF Advanced, RequestMoved
    <3>4. CASE receipts[op].body.action # "followup"
      BY <1>1, <1>7, <3>1, <3>2, <3>4
    <3> QED  BY <3>3, <3>4
  <2> QED  BY <2>1, <2>2
<1>9. OnceInv'
  <2>1. \A op \in DOMAIN receipts : receipts[op].body = r.body => Unprotected(receipt) /\ Unprotected(receipts[op])
    <3> SUFFICES ASSUME NEW op \in DOMAIN receipts, receipts[op].body = r.body
        PROVE  Unprotected(receipt) /\ Unprotected(receipts[op])
        OBVIOUS
    <3>1. CASE r.body.rev = 0  BY <1>2, <3>1 DEF Unprotected
    <3>2. CASE r.body.rev # 0 /\ r.body.action = "request"
      <4>1. Fits(scene.screen, receipts[op].endpoint, r.body)  BY DEF KeepInv, RequestsFit
      <4> QED  BY <1>2, <1>3, <3>2, <4>1 DEF Unprotected, Fits
    <3>3. CASE r.body.rev # 0 /\ r.body.action # "request"
      BY <1>5, <1>7, <3>3 DEF OnceAll, SpentInv
    <3> QED  BY <3>1, <3>2, <3>3
  <2> SUFFICES ASSUME NEW first \in DOMAIN receipts', NEW second \in DOMAIN receipts', first # second,
                      receipts'[first].body = receipts'[second].body
      PROVE  Unprotected(receipts'[first])
      BY DEF OnceInv, Unprotected
  <2>2. CASE first = r.op  BY <1>2, <1>6, <2>1, <2>2
  <2>3. CASE second = r.op  BY <1>2, <1>6, <2>1, <2>3
  <2>4. CASE first # r.op /\ second # r.op  BY <1>6, <2>4 DEF OnceAll, OnceInv
  <2> QED  BY <2>2, <2>3, <2>4
<1> QED  BY <1>8, <1>9 DEF OnceAll

LEMMA OnceStep ==
  ASSUME KeepInv, TickInv, RowOK(item), OnceAll, [Next]_vars
  PROVE  OnceAll'
<1>1. CASE receipts' = receipts
  <2>1. Advanced(item, item') /\ RowOK(item)'  BY RowStep
  <2>2. SpentInv'
    <3> SUFFICES ASSUME NEW op \in DOMAIN receipts,
                        receipts[op].body.rev # 0, receipts[op].body.action # "request"
        PROVE  IF receipts[op].body.action = "followup" THEN item'.state.followup
               ELSE receipts[op].body.rev \in Nat /\ receipts[op].body.rev < item'.rev
        BY <1>1 DEF SpentInv
    <3>1. IF receipts[op].body.action = "followup" THEN item.state.followup
          ELSE receipts[op].body.rev \in Nat /\ receipts[op].body.rev < item.rev
      BY DEF OnceAll, SpentInv
    <3>2. CASE receipts[op].body.action = "followup"
      <4>1. scene.screen = "request"  BY <3>2 DEF KeepInv, RequestsFit, Fits
      <4> QED  BY <2>1, <3>1, <3>2, <4>1 DEF Advanced, RequestMoved
    <3>3. CASE receipts[op].body.action # "followup"
      <4>1. item.rev \in Nat /\ item'.rev \in {item.rev, item.rev + 1}  BY <2>1 DEF RowOK, IsRow, Advanced
      <4> QED  BY <3>1, <3>3, <4>1
    <3> QED  BY <3>2, <3>3
  <2>3. OnceInv'  BY <1>1 DEF OnceAll, OnceInv, Unprotected
  <2> QED  BY <2>2, <2>3 DEF OnceAll
<1>2. CASE receipts' # receipts
  <2>1. Process
    BY <1>2 DEF Next, Press, PressUndo, NotSent, Send, Lost, AnswerDone, AnswerRejected, AnswerUnknown,
         StartLoad, ReadLoad, EndLoad, Elsewhere, Leave, Reload, CloseTab, PageGone, Expire, vars, server
  <2>2. PICK r \in wire : IF Landed(r.op) THEN Replays(r) ELSE Serves(r)  BY <2>1 DEF Process
  <2>3. ~Landed(r.op)  BY <1>2, <2>2 DEF Replays, server
  <2>4. ServeAll(r.endpoint, item, r.body, User).code = "OK"  BY <1>2, <2>2, <2>3 DEF Serves, server
  <2> QED  BY <2>2, <2>3, <2>4, OnceServed
<1> QED  BY <1>1, <1>2

-----------------------------------------------------------------------------
(* Ticks: what the user sees of a list is old or true.                      *)

LEMMA TickInit == Init => TickInv
<1> SUFFICES ASSUME Init PROVE TickInv  OBVIOUS
<1>1. item.rev = 1 /\ shown = item  BY DEF Init
<1> QED  BY <1>1 DEF Init, TickInv, SeenOK

LEMMA TicksStay ==
  ASSUME RowOK(item), RowOK(item)', scene.screen = "checklist", Advanced(item, item')
  PROVE  /\ item.rev \in Nat /\ item'.rev \in Nat /\ item.rev <= item'.rev
         /\ item'.rev = item.rev => item'.state.ticked = item.state.ticked
<1>1. item.rev \in Nat /\ item'.rev \in Nat /\ item'.rev \in {item.rev, item.rev + 1}
  BY DEF RowOK, IsRow, Advanced
<1>2. TaskMoved(item, item')  BY DEF Advanced
<1>3. item = [state |-> item.state, rev |-> item.rev] /\ {"status", "ticked"} \subseteq DOMAIN item.state
  BY DEF RowOK, IsRow
<1>4. item'.rev = item.rev => item'.state.ticked = item.state.ticked
  <2>1. CASE item' = [item EXCEPT !.state.status = "cancelled"]
    <3>1. DOMAIN item = {"state", "rev"}  BY <1>3
    <3>2. item'.state = [item.state EXCEPT !.status = "cancelled"]  BY <2>1, <3>1
    <3> QED  BY <1>3, <3>2
  <2>2. CASE item'.rev = item.rev + 1  BY <1>1, <2>2
  <2>3. CASE item' = item  BY <2>3
  <2> QED  BY <1>2, <2>1, <2>2, <2>3 DEF TaskMoved
<1> QED  BY <1>1, <1>4

LEMMA SeenStays ==
  ASSUME RowOK(item), RowOK(item)', scene.screen = "checklist", Advanced(item, item')
  PROVE  /\ \A row : SeenOK(row) => SeenOK(row)'
         /\ \A body : Apt(body) => Apt(body)'
         /\ SeenOK(item) /\ SeenOK(item)'
<1>1. /\ item.rev \in Nat /\ item'.rev \in Nat /\ item.rev <= item'.rev
      /\ item'.rev = item.rev => item'.state.ticked = item.state.ticked
  BY TicksStay
<1>2. ASSUME NEW row, SeenOK(row) PROVE row.rev \in Nat /\ row.rev <= item'.rev
                                        /\ (row.rev = item'.rev => row.state.ticked = item'.state.ticked)
  BY <1>1, <1>2 DEF SeenOK
<1>3. ASSUME NEW body, Apt(body) PROVE body.rev \in Nat /\ body.rev <= item'.rev
                                       /\ (body.rev = item'.rev => (body.action = "tick" <=> body.arg \notin item'.state.ticked))
  BY <1>1, <1>3 DEF Apt
<1>4. SeenOK(item) /\ SeenOK(item)'  BY <1>1 DEF SeenOK
<1> QED  BY <1>2, <1>3, <1>4 DEF SeenOK, Apt

LEMMA TogglesApt ==
  ASSUME SeenOK(shown), NEW c \in handleToggleSubtask(shown, User)
  PROVE  Apt(c.body) /\ Resumed(c) = c
<1>1. c.via = "attempt" /\ c.body.rev = shown.rev /\ (c.body.action = "tick" <=> c.body.arg \notin shown.state.ticked)
  BY DEF handleToggleSubtask, Attempted, Body, When
<1>2. Resumed(c) = c  BY <1>1 DEF Resumed
<1>3. Apt(c.body)  BY <1>1 DEF Apt, SeenOK
<1> QED  BY <1>2, <1>3

\* What is kept and what is sent are commands of before, or apt ones.
LEMMA TickCalls ==
  ASSUME TickInv, RowOK(item), RowOK(item)', Advanced(item, item'), scene' = scene,
         (scene.screen = "checklist" =>
           /\ SeenOK(shown)'
           /\ \A l \in loads' : LoadOK(l)'
           /\ \A k \in DOMAIN attempts' : \/ k \in DOMAIN attempts /\ attempts'[k].body = attempts[k].body
                                          \/ \E call \in calls : attempts'[k].body = call.body
                                          \/ Apt(attempts'[k].body)
           /\ \A call \in calls' : (\E old \in calls : call.body = old.body) \/ Apt(call.body)
           /\ \A r \in wire' : (\E old \in wire : r.body = old.body) \/ (\E call \in calls : r.body = call.body))
  PROVE  TickInv'
<1> SUFFICES ASSUME scene.screen = "checklist"
    PROVE  /\ SeenOK(shown)'
           /\ \A l \in loads' : LoadOK(l)'
           /\ \A k \in DOMAIN attempts' : Apt(attempts[k].body)'
           /\ \A call \in calls' : Apt(call.body)'
           /\ \A r \in wire' : Apt(r.body)'
    BY DEF TickInv
<1>1. \A body : Apt(body) => Apt(body)'  BY SeenStays
<1>2. /\ \A k \in DOMAIN attempts : Apt(attempts[k].body)
      /\ \A call \in calls : Apt(call.body)
      /\ \A r \in wire : Apt(r.body)
  BY DEF TickInv
<1> QED  BY <1>1, <1>2

LEMMA TickPress ==
  ASSUME KeepInv, TickInv, RowOK(item), RowOK(item)', Advanced(item, item'), Press \/ PressUndo
  PROVE  TickInv'
<1>1. scene' = scene /\ item' = item /\ shown' = shown /\ loads' = loads /\ wire' = wire
  BY DEF Press, PressUndo, server, display
<1> SUFFICES ASSUME scene.screen = "checklist" PROVE TickInv'
  BY <1>1 DEF TickInv
<1>2. offer = {}  BY DEF KeepInv, OffersKeep, ShoppingPanels
<1>3. Press  BY <1>2 DEF PressUndo
<1>4. PICK c \in Offered(shown, User) : Begin(Resumed(c), Nobodys)  BY <1>3 DEF Press
<1>5. c \in handleToggleSubtask(shown, User)  BY <1>4 DEF Offered
<1>6. SeenOK(shown)  BY DEF TickInv
<1>7. Apt(c.body) /\ Begin(c, Nobodys)  BY <1>4, <1>5, <1>6, TogglesApt
<1> DEFINE a == prepareCommandAttempt(c)
           new == [n |-> presses + 1, op |-> a.op, key |-> c.key, endpoint |-> a.endpoint,
                   body |-> a.body, asked |-> c.body, via |-> c.via, undo |-> c.undo, undoes |-> Nobodys,
                   sent |-> FALSE, left |-> FALSE, reply |-> WaitingFor]
<1>8. /\ a.body = c.body /\ calls' = calls \union {new}
      /\ attempts' = Keep(c.key, c.via, a)
  BY <1>7, Zenon DEF Begin, Conflicts
<1>9. new.body = c.body  BY <1>8
<1> HIDE DEF a, new
<1>10. \A k \in DOMAIN attempts' : (k \in DOMAIN attempts /\ attempts'[k] = attempts[k]) \/ attempts'[k] = a
  BY <1>8 DEF Keep, With
<1>11. SeenOK(shown)' /\ \A l \in loads' : LoadOK(l)'
  BY <1>1 DEF TickInv, LoadOK, SeenOK
<1>12. \A k \in DOMAIN attempts' : (k \in DOMAIN attempts /\ attempts'[k].body = attempts[k].body) \/ Apt(attempts'[k].body)
  BY <1>7, <1>8, <1>10
<1>13. \A call \in calls' : (\E old \in calls : call.body = old.body) \/ Apt(call.body)
  BY <1>7, <1>8, <1>9
<1> QED  BY <1>1, <1>11, <1>12, <1>13, TickCalls

\* The kept attempts are the old ones and those of the calls that have ended.
LEMMA TickSettled ==
  ASSUME CallInv, KeepInv, TickInv, RowOK(item), RowOK(item)', Advanced(item, item'),
         NotSent \/ Lost \/ AnswerDone \/ AnswerRejected \/ AnswerUnknown
  PROVE  TickInv'
<1>1. scene' = scene /\ item' = item /\ shown' = shown
  BY DEF NotSent, Lost, AnswerDone, AnswerRejected, AnswerUnknown, server, display
<1>2. PICK call \in calls : /\ calls' = calls \ {call}
                            /\ attempts' = Drop(call) \/ attempts' = Keep(call.key, call.via, AttemptOf(call))
                            /\ wire' = wire \/ wire' = Orphaned(wire, {call.n})
  BY DEF NotSent, Lost, AnswerDone, AnswerRejected, AnswerUnknown
<1>3. loads' = loads \/ loads' = loads \union {NextLoad}
  BY DEF NotSent, Lost, AnswerDone, AnswerRejected, AnswerUnknown, display
<1>4. \A k \in DOMAIN attempts' : (k \in DOMAIN attempts /\ attempts'[k].body = attempts[k].body)
                                  \/ attempts'[k].body = call.body
  BY <1>2 DEF Drop, Keep, With, Without, AttemptOf
<1>5. \A r \in wire' : \E old \in wire : r.body = old.body
  BY <1>2, OrphansFit
<1>6. scene.screen = "checklist" => SeenOK(shown)' /\ \A l \in loads' : LoadOK(l)'
  <2>1. NextLoad = [n |-> NextLoad.n, read |-> NextLoad.read, row |-> NextLoad.row] /\ NextLoad.row = shown
    BY DEF NextLoad
  <2> HIDE DEF NextLoad
  <2> QED  BY <1>1, <1>3, <2>1 DEF TickInv, LoadOK, SeenOK
<1> QED  BY <1>1, <1>2, <1>4, <1>5, <1>6, TickCalls

LEMMA TickRuns ==
  ASSUME CallInv, KeepInv, TickInv, RowOK(item), RowOK(item)', Advanced(item, item'), Send \/ Process \/ Leave
  PROVE  TickInv'
<1>1. scene' = scene /\ UNCHANGED <<shown, loads, attempts>>
  BY DEF Send, Process, Leave, display
<1>2. \A call \in calls : IsCall(call)  BY DEF CallInv, CallsOK
<1>3. \A call \in calls' : \E old \in calls : call.body = old.body
  <2>1. CASE Send
    <3>1. PICK one \in calls : calls' = (calls \ {one}) \union {[one EXCEPT !.sent = TRUE]}  BY <2>1 DEF Send
    <3>2. \A call : call = [one EXCEPT !.sent = TRUE] => call.body = one.body  BY <1>2, CallMarked
    <3> QED  BY <3>1, <3>2
  <2>2. CASE Process
    <3>1. PICK r, reply : calls' = Answered(r, reply)  BY <2>2, Zenon DEF Process, Replays, Serves
    <3>2. \A old \in calls : \A call : call = [old EXCEPT !.reply = reply] => call.body = old.body
      BY <1>2 DEF IsCall
    <3> QED  BY <3>1, <3>2 DEF Answered
  <2>3. CASE Leave
    <3>1. \A call \in calls' : \E old \in calls : call = old \/ call = [old EXCEPT !.left = TRUE]  BY <2>3 DEF Leave
    <3> QED  BY <1>2, <3>1, CallMarked
  <2> QED  BY <2>1, <2>2, <2>3
<1>4. \A r \in wire' : (\E old \in wire : r.body = old.body) \/ (\E call \in calls : r.body = call.body)
  <2>1. CASE Send
    <3>1. PICK one \in calls : wire' = wire \union {[call |-> one.n, op |-> one.op, endpoint |-> one.endpoint,
                                   body |-> one.body, undoes |-> one.undoes]}
      BY <2>1 DEF Send
    <3> QED  BY <3>1
  <2>2. CASE Process \/ Leave  BY <2>2 DEF Process, Leave
  <2> QED  BY <2>1, <2>2
<1>5. scene.screen = "checklist" => SeenOK(shown)' /\ \A l \in loads' : LoadOK(l)'
  <2> SUFFICES ASSUME scene.screen = "checklist" PROVE SeenOK(shown)' /\ \A l \in loads' : LoadOK(l)'  OBVIOUS
  <2>1. \A row : SeenOK(row) => SeenOK(row)'  BY SeenStays
  <2> QED  BY <1>1, <2>1 DEF TickInv, LoadOK, SeenOK
<1>6. \A k \in DOMAIN attempts' : k \in DOMAIN attempts /\ attempts'[k].body = attempts[k].body
  BY <1>1
<1> QED  BY <1>1, <1>3, <1>4, <1>5, <1>6, TickCalls

LEMMA TickShown ==
  ASSUME CallInv, KeepInv, TickInv, RowOK(item), RowOK(item)', Advanced(item, item'),
         Elsewhere \/ StartLoad \/ ReadLoad \/ EndLoad \/ Reload \/ CloseTab \/ Expire \/ UNCHANGED vars
  PROVE  TickInv'
<1>1. scene' = scene
  BY DEF Elsewhere, StartLoad, ReadLoad, EndLoad, Reload, CloseTab, PageGone, Expire, vars
<1>2. calls' \subseteq calls
  BY DEF Elsewhere, StartLoad, ReadLoad, EndLoad, Reload, CloseTab, PageGone, Expire, vars
<1>3. wire' = wire \/ \E gone : wire' = Orphaned(wire, gone)
  BY Zenon DEF Elsewhere, StartLoad, ReadLoad, EndLoad, Reload, CloseTab, PageGone, Expire, vars
<1>4. \A r \in wire' : \E old \in wire : r.body = old.body
  BY <1>3, OrphansFit
<1>5. \A k \in DOMAIN attempts' : k \in DOMAIN attempts /\ attempts'[k].body = attempts[k].body
  <2>1. CASE attempts' \in {attempts, <<>>}  BY <2>1
  <2>2. CASE Expire
    <3>1. PICK k \in DOMAIN attempts : attempts' = [attempts EXCEPT ![k].expired = TRUE]  BY <2>2 DEF Expire
    <3>2. DOMAIN attempts' = DOMAIN attempts
          /\ \A j \in DOMAIN attempts : attempts'[j] = attempts[j] \/ attempts'[j] = [attempts[j] EXCEPT !.expired = TRUE]
      BY <3>1
    <3> QED  BY <3>2, AttemptSet DEF KeepInv, AttemptsKeep
  <2>3. CASE Reload \/ CloseTab
    <3>1. PICK kept, keptForms, seen : PageGone(kept, keptForms, seen) /\ kept \in {attempts, <<>>}
      BY <2>3, Zenon DEF Reload, CloseTab
    <3> QED  BY <2>1, <3>1 DEF PageGone
  <2>4. CASE Elsewhere \/ StartLoad \/ ReadLoad \/ EndLoad \/ UNCHANGED vars
    BY <2>1, <2>4 DEF Elsewhere, StartLoad, ReadLoad, EndLoad, vars
  <2> QED  BY <2>2, <2>3, <2>4
<1>6. scene.screen = "checklist" => SeenOK(shown)' /\ \A l \in loads' : LoadOK(l)'
  <2> SUFFICES ASSUME scene.screen = "checklist" PROVE SeenOK(shown)' /\ \A l \in loads' : LoadOK(l)'  OBVIOUS
  <2>1. (\A row : SeenOK(row) => SeenOK(row)') /\ SeenOK(item) /\ SeenOK(item)'  BY SeenStays
  <2>2. SeenOK(shown) /\ \A l \in loads : LoadOK(l)  BY DEF TickInv
  <2>3. CASE Elsewhere \/ Expire \/ UNCHANGED vars
    <3>1. shown' = shown /\ loads' = loads  BY <2>3 DEF Elsewhere, Expire, vars, display
    <3> QED  BY <2>1, <2>2, <3>1 DEF LoadOK, SeenOK
  <2>4. CASE StartLoad
    <3>1. shown' = shown /\ item' = item /\ loads' = loads \union {NextLoad}
      BY <2>4 DEF StartLoad, server
    <3>2. NextLoad = [n |-> NextLoad.n, read |-> NextLoad.read, row |-> NextLoad.row] /\ NextLoad.row = shown
      BY DEF NextLoad
    <3> HIDE DEF NextLoad
    <3> QED  BY <2>2, <3>1, <3>2 DEF LoadOK, SeenOK
  <2>5. CASE ReadLoad
    <3>1. shown' = shown /\ item' = item  BY <2>5 DEF ReadLoad, server
    <3>2. PICK l \in loads : loads' = (loads \ {l}) \union {[l EXCEPT !.read = TRUE, !.row = item]}
      BY <2>5 DEF ReadLoad
    <3>3. \A m \in loads' : m \in loads \/ m = [l EXCEPT !.read = TRUE, !.row = item]  BY <3>2
    <3>4. LoadOK(l)  BY <2>2, <3>2
    <3>5. ASSUME NEW m, m = [l EXCEPT !.read = TRUE, !.row = item]
          PROVE  m = [n |-> m.n, read |-> m.read, row |-> m.row] /\ m.row = item
      <4>1. l = [n |-> l.n, read |-> l.read, row |-> l.row]  BY <3>4 DEF LoadOK
      <4>2. m = [n |-> l.n, read |-> TRUE, row |-> item]  BY <3>5, <4>1
      <4> QED  BY <4>2
    <3> QED  BY <2>1, <2>2, <3>1, <3>3, <3>5 DEF LoadOK, SeenOK
  <2>6. CASE EndLoad
    <3>1. item' = item /\ loads' \subseteq loads /\ (shown' = shown \/ \E l \in loads : shown' = l.row)
      BY <2>6 DEF EndLoad, server
    <3> QED  BY <2>2, <3>1 DEF LoadOK, SeenOK
  <2>7. CASE Reload \/ CloseTab
    <3>1. PICK kept, keptForms : PageGone(kept, keptForms, item)
      BY <2>7, Zenon DEF Reload, CloseTab, InConcierge
    <3>2. shown' = item /\ loads' = {} /\ item' = item  BY <3>1 DEF PageGone, server
    <3> QED  BY <2>1, <3>2 DEF LoadOK, SeenOK
  <2> QED  BY <2>3, <2>4, <2>5, <2>6, <2>7
<1> QED  BY <1>1, <1>2, <1>4, <1>5, <1>6, TickCalls

LEMMA TickStep ==
  ASSUME CallInv, KeepInv, TickInv, RowOK(item), [Next]_vars
  PROVE  TickInv'
BY RowStep, TickPress, TickSettled, TickRuns, TickShown DEF Next

RepeatInv == CallInv /\ KeepInv /\ DoubtInv /\ RowOK(item) /\ TickInv /\ OnceAll

LEMMA RepeatInit == Init => RepeatInv
<1> SUFFICES ASSUME Init PROVE RepeatInv  OBVIOUS
<1>1. OnceAll  BY DEF Init, OnceAll, SpentInv, OnceInv
<1> QED  BY <1>1, CallInit, KeepInit, RowInit, TickInit DEF RepeatInv

LEMMA RepeatStep == RepeatInv /\ [Next]_vars => RepeatInv'
<1> SUFFICES ASSUME RepeatInv, [Next]_vars PROVE RepeatInv'  OBVIOUS
<1>1. CallInv'  BY CallStep DEF RepeatInv
<1>2. KeepInv' /\ DoubtInv'  BY KeepStep DEF RepeatInv
<1>3. RowOK(item)'  BY RowStep DEF RepeatInv
<1>4. TickInv'  BY TickStep DEF RepeatInv
<1>5. OnceAll'  BY OnceStep DEF RepeatInv
<1> QED  BY <1>1, <1>2, <1>3, <1>4, <1>5 DEF RepeatInv

\* What a user asks again for, not knowing what came of the first press, takes
\* effect at most once, on any screen and however the answers, reloads and the
\* partner's commands fall: twice only if the client has lost the operation of a
\* command that no revision protects.
THEOREM WishIsGrantedOnce == Spec => []SameWishOnce
<1>1. RepeatInv => SameWishOnce
  BY DEF RepeatInv, DoubtInv, Recovered, OnceAll, OnceInv, SameWishOnce, TookEffectTwice, Landed
<1> QED  BY RepeatInit, RepeatStep, <1>1, PTL DEF Spec

-----------------------------------------------------------------------------
(* Undos.                                                                   *)

LEMMA AuthorKept ==
  ASSUME [Next]_vars
  PROVE  /\ scene' = scene
         /\ item' = item => author' = author
         /\ receipts' = receipts \/ (\E r \in wire : ~Landed(r.op) /\ Serves(r) /\ ServeAll(r.endpoint, item, r.body, User).code = "OK")
<1>1. scene' = scene
  BY DEF Next, Press, PressUndo, NotSent, Send, Lost, AnswerDone, AnswerRejected, AnswerUnknown, Process, Elsewhere,
         StartLoad, ReadLoad, EndLoad, Leave, Reload, CloseTab, PageGone, Expire, vars
<1>2. CASE Process
  <2>1. PICK r \in wire : IF Landed(r.op) THEN Replays(r) ELSE Serves(r)  BY <1>2 DEF Process
  <2>2. CASE Landed(r.op)  BY <1>1, <2>1, <2>2 DEF Replays, server
  <2>3. CASE ~Landed(r.op) /\ ServeAll(r.endpoint, item, r.body, User).code = "OK"
    <3>1. Serves(r)  BY <2>1, <2>3
    <3>2. item' = item => author' = author  BY <2>3, <3>1 DEF Serves
    <3> QED  BY <1>1, <2>3, <3>1, <3>2
  <2>4. CASE ~Landed(r.op) /\ ServeAll(r.endpoint, item, r.body, User).code # "OK"
    <3>1. Serves(r)  BY <2>1, <2>4
    <3> QED  BY <1>1, <2>4, <3>1 DEF Serves, server
  <2> QED  BY <2>2, <2>3, <2>4
<1>3. CASE Elsewhere
  BY <1>1, <1>3 DEF Elsewhere
<1>4. CASE ~Process /\ ~Elsewhere
  <2>1. author' = author /\ receipts' = receipts
    BY <1>4 DEF Next, Press, PressUndo, NotSent, Send, Lost, AnswerDone, AnswerRejected, AnswerUnknown,
         StartLoad, ReadLoad, EndLoad, Leave, Reload, CloseTab, PageGone, Expire, vars, server
  <2> QED  BY <1>1, <2>1
<1> QED  BY <1>2, <1>3, <1>4

\* What was recorded at a revision stays what the row is at while it is at that revision.
LEMMA RecordsStay ==
  ASSUME RowOK(item), RowOK(item)', RecordInv, scene.screen = "row", Advanced(item, item'), item' = item => author' = author,
         NEW op \in DOMAIN receipts, IsRecord(receipts[op])
  PROVE  /\ receipts[op].reply.rev \in Nat \ {0}
         /\ receipts[op].reply.rev <= item'.rev
         /\ receipts[op].reply.rev = item'.rev => author' = op /\ item'.state.status # "todo"
<1>1. /\ receipts[op].reply.rev \in Nat \ {0}
      /\ receipts[op].reply.rev <= item.rev
      /\ receipts[op].reply.rev = item.rev => author = op /\ item.state.status # "todo"
  BY DEF RecordInv
<1>2. item.rev \in Nat /\ TaskMoved(item, item')  BY DEF RowOK, IsRow, Advanced
<1>3. CASE item' = item  BY <1>1, <1>3
<1>4. CASE item'.rev = item.rev + 1  BY <1>1, <1>2, <1>4
<1>5. CASE item.state.status = "todo" /\ item' = [item EXCEPT !.state.status = "cancelled"]
  <2>1. item = [state |-> item.state, rev |-> item.rev]  BY DEF RowOK, IsRow
  <2>2. item'.rev = item.rev  BY <1>5, <2>1
  <2> QED  BY <1>1, <1>2, <1>5, <2>2
<1> QED  BY <1>2, <1>3, <1>4, <1>5 DEF TaskMoved

LEMMA RecordStep ==
  ASSUME RepeatInv, RecordInv, [Next]_vars
  PROVE  RecordInv'
<1>0. KeepInv /\ RowOK(item) /\ RowOK(item)' /\ Advanced(item, item')  BY RowStep DEF RepeatInv
<1>1. scene' = scene /\ (item' = item => author' = author)  BY AuthorKept
<1> SUFFICES ASSUME scene.screen = "row", NEW op \in DOMAIN receipts', IsRecord(receipts'[op])
    PROVE  /\ receipts'[op].reply.rev \in Nat \ {0}
           /\ receipts'[op].reply.rev <= item'.rev
           /\ receipts'[op].reply.rev = item'.rev => author' = op /\ item'.state.status # "todo"
    BY <1>1 DEF RecordInv
<1>2. CASE op \in DOMAIN receipts /\ receipts'[op] = receipts[op]
  BY <1>0, <1>1, <1>2, RecordsStay
<1>3. CASE ~(op \in DOMAIN receipts /\ receipts'[op] = receipts[op])
  <2>1. PICK r \in wire : ~Landed(r.op) /\ Serves(r) /\ ServeAll(r.endpoint, item, r.body, User).code = "OK"
    BY <1>3, AuthorKept
  <2> DEFINE next == ServeAll(r.endpoint, item, r.body, User).item
             receipt == [endpoint |-> r.endpoint, body |-> r.body,
                         reply |-> [code |-> ServeAll(r.endpoint, item, r.body, User).code, rev |-> next.rev],
                         from |-> item.rev]
  <2>2. item' = next /\ receipts' = With(receipts, r.op, receipt) /\ (item' # item => author' = r.op)
    BY <2>1 DEF Serves
  <2>3. receipt.endpoint = r.endpoint /\ receipt.body = r.body /\ receipt.reply.rev = next.rev  OBVIOUS
  <2>4. op = r.op /\ receipts'[op] = receipt
    <3> HIDE DEF receipt
    <3> QED  BY <1>3, <2>2 DEF With
  <2>5. r.endpoint = "complete-task" /\ r.body.action \in {"complete", "could_not_do"}
    BY <2>3, <2>4 DEF IsRecord
  <2>6. next.rev = item.rev + 1 /\ next.state.status # "todo"
    BY <1>0, <2>1, <2>5, RecordCloses DEF RowOK
  <2> HIDE DEF next, receipt
  <2>7. item.rev \in Nat  BY <1>0 DEF RowOK, IsRow
  <2>8. item' # item  BY <2>2, <2>6, <2>7
  <2> QED  BY <2>2, <2>3, <2>4, <2>6, <2>7, <2>8
<1> QED  BY <1>2, <1>3

LEMMA ReceiptsGrow ==
  ASSUME [Next]_vars
  PROVE  \A op, rev : UndoOf(op, rev) => UndoOf(op, rev)'
<1>1. \A op \in DOMAIN receipts : op \in DOMAIN receipts' /\ receipts'[op] = receipts[op]
  <2>1. CASE receipts' = receipts  BY <2>1
  <2>2. CASE receipts' # receipts
    <3>1. PICK r \in wire : ~Landed(r.op) /\ Serves(r) /\ ServeAll(r.endpoint, item, r.body, User).code = "OK"
      BY <2>2, AuthorKept
    <3>2. \E receipt : receipts' = With(receipts, r.op, receipt)  BY <3>1, Zenon DEF Serves
    <3> QED  BY <3>1, <3>2 DEF With, Landed
  <2> QED  BY <2>1, <2>2
<1> QED  BY <1>1 DEF UndoOf

\* An undo is sent under the key of the record it undoes.
LEMMA UndoPressed ==
  ASSUME KeepInv, UndoInv, scene.screen \notin ShoppingPanels, NEW o \in offer, NEW c \in UndoCommands(o)
  PROVE  /\ scene.screen = "row" /\ UndoKey(c.key) /\ c.body.rev = o.rev /\ UndoOf(o.op, o.rev)
<1>1. scene.screen = "row" /\ o.undo \in {"reopen", "could_not_do_undo"}
  BY DEF KeepInv, OffersKeep
<1>2. UndoKey(c.key) /\ c.body.rev = o.rev
  BY <1>1 DEF UndoCommands, Attempted, Body, UndoKey
<1> QED  BY <1>1, <1>2 DEF UndoInv

\* The calls and the requests are those of before, and the new offer is of a record.
LEMMA UndoKept ==
  ASSUME UndoInv, scene' = scene, [Next]_vars,
         scene.screen \notin ShoppingPanels =>
           /\ \A o \in offer' : o \in offer \/ UndoOf(o.op, o.rev)
           /\ \A call \in calls' : call.undoes # Nobodys =>
                 \/ \E old \in calls : call.undoes = old.undoes /\ call.key = old.key /\ call.body = old.body
                 \/ scene.screen = "row" /\ UndoKey(call.key) /\ UndoOf(call.undoes, call.body.rev)
           /\ \A r \in wire' : r.undoes # Nobodys =>
                 \/ \E old \in wire : r.undoes = old.undoes /\ r.body = old.body
                 \/ \E call \in calls : r.undoes = call.undoes /\ r.body = call.body
  PROVE  UndoInv'
<1> SUFFICES ASSUME scene.screen \notin ShoppingPanels
    PROVE  /\ \A o \in offer' : UndoOf(o.op, o.rev)'
           /\ \A call \in calls' : call.undoes # Nobodys =>
                 scene.screen = "row" /\ UndoKey(call.key) /\ UndoOf(call.undoes, call.body.rev)'
           /\ \A r \in wire' : r.undoes # Nobodys => scene.screen = "row" /\ UndoOf(r.undoes, r.body.rev)'
    BY DEF UndoInv
<1>1. \A op, rev : UndoOf(op, rev) => UndoOf(op, rev)'  BY ReceiptsGrow
<1>2. /\ \A o \in offer : UndoOf(o.op, o.rev)
      /\ \A call \in calls : call.undoes # Nobodys => scene.screen = "row" /\ UndoKey(call.key) /\ UndoOf(call.undoes, call.body.rev)
      /\ \A r \in wire : r.undoes # Nobodys => scene.screen = "row" /\ UndoOf(r.undoes, r.body.rev)
  BY DEF UndoInv
<1> QED  BY <1>1, <1>2

LEMMA UndoStep ==
  ASSUME CallInv, KeepInv, UndoInv, [Next]_vars
  PROVE  UndoInv'
<1>0. scene' = scene  BY AuthorKept
<1>a. \A call \in calls : IsCall(call)  BY DEF CallInv, CallsOK
<1>1. CASE Press
  <2>1. offer' = offer /\ wire' = wire  BY <1>1 DEF Press
  <2>2. PICK c : Begin(c, Nobodys)  BY <1>1 DEF Press
  <2>3. PICK a, n, b, v, u, w : calls' = calls \union {[n |-> n, op |-> a.op, key |-> c.key, endpoint |-> a.endpoint,
                 body |-> a.body, asked |-> b, via |-> v, undo |-> u, undoes |-> Nobodys,
                 sent |-> FALSE, left |-> FALSE, reply |-> w]}
    BY <2>2, Zenon DEF Begin
  <2> QED  BY <1>0, <2>1, <2>3, UndoKept
<1>2. CASE PressUndo
  <2>1. offer' = offer /\ wire' = wire  BY <1>2 DEF PressUndo
  <2>2. PICK o \in offer : \E c \in UndoCommands(o) : Begin(c, o.op)  BY <1>2 DEF PressUndo
  <2>3. PICK c \in UndoCommands(o) : Begin(c, o.op)  BY <2>2
  <2> DEFINE a == prepareCommandAttempt(c)
             new == [n |-> presses + 1, op |-> a.op, key |-> c.key, endpoint |-> a.endpoint,
                     body |-> a.body, asked |-> c.body, via |-> c.via, undo |-> c.undo, undoes |-> o.op,
                     sent |-> FALSE, left |-> FALSE, reply |-> WaitingFor]
  <2>4. calls' = calls \union {new} /\ a.body = c.body  BY <2>3, Zenon DEF Begin, Conflicts
  <2>5. new.key = c.key /\ new.body = c.body /\ new.undoes = o.op  BY <2>4
  <2> HIDE DEF a, new
  <2>6. scene.screen \notin ShoppingPanels => scene.screen = "row" /\ UndoKey(new.key) /\ UndoOf(new.undoes, new.body.rev)
    BY <2>5, UndoPressed
  <2> QED  BY <1>0, <2>1, <2>4, <2>6, UndoKept
<1>3. CASE AnswerDone
  <2>1. wire' = wire  BY <1>3 DEF AnswerDone
  <2>2. PICK call \in calls : /\ Outcome(call.reply.code) = "done" /\ calls' = calls \ {call}
                              /\ offer' \in {{}, OfferOf(call)}
    BY <1>3 DEF AnswerDone
  <2>3. scene.screen \notin ShoppingPanels => \A o \in OfferOf(call) : o \in offer \/ UndoOf(o.op, o.rev)
    <3> SUFFICES ASSUME scene.screen \notin ShoppingPanels, call.undo # None, NEW o, o = [op |-> call.op, undo |-> call.undo, rev |-> call.reply.rev]
        PROVE  UndoOf(o.op, o.rev)
        BY DEF OfferOf
    <3>1. call.endpoint = "complete-task" /\ call.body.action \in {"complete", "could_not_do"}
      BY DEF KeepInv, CallsKeep, Undoable
    <3>2. /\ call.op \in DOMAIN receipts /\ receipts[call.op].endpoint = call.endpoint
          /\ receipts[call.op].body = call.body /\ receipts[call.op].reply = call.reply
      BY <2>2, OutcomeDone DEF CallInv, RepliesOK, Landed
    <3> QED  BY <3>1, <3>2 DEF UndoOf, IsRecord
  <2> QED  BY <1>0, <2>1, <2>2, <2>3, UndoKept
<1>4. CASE NotSent \/ Lost \/ AnswerRejected \/ AnswerUnknown
  <2>1. calls' \subseteq calls /\ offer' = offer  BY <1>4 DEF NotSent, Lost, AnswerRejected, AnswerUnknown
  <2>2. wire' = wire \/ \E gone : wire' = Orphaned(wire, gone)
    BY <1>4 DEF NotSent, Lost, AnswerRejected, AnswerUnknown
  <2>3. \A r \in wire' : \E old \in wire : r.undoes = old.undoes /\ r.body = old.body
    BY <2>2, OrphansFit
  <2> QED  BY <1>0, <2>1, <2>3, UndoKept
<1>5. CASE Send
  <2>1. PICK call \in calls :
         /\ calls' = (calls \ {call}) \union {[call EXCEPT !.sent = TRUE]}
         /\ wire' = wire \union {[call |-> call.n, op |-> call.op, endpoint |-> call.endpoint,
                                  body |-> call.body, undoes |-> call.undoes]}
    BY <1>5 DEF Send
  <2>2. ASSUME NEW sent, sent = [call EXCEPT !.sent = TRUE]
        PROVE  sent.undoes = call.undoes /\ sent.key = call.key /\ sent.body = call.body
    BY <1>a, <2>2 DEF IsCall
  <2>3. \A c \in calls' : \E old \in calls : c.undoes = old.undoes /\ c.key = old.key /\ c.body = old.body
    BY <2>1, <2>2
  <2>4. \A r \in wire' : r \in wire \/ (r.undoes = call.undoes /\ r.body = call.body)
    BY <2>1
  <2>5. offer' = offer  BY <1>5 DEF Send
  <2> QED  BY <1>0, <2>3, <2>4, <2>5, UndoKept
<1>6. CASE Process
  <2>1. PICK r, reply : calls' = Answered(r, reply)  BY <1>6, Zenon DEF Process, Replays, Serves
  <2>2. ASSUME NEW old \in calls, NEW call, call = [old EXCEPT !.reply = reply]
        PROVE  call.undoes = old.undoes /\ call.key = old.key /\ call.body = old.body
    BY <1>a, <2>2 DEF IsCall
  <2>3. \A c \in calls' : \E old \in calls : c.undoes = old.undoes /\ c.key = old.key /\ c.body = old.body
    BY <2>1, <2>2 DEF Answered
  <2>4. wire' \subseteq wire /\ offer' = offer  BY <1>6 DEF Process
  <2> QED  BY <1>0, <2>3, <2>4, UndoKept
<1>7. CASE Leave
  <2>1. \A call \in calls' : \E old \in calls : call = old \/ call = [old EXCEPT !.left = TRUE]  BY <1>7 DEF Leave
  <2>2. ASSUME NEW old \in calls, NEW call, call = [old EXCEPT !.left = TRUE]
        PROVE  call.undoes = old.undoes /\ call.key = old.key /\ call.body = old.body
    BY <1>a, <2>2 DEF IsCall
  <2>3. \A c \in calls' : \E old \in calls : c.undoes = old.undoes /\ c.key = old.key /\ c.body = old.body
    BY <2>1, <2>2
  <2>4. wire' = wire /\ offer' = offer  BY <1>7 DEF Leave
  <2> QED  BY <1>0, <2>3, <2>4, UndoKept
<1>8. CASE Reload \/ CloseTab
  <2>1. PICK kept, keptForms, seen : PageGone(kept, keptForms, seen)
    BY <1>8, Zenon DEF Reload, CloseTab
  <2>2. calls' = {} /\ offer' = {} /\ wire' = Orphaned(wire, {call.n : call \in calls})
    BY <2>1 DEF PageGone
  <2>3. \A r \in wire' : \E old \in wire : r.undoes = old.undoes /\ r.body = old.body
    BY <2>2, OrphansFit
  <2> QED  BY <1>0, <2>2, <2>3, UndoKept
<1>9. CASE Elsewhere \/ StartLoad \/ ReadLoad \/ EndLoad \/ Expire \/ UNCHANGED vars
  <2>1. UNCHANGED <<offer, calls, wire>>  BY <1>9 DEF Elsewhere, StartLoad, ReadLoad, EndLoad, Expire, vars
  <2> QED  BY <1>0, <2>1, UndoKept
<1> QED  BY <1>1, <1>2, <1>3, <1>4, <1>5, <1>6, <1>7, <1>8, <1>9 DEF Next

\* Where what is kept, under way and sent comes from, unless a button is pressed.
SameCommand(a, b) == a.op = b.op /\ a.endpoint = b.endpoint /\ a.body = b.body

Flows ==
    /\ scene' = scene /\ presses' = presses
    /\ \A k \in DOMAIN attempts' : \/ k \in DOMAIN attempts /\ SameCommand(attempts'[k], attempts[k])
                                   \/ \E call \in calls : call.via \notin Unkept /\ call.key = k /\ SameCommand(attempts'[k], call)
    /\ \A k \in DOMAIN forms' : k \in DOMAIN forms /\ forms'[k].op = forms[k].op
    /\ \A call \in calls' : \E old \in calls : SameCommand(call, old) /\ call.n = old.n /\ call.key = old.key /\ call.via = old.via /\ call.undoes = old.undoes
    /\ \A r \in wire' :
          \/ \E old \in wire : SameCommand(r, old) /\ r.undoes = old.undoes
          \/ \E call \in calls : SameCommand(r, call) /\ r.undoes = call.undoes

LEMMA StepsFlow ==
  ASSUME CallInv, KeepInv, [Next]_vars, ~Press, ~PressUndo
  PROVE  Flows
<1> USE DEF SameCommand
<1>0. scene' = scene  BY AuthorKept
<1>a. \A call \in calls : IsCall(call)  BY DEF CallInv, CallsOK
<1>1. CASE NotSent \/ Lost \/ AnswerDone \/ AnswerRejected \/ AnswerUnknown
  <2>1. PICK call \in calls : /\ calls' = calls \ {call}
                              /\ attempts' = Drop(call) \/ attempts' = Keep(call.key, call.via, AttemptOf(call))
                              /\ wire' = wire \/ wire' = Orphaned(wire, {call.n})
                              /\ forms' = forms \/ (call.via = "own" /\ forms' = [forms EXCEPT ![call.key].saved = TRUE])
    BY <1>1 DEF NotSent, Lost, AnswerDone, AnswerRejected, AnswerUnknown, display
  <2>2. presses' = presses  BY <1>1 DEF NotSent, Lost, AnswerDone, AnswerRejected, AnswerUnknown, counters
  <2>3. \A k \in DOMAIN attempts' : (k \in DOMAIN attempts /\ SameCommand(attempts'[k], attempts[k]))
                                    \/ (call.via \notin Unkept /\ call.key = k /\ SameCommand(attempts'[k], call))
    BY <2>1 DEF Drop, Keep, With, Without, AttemptOf
  <2>4. \A k \in DOMAIN forms' : k \in DOMAIN forms /\ forms'[k].op = forms[k].op
    <3>1. \A k \in DOMAIN forms' : k \in DOMAIN forms /\ (forms'[k] = forms[k] \/ forms'[k] = [forms[k] EXCEPT !.saved = TRUE])
      BY <2>1
    <3> QED  BY <3>1, FormSet DEF KeepInv, FormsKeep
  <2>5. \A r \in wire' : \E old \in wire : SameCommand(r, old) /\ r.undoes = old.undoes
    BY <2>1, OrphansFit
  <2> QED  BY <1>0, <2>1, <2>2, <2>3, <2>4, <2>5 DEF Flows
<1>2. CASE Send
  <2>1. PICK call \in calls :
         /\ calls' = (calls \ {call}) \union {[call EXCEPT !.sent = TRUE]}
         /\ wire' = wire \union {[call |-> call.n, op |-> call.op, endpoint |-> call.endpoint,
                                  body |-> call.body, undoes |-> call.undoes]}
    BY <1>2 DEF Send
  <2>2. ASSUME NEW sent, sent = [call EXCEPT !.sent = TRUE]
        PROVE  SameCommand(sent, call) /\ sent.n = call.n /\ sent.key = call.key /\ sent.via = call.via /\ sent.undoes = call.undoes
    BY <1>a, <2>2 DEF IsCall
  <2>3. \A c \in calls' : \E old \in calls : SameCommand(c, old) /\ c.n = old.n /\ c.key = old.key /\ c.via = old.via /\ c.undoes = old.undoes
    BY <2>1, <2>2
  <2>4. \A r \in wire' : r \in wire \/ (SameCommand(r, call) /\ r.undoes = call.undoes)
    BY <2>1
  <2>5. UNCHANGED <<attempts, forms, presses>>  BY <1>2 DEF Send, counters
  <2> QED  BY <1>0, <2>3, <2>4, <2>5 DEF Flows
<1>3. CASE Process
  <2>1. PICK r, reply : calls' = Answered(r, reply)  BY <1>3, Zenon DEF Process, Replays, Serves
  <2>2. ASSUME NEW old \in calls, NEW call, call = [old EXCEPT !.reply = reply]
        PROVE  SameCommand(call, old) /\ call.n = old.n /\ call.key = old.key /\ call.via = old.via /\ call.undoes = old.undoes
    BY <1>a, <2>2 DEF IsCall
  <2>3. \A c \in calls' : \E old \in calls : SameCommand(c, old) /\ c.n = old.n /\ c.key = old.key /\ c.via = old.via /\ c.undoes = old.undoes
    BY <2>1, <2>2 DEF Answered
  <2>4. wire' \subseteq wire /\ UNCHANGED <<attempts, forms, presses>>  BY <1>3 DEF Process, counters
  <2> QED  BY <1>0, <2>3, <2>4 DEF Flows
<1>4. CASE Leave
  <2>1. \A call \in calls' : \E old \in calls : call = old \/ call = [old EXCEPT !.left = TRUE]  BY <1>4 DEF Leave
  <2>2. ASSUME NEW old \in calls, NEW call, call = [old EXCEPT !.left = TRUE]
        PROVE  SameCommand(call, old) /\ call.n = old.n /\ call.key = old.key /\ call.via = old.via /\ call.undoes = old.undoes
    BY <1>a, <2>2 DEF IsCall
  <2>3. \A c \in calls' : \E old \in calls : SameCommand(c, old) /\ c.n = old.n /\ c.key = old.key /\ c.via = old.via /\ c.undoes = old.undoes
    BY <2>1, <2>2
  <2>4. UNCHANGED <<wire, attempts, forms, presses>>  BY <1>4 DEF Leave, counters
  <2> QED  BY <1>0, <2>3, <2>4 DEF Flows
<1>5. CASE Reload \/ CloseTab
  <2>1. PICK kept, keptForms, seen : /\ PageGone(kept, keptForms, seen)
                                     /\ kept \in {attempts, <<>>}
                                     /\ IF InConcierge
                                        THEN keptForms = [k \in DOMAIN forms |-> [forms[k] EXCEPT !.locked = {}, !.saved = FALSE]]
                                        ELSE keptForms = <<>>
    BY <1>5, Zenon DEF Reload, CloseTab
  <2>2. /\ calls' = {} /\ wire' = Orphaned(wire, {call.n : call \in calls}) /\ presses' = presses
        /\ attempts' \in {attempts, <<>>} /\ forms' = keptForms
    BY <2>1 DEF PageGone
  <2>3. \A r \in wire' : \E old \in wire : SameCommand(r, old) /\ r.undoes = old.undoes
    BY <2>2, OrphansFit
  <2>4. \A k \in DOMAIN forms' : k \in DOMAIN forms /\ forms'[k].op = forms[k].op
    <3>1. CASE InConcierge
      <4>1. \A k \in DOMAIN forms' : k \in DOMAIN forms /\ forms'[k] = [forms[k] EXCEPT !.locked = {}, !.saved = FALSE]
        BY <2>1, <2>2, <3>1
      <4> QED  BY <4>1, FormSet DEF KeepInv, FormsKeep
    <3>2. CASE ~InConcierge  BY <2>1, <2>2, <3>2
    <3> QED  BY <3>1, <3>2
  <2>5. \A k \in DOMAIN attempts' : k \in DOMAIN attempts /\ SameCommand(attempts'[k], attempts[k])
    BY <2>2
  <2> QED  BY <1>0, <2>2, <2>3, <2>4, <2>5 DEF Flows
<1>6. CASE Expire
  <2>1. PICK k \in DOMAIN attempts : attempts' = [attempts EXCEPT ![k].expired = TRUE]  BY <1>6 DEF Expire
  <2>2. DOMAIN attempts' = DOMAIN attempts
        /\ \A j \in DOMAIN attempts : attempts'[j] = attempts[j] \/ attempts'[j] = [attempts[j] EXCEPT !.expired = TRUE]
    BY <2>1
  <2>3. \A j \in DOMAIN attempts : SameCommand(attempts'[j], attempts[j])
    BY <2>2, AttemptSet DEF KeepInv, AttemptsKeep
  <2>4. UNCHANGED <<wire, calls, forms, presses>>  BY <1>6 DEF Expire
  <2> QED  BY <1>0, <2>2, <2>3, <2>4 DEF Flows
<1>7. CASE Elsewhere \/ StartLoad \/ ReadLoad \/ EndLoad \/ UNCHANGED vars
  <2>1. UNCHANGED <<attempts, forms, calls, wire, presses>>
    BY <1>7 DEF Elsewhere, StartLoad, ReadLoad, EndLoad, vars, counters
  <2> QED  BY <1>0, <2>1 DEF Flows
<1> QED  BY <1>1, <1>2, <1>3, <1>4, <1>5, <1>6, <1>7 DEF Next

\* What is recorded comes from a request.
LEMMA ReceiptsFrom ==
  ASSUME [Next]_vars
  PROVE  \A op \in DOMAIN receipts' :
            \/ op \in DOMAIN receipts /\ receipts'[op] = receipts[op]
            \/ \E r \in wire : /\ op = r.op /\ ~Landed(op)
                              /\ receipts'[op].endpoint = r.endpoint /\ receipts'[op].body = r.body
                              /\ receipts'[op].from = item.rev /\ receipts'[op].reply.rev = item'.rev
                              /\ item' = ServeAll(r.endpoint, item, r.body, User).item
                              /\ ServeAll(r.endpoint, item, r.body, User).code = "OK"
<1>1. CASE receipts' = receipts  BY <1>1
<1>2. CASE receipts' # receipts
  <2>1. PICK r \in wire : ~Landed(r.op) /\ Serves(r) /\ ServeAll(r.endpoint, item, r.body, User).code = "OK"
    BY <1>2, AuthorKept
  <2> DEFINE answer == ServeAll(r.endpoint, item, r.body, User)
             receipt == [endpoint |-> r.endpoint, body |-> r.body,
                         reply |-> [code |-> answer.code, rev |-> answer.item.rev], from |-> item.rev]
  <2>2. item' = answer.item /\ receipts' = With(receipts, r.op, receipt)
    BY <2>1 DEF Serves
  <2>3. receipt.endpoint = r.endpoint /\ receipt.body = r.body /\ receipt.from = item.rev
        /\ receipt.reply.rev = answer.item.rev
    OBVIOUS
  <2> HIDE DEF receipt
  <2>4. \A op \in DOMAIN receipts' : (op \in DOMAIN receipts /\ receipts'[op] = receipts[op])
                                     \/ (op = r.op /\ receipts'[op] = receipt)
    BY <2>2 DEF With
  <2> HIDE DEF answer
  <2> QED  BY <2>1, <2>2, <2>3, <2>4 DEF answer
<1> QED  BY <1>1, <1>2

\* Operations keep their keys, and a new one has the key it is first used under.
LEMMA KeysStay ==
  ASSUME KeyInv, KeepInv, UndoInv, Flows, [Next]_vars
  PROVE  KeyInv'
<1> PICK g : KeysOf(g)  BY DEF KeyInv
<1> USE DEF SameCommand
<1>0. scene' = scene /\ presses' = presses  BY DEF Flows
<1>1. \A k \in DOMAIN attempts' : attempts'[k].op \in 1..presses /\ g[attempts'[k].op] = k
  BY DEF KeysOf, Flows
<1>2. \A k \in DOMAIN forms' : forms'[k].op \in 1..presses /\ g[forms'[k].op] = k
  BY DEF KeysOf, Flows
<1>3. \A call \in calls' : call.op \in 1..presses /\ g[call.op] = call.key
  BY DEF KeysOf, Flows
<1>4. \A r \in wire' : /\ r.op \in 1..presses
                       /\ Determined(g[r.op], r.endpoint, r.body)
                       /\ scene.screen \notin ShoppingPanels /\ r.undoes # Nobodys => UndoKey(g[r.op])
  <2> TAKE r \in wire'
  <2>1. CASE \E old \in wire : r.op = old.op /\ r.endpoint = old.endpoint /\ r.body = old.body /\ r.undoes = old.undoes
    BY <2>1 DEF KeysOf
  <2>2. CASE \E call \in calls : r.op = call.op /\ r.endpoint = call.endpoint /\ r.body = call.body /\ r.undoes = call.undoes
    BY <2>2 DEF KeysOf, KeepInv, CallsKeep, UndoInv
  <2> QED  BY <2>1, <2>2 DEF Flows
<1>5. \A op \in DOMAIN receipts' : op \in 1..presses /\ Determined(g[op], receipts'[op].endpoint, receipts'[op].body)
  BY ReceiptsFrom DEF KeysOf
<1>6. KeysOf(g)'  BY <1>0, <1>1, <1>2, <1>3, <1>4, <1>5 DEF KeysOf
<1> QED  BY <1>6 DEF KeyInv

LEMMA KeyBegin ==
  ASSUME CallInv, KeepInv, KeyInv, NEW c0, Sound(c0), NEW c \in {c0, Resumed(c0)}, NEW undoes, Begin(c, undoes),
         UNCHANGED <<scene, wire, receipts>>
  PROVE  KeyInv'
<1> PICK g : KeysOf(g)  BY DEF KeyInv
<1> DEFINE a == prepareCommandAttempt(c)
           new == [n |-> presses + 1, op |-> a.op, key |-> c.key, endpoint |-> a.endpoint,
                   body |-> a.body, asked |-> c.body, via |-> c.via, undo |-> c.undo, undoes |-> undoes,
                   sent |-> FALSE, left |-> FALSE, reply |-> WaitingFor]
           form == [op |-> a.op, saved |-> FALSE, locked |-> IF c.via = "own" THEN {c} ELSE {}]
<1> PICK h : h = [i \in 1..(presses + 1) |-> IF i = presses + 1 THEN c.key ELSE g[i]]  OBVIOUS
<1>1. /\ ~Conflicts(c)
      /\ attempts' = Keep(c.key, c.via, a)
      /\ forms' = IF c.via \notin WithItsId THEN forms ELSE With(forms, c.key, form)
      /\ calls' = calls \union {new}
      /\ presses' = presses + 1
  BY Zenon DEF Begin
<1>2. Prepared(c, a)  BY <1>1, Preparing
<1>3. presses \in Nat  BY DEF CallInv, CallsOK
<1>4. form.op = a.op /\ new.op = a.op /\ new.key = c.key  OBVIOUS
<1> HIDE DEF a, new, form
<1>5. \A i \in 1..presses : i \in 1..(presses + 1) /\ h[i] = g[i]
  BY <1>3
<1>6. h[presses + 1] = c.key /\ presses + 1 \in 1..(presses + 1)  BY <1>3
<1>7. a.op \in 1..(presses + 1) /\ h[a.op] = c.key
  BY <1>2, <1>5, <1>6 DEF Prepared, KeysOf
<1>8. \A k \in DOMAIN attempts' : attempts'[k].op \in 1..presses' /\ h[attempts'[k].op] = k
  <2>1. \A k \in DOMAIN attempts' : (k \in DOMAIN attempts /\ attempts'[k] = attempts[k]) \/ (k = c.key /\ attempts'[k] = a)
    BY <1>1 DEF Keep, With
  <2> QED  BY <1>1, <1>5, <1>7, <2>1 DEF KeysOf
<1>9. \A k \in DOMAIN forms' : forms'[k].op \in 1..presses' /\ h[forms'[k].op] = k
  <2>1. \A k \in DOMAIN forms' : (k \in DOMAIN forms /\ forms'[k] = forms[k]) \/ (k = c.key /\ forms'[k] = form)
    BY <1>1 DEF With
  <2> QED  BY <1>1, <1>4, <1>5, <1>7, <2>1 DEF KeysOf
<1>10. \A call \in calls' : call.op \in 1..presses' /\ h[call.op] = call.key
  BY <1>1, <1>4, <1>5, <1>7 DEF KeysOf
<1>11. \A r \in wire : /\ r.op \in 1..presses'
                       /\ Determined(h[r.op], r.endpoint, r.body)
                       /\ scene.screen \notin ShoppingPanels /\ r.undoes # Nobodys => UndoKey(h[r.op])
  BY <1>1, <1>5 DEF KeysOf
<1>13. \A op \in DOMAIN receipts : op \in 1..presses' /\ Determined(h[op], receipts[op].endpoint, receipts[op].body)
  BY <1>1, <1>5 DEF KeysOf
<1>12. KeysOf(h)'  BY <1>8, <1>9, <1>10, <1>11, <1>13 DEF KeysOf
<1> QED  BY <1>12 DEF KeyInv

LEMMA KeyStep ==
  ASSUME CallInv, KeepInv, UndoInv, KeyInv, [Next]_vars
  PROVE  KeyInv'
<1>1. CASE Press
  <2>1. PICK c0 \in Offered(shown, User) : Begin(Resumed(c0), Nobodys)
    BY <1>1 DEF Press
  <2>2. scene.screen \in Screens  BY ScenesAssumption DEF KeepInv
  <2>3. Sound(c0)  BY <2>1, <2>2, OfferedSound DEF AreSound
  <2>4. UNCHANGED <<scene, wire, receipts>>  BY <1>1 DEF Press, server
  <2> QED  BY <2>1, <2>3, <2>4, KeyBegin
<1>2. CASE PressUndo
  <2>1. PICK o \in offer : \E c \in UndoCommands(o) : Begin(c, o.op)
    BY <1>2 DEF PressUndo
  <2>2. PICK c \in UndoCommands(o) : Begin(c, o.op)  BY <2>1
  <2>3. Sound(c)  BY <2>2, UndoSound DEF AreSound
  <2>4. UNCHANGED <<scene, wire, receipts>>  BY <1>2 DEF PressUndo, server
  <2> QED  BY <2>2, <2>3, <2>4, KeyBegin
<1>3. CASE ~Press /\ ~PressUndo
  BY <1>3, StepsFlow, KeysStay
<1> QED  BY <1>1, <1>2, <1>3

UndoneInv == RepeatInv /\ RecordInv /\ UndoInv /\ KeyInv

LEMMA UndoneInit == Init => UndoneInv
<1> SUFFICES ASSUME Init PROVE UndoneInv  OBVIOUS
<1>1. RecordInv  BY DEF Init, RecordInv
<1>2. UndoInv  BY DEF Init, UndoInv
<1>3. KeysOf(<<>>)  BY DEF Init, KeysOf
<1> QED  BY <1>1, <1>2, <1>3, RepeatInit DEF UndoneInv, KeyInv

LEMMA UndoneStep == UndoneInv /\ [Next]_vars => UndoneInv'
<1> SUFFICES ASSUME UndoneInv, [Next]_vars PROVE UndoneInv'  OBVIOUS
<1>1. RepeatInv'  BY RepeatStep DEF UndoneInv
<1>2. RecordInv'  BY RecordStep DEF UndoneInv
<1>3. CallInv /\ KeepInv /\ UndoInv /\ KeyInv  BY DEF UndoneInv, RepeatInv
<1>4. UndoInv'  BY <1>3, UndoStep
<1>5. KeyInv'  BY <1>3, KeyStep
<1> QED  BY <1>1, <1>2, <1>4, <1>5 DEF UndoneInv

\* Two requests of one operation carry the same undo, if one of them is an undo.
LEMMA SameUndo ==
  ASSUME KeyInv, scene.screen \notin ShoppingPanels, NEW r \in wire, r.undoes # Nobodys, NEW q \in wire, q.op = r.op
  PROVE  /\ q.endpoint = "complete-task" /\ q.body = r.body
         /\ r.body.action \in {"reopen", "could_not_do_undo"}
<1> PICK g : KeysOf(g)  BY DEF KeyInv
<1>1. UndoKey(g[r.op]) /\ Determined(g[r.op], r.endpoint, r.body) /\ Determined(g[r.op], q.endpoint, q.body)
  BY DEF KeysOf
<1>2. CASE g[r.op][1] = "reopen"  BY <1>1, <1>2 DEF Determined, Body
<1>3. CASE g[r.op][1] = "could-not-do:undo"  BY <1>1, <1>3 DEF Determined, Body
<1> QED  BY <1>1, <1>2, <1>3 DEF UndoKey

LEMMA UndoHits ==
  ASSUME UndoneInv, [Next]_vars, NEW r \in wire, ~OnShopping, r.undoes # Nobodys, ~Landed(r.op), r.op \in DOMAIN receipts'
  PROVE  author = r.undoes
<1>1. scene.screen \notin ShoppingPanels  BY DEF OnShopping, ShoppingPanels
<1>2. PICK q \in wire : ~Landed(q.op) /\ Serves(q) /\ ServeAll(q.endpoint, item, q.body, User).code = "OK"
  BY AuthorKept DEF Landed
<1>3. q.op = r.op
  <2>1. \E receipt : receipts' = With(receipts, q.op, receipt)  BY <1>2, Zenon DEF Serves
  <2> QED  BY <2>1 DEF With, Landed
<1>4. q.endpoint = "complete-task" /\ q.body = r.body /\ r.body.action \in {"reopen", "could_not_do_undo"}
  BY <1>1, <1>3, SameUndo DEF UndoneInv
<1>5. scene.screen = "row" /\ UndoOf(r.undoes, r.body.rev)  BY <1>1 DEF UndoneInv, UndoInv
<1>6. /\ r.undoes \in DOMAIN receipts
      /\ r.body.rev \in Nat \ {0}
      /\ r.body.rev = item.rev => author = r.undoes
  BY <1>5 DEF UndoOf, UndoneInv, RecordInv
<1>7. Fits(scene.screen, q.endpoint, q.body)  BY DEF UndoneInv, RepeatInv, KeepInv, RequestsFit
<1>8. GuardedEffect(item, q.body, ServeAll(q.endpoint, item, q.body, User).item)
  BY <1>2, <1>4, <1>6, <1>7, GuardedLands
<1>9. q.body.rev = item.rev  BY <1>4, <1>8 DEF GuardedEffect, Lands
<1> QED  BY <1>4, <1>6, <1>9

\* The undo that a task's row offers after a record is carried out only while that
\* record is the last thing done to the task: it never takes back what somebody,
\* the user included, has recorded since.
THEOREM UndoTakesBackItsOwn == Spec => UndoHitsOwnRecord
<1>1. UndoneInv /\ [Next]_vars =>
        [\A r \in wire :
          ~OnShopping /\ r.undoes # Nobodys /\ ~Landed(r.op) /\ r.op \in DOMAIN receipts'
             => author = r.undoes]_vars
  BY UndoHits
<1> QED  BY UndoneInit, UndoneStep, <1>1, PTL DEF Spec, UndoHitsOwnRecord

-----------------------------------------------------------------------------
(* The revisions in the keys of the screens.                                *)

\* What a button sends under a kept key names the revision on the screen, or leaves
\* the row as it is.
DatedCommand(c, rev) ==
    /\ c.via = "attempt" => (Stamped(c.key) /\ Stamp(c.key) = rev) \/ c.key[1] \in StillHeads
    /\ c.via # "attempt" => ~Stamped(c.key) \/ c.via = "fresh"

AreDated(commands, rev) == \A c \in commands : DatedCommand(c, rev)

LEMMA TaskScreensDated ==
  ASSUME NEW row, NEW me
  PROVE  /\ AreDated(TaskButtons(row, me), row.rev)
         /\ AreDated(handleToggleSubtask(row, me), row.rev)
         /\ AreDated(handleWaitingSubmit(row) \union handleResumeWaiting(row), row.rev)
         /\ AreDated(handleAssignmentSubmit(row, me), row.rev)
         /\ AreDated(WorkUpdateForm(row), row.rev)
         /\ AreDated(handleEvidenceSubmit(row), row.rev)
         /\ AreDated(TaskForm(row), row.rev)
         /\ AreDated(toggleCheck(row) \union comment, row.rev)
         /\ AreDated(resolveAssignment(row, me) \union saveActualCorrection(row), row.rev)
<1> USE DEF AreDated, DatedCommand, Stamped, Stamp, StampedSecond, StampedThird, StillHeads, Attempted, Plain,
            Body, When
<1>1. AreDated(handleComplete(row, me), row.rev)
  BY DEF handleComplete
<1>2. AreDated(handleReopen(row), row.rev) /\ AreDated(handleCouldNotDo(row), row.rev) /\ AreDated(handleCancel(row), row.rev)
  BY DEF handleReopen, handleCouldNotDo, handleCancel
<1>3. AreDated(handleAnyoneClaim(row, me), row.rev)
  BY DEF handleAnyoneClaim
<1>4. runBulk(row, me) \subseteq handleCouldNotDo(row) \union handleComplete(row, me)
  BY DEF runBulk
<1>5. AreDated(TaskButtons(row, me), row.rev)
  <2> HIDE DEF DatedCommand
  <2> QED  BY <1>1, <1>2, <1>3, <1>4 DEF TaskButtons
<1>6. AreDated(handleToggleSubtask(row, me), row.rev)
  BY DEF handleToggleSubtask
<1>7. AreDated(handleWaitingSubmit(row) \union handleResumeWaiting(row), row.rev)
  BY DEF handleWaitingSubmit, handleResumeWaiting
<1>8. AreDated(handleAssignmentSubmit(row, me), row.rev)
  BY DEF handleAssignmentSubmit, assignmentDecisionCommand
<1>9. AreDated(WorkUpdateForm(row), row.rev)
  <2> SUFFICES ASSUME NEW c \in WorkUpdateForm(row) PROVE DatedCommand(c, row.rev)  OBVIOUS
  <2>1. PICK x \in Text : c = [Attempted(<<"work-progress">>, "edit-task",
                                        Body("record_progress", None, row.rev, x)) EXCEPT !.via = "resumes"]
    BY DEF WorkUpdateForm
  <2>2. c = [key |-> <<"work-progress">>, endpoint |-> "edit-task",
             body |-> Body("record_progress", None, row.rev, x), via |-> "resumes", undo |-> None]
    BY <2>1, ViaSet
  <2> QED  BY <2>2
<1>10. AreDated(handleEvidenceSubmit(row), row.rev) /\ AreDated(TaskForm(row), row.rev)
  BY DEF handleEvidenceSubmit, TaskForm
<1>11. AreDated(toggleCheck(row) \union comment, row.rev)
  BY DEF toggleCheck, comment
<1>12. AreDated(resolveAssignment(row, me) \union saveActualCorrection(row), row.rev)
  BY DEF resolveAssignment, saveActualCorrection
<1> HIDE DEF AreDated
<1> QED  BY <1>5, <1>6, <1>7, <1>8, <1>9, <1>10, <1>11, <1>12

LEMMA GoodsScreensDated ==
  ASSUME NEW row, NEW me
  PROVE  /\ AreDated(primaryAction(row) \union menu(row), row.rev)
         /\ AreDated(purchaseSelected(row), row.rev)
         /\ AreDated(ownership(row, me), row.rev) /\ AreDated(changeOwner(row, me), row.rev)
         /\ AreDated(QuickAddShopping \union AddShoppingItemForm \union createTask, row.rev)
<1> USE DEF AreDated, DatedCommand, Stamped, Stamp, StampedSecond, StampedThird, StillHeads, Attempted, Plain,
            Body, When
<1> USE DEF stable
<1>1. AreDated(primaryAction(row), row.rev)
  BY DEF primaryAction
<1>2. AreDated(menu(row), row.rev)
  BY DEF menu
<1>3. AreDated(purchaseSelected(row), row.rev) /\ AreDated(changeOwner(row, me), row.rev)
  BY DEF purchaseSelected, changeOwner
<1>4. AreDated(ownership(row, me), row.rev)
  BY DEF ownership
<1>5. AreDated(QuickAddShopping, row.rev) /\ AreDated(AddShoppingItemForm, row.rev) /\ AreDated(createTask, row.rev)
  BY DEF QuickAddShopping, AddShoppingItemForm, createTask
<1> HIDE DEF DatedCommand
<1> QED  BY <1>1, <1>2, <1>3, <1>4, <1>5

LEMMA FamilyScreensDated ==
  ASSUME NEW row, NEW me
  PROVE  /\ AreDated(RequestButtons(row, me), row.rev)
         /\ AreDated(SendRequestForm \union ComposeHandoverForm, row.rev)
         /\ AreDated(resolveGoogleReview(row), row.rev)
         /\ AreDated(confirmEventPlan(row), row.rev)
         /\ AreDated(respondReview(row), row.rev)
         /\ AreDated(NurseryReview(row), row.rev)
<1> USE DEF AreDated, DatedCommand, Stamped, Stamp, StampedSecond, StampedThird, StillHeads, Attempted, Plain,
            Body, When
<1>1. AreDated(respond(row), row.rev)
  BY DEF respond
<1>2. AreDated(negotiate(row), row.rev)
  BY DEF negotiate
<1>3. AreDated(OutgoingRequestRow(row), row.rev)
  BY DEF OutgoingRequestRow
<1>4. AreDated(SendRequestForm, row.rev)
  <2> SUFFICES ASSUME NEW c \in SendRequestForm PROVE DatedCommand(c, row.rev)  OBVIOUS
  <2>1. PICK endpoint \in {"send-request", "confirm-request-draft"}, x \in Text :
          c = [Attempted(<<"request:send">>, endpoint, Body("send", None, 0, x)) EXCEPT !.via = "resumes"]
    <3> HIDE DEF Attempted, Body
    <3> QED  BY DEF SendRequestForm
  <2>2. c = [key |-> <<"request:send">>, endpoint |-> endpoint, body |-> Body("send", None, 0, x),
             via |-> "resumes", undo |-> None]
    BY <2>1, ViaSet
  <2> QED  BY <2>2
<1>5. AreDated(ComposeHandoverForm, row.rev)
  BY DEF ComposeHandoverForm
<1>6. AreDated(resolveGoogleReview(row), row.rev) /\ AreDated(respondReview(row), row.rev)
  BY DEF resolveGoogleReview, respondReview
<1>7. AreDated(confirmEventPlan(row), row.rev) /\ AreDated(NurseryReview(row), row.rev)
  BY DEF confirmEventPlan, NurseryReview
<1> HIDE DEF DatedCommand
<1>8. AreDated(RequestButtons(row, me), row.rev)
  BY <1>1, <1>2, <1>3 DEF RequestButtons, IncomingRequestRow
<1>9. AreDated(SendRequestForm \union ComposeHandoverForm, row.rev)
  BY <1>4, <1>5
<1> QED  BY <1>6, <1>7, <1>8, <1>9

\* The keys of additions, of the forms of the set-up, of candidates and of notes name
\* no revision.
LEMMA OthersUnstamped ==
  ASSUME NEW key, key[1] \in StillHeads \union FormHeads \union {"candidate", "handover"}
  PROVE  ~Stamped(key)
BY DEF StillHeads, FormHeads, Stamped, StampedSecond, StampedThird

LEMMA NoteCommands ==
  ASSUME NEW row, NEW me, NEW c \in HandoverActions(row, me)
  PROVE  c.key[1] = "handover" /\ (c.via = "attempt" => row.state.status = "active")
BY DEF HandoverActions, Attempted, Plain, When

LEMMA CandidateCommands ==
  ASSUME NEW row, NEW me, NEW c \in ConciergePage(row, me)
  PROVE  c.via = "own" /\ c.key[1] = "candidate"
<1>1. \A candidate, endpoint, body :
        Confirmed(candidate, endpoint, body).via = "own" /\ Confirmed(candidate, endpoint, body).key[1] = "candidate"
  BY DEF Confirmed
<1>2. PICK candidate \in proposeConciergeCandidates(row, me), x \in Text : c \in buildConfirmedCommand(candidate, me, x)
  BY DEF ConciergePage
<1>3. candidate.kind \in CandidateKinds
  BY <1>2, CandidateKind
<1> QED  BY <1>1, <1>2, <1>3 DEF buildConfirmedCommand, updateCommand, taskCommand, shoppingCommand, shareCommand,
            actualCommand, requestCommand, takeoverCommand, CandidateKinds, When

\* A command of a screen: dated, or of a screen whose attempts are no records of what
\* is shown.
LEMMA OfferedDated ==
  ASSUME scene.screen \in Screens, scene.screen \notin WithoutRevision, NEW row, NEW me, NEW c \in Offered(row, me)
  PROVE  /\ c.via # "fresh" /\ Stamped(c.key) => Stamp(c.key) = row.rev
         /\ c.via = "attempt" => \/ Stamped(c.key)
                                 \/ c.key[1] \in StillHeads
                                 \/ scene.screen = "note" /\ row.state.status = "active"
<1>1. CASE scene.screen \in {"row", "checklist", "waiting", "assignment", "progress", "evidence", "form", "schedule", "today"}
  <2>1. DatedCommand(c, row.rev)
    BY <1>1, TaskScreensDated DEF Offered, AreDated
  <2> QED  BY <2>1, OthersUnstamped DEF DatedCommand
<1>2. CASE scene.screen \in {"goods", "batch", "ownership", "anyone", "additions"}
  <2>1. DatedCommand(c, row.rev)
    BY <1>2, GoodsScreensDated DEF Offered, AreDated
  <2> QED  BY <2>1, OthersUnstamped DEF DatedCommand
<1>3. CASE scene.screen \in {"request", "send", "google", "plan", "conflict", "nursery"}
  <2>1. DatedCommand(c, row.rev)
    BY <1>3, FamilyScreensDated DEF Offered, AreDated
  <2> QED  BY <2>1, OthersUnstamped DEF DatedCommand
<1>4. CASE scene.screen = "note"
  <2>1. c \in HandoverActions(row, me)  BY <1>4 DEF Offered
  <2>2. c.key[1] = "handover" /\ (c.via = "attempt" => row.state.status = "active")
    BY <2>1, NoteCommands
  <2>3. ~Stamped(c.key)  BY <2>2, OthersUnstamped
  <2> QED  BY <1>4, <2>2, <2>3
<1>5. CASE scene.screen = "invite"
  <2>1. c \in InviteSection(row, me)  BY <1>5 DEF Offered
  <2>2. c \in JoinHouseholdForm(row.state) \/ c.via = "fresh"
    BY <2>1 DEF InviteSection, When, Now, Plain
  <2>3. c \in JoinHouseholdForm(row.state) => c.via = "form" /\ c.key = <<"join-household">>
    BY FormedIs DEF JoinHouseholdForm
  <2> QED  BY <2>2, <2>3, OthersUnstamped DEF FormHeads
<1>6. CASE scene.screen = "concierge"
  <2>1. c \in ConciergePage(row, me)  BY <1>6 DEF Offered
  <2>2. c.via = "own" /\ c.key[1] = "candidate"  BY <2>1, CandidateCommands
  <2>3. ~Stamped(c.key)  BY <2>2, OthersUnstamped
  <2> QED  BY <2>2, <2>3
<1> QED  BY <1>1, <1>2, <1>3, <1>4, <1>5, <1>6 DEF Screens, WithoutRevision

-----------------------------------------------------------------------------
(* What is shown, recorded and kept is never ahead of the row.              *)

\* An addition is made beside the row.
LEMMA StillStays ==
  ASSUME NEW row, NEW endpoint, NEW body, Still(endpoint, body.action), NEW who
  PROVE  ServeAll(endpoint, row, body, who).item = row
<1>1. \A checks, made : Reply(row, checks, row, made).item = row
  BY DEF Reply
<1>2. CASE endpoint = "create-task"
  BY <1>1, <1>2 DEF ServeAll, ServeFamily, Serve, create_task, RequestEndpoints
<1>3. CASE endpoint = "add-shopping-item"
  BY <1>1, <1>3 DEF ServeAll, ServeFamily, Serve, add_shopping_item, RequestEndpoints
<1>4. CASE endpoint = "create-handover"
  BY <1>1, <1>4 DEF ServeAll, ServeFamily, Created
<1>5. CASE endpoint = "edit-task" /\ body.action = "add_comment"
  BY <1>1, <1>5 DEF ServeAll, ServeFamily, Serve, edit_task
<1> QED  BY <1>2, <1>3, <1>4, <1>5 DEF Still

LEMMA FreshInit == Init => FreshInv
<1> SUFFICES ASSUME Init PROVE FreshInv  OBVIOUS
<1>1. /\ item.rev = 1 /\ shown = item /\ loads = {} /\ offer = {} /\ calls = {}
      /\ receipts = <<>> /\ attempts = <<>>
  BY DEF Init
<1>2. SightInv  BY <1>1 DEF SightInv, Glimpse
<1>3. ReceiptInv /\ OfferInv /\ DatedInv  BY <1>1 DEF ReceiptInv, OfferInv, DatedInv
<1> QED  BY <1>2, <1>3 DEF FreshInv

LEMMA RowGoesOn ==
  ASSUME KeepInv, RowOK(item), [Next]_vars
  PROVE  /\ scene' = scene /\ item.rev \in Nat \ {0} /\ item'.rev \in {item.rev, item.rev + 1}
         /\ scene.screen = "note" => NoteMoved(item, item')
BY RowStep, AuthorKept DEF RowOK, IsRow, Advanced

\* What was seen of a row stays an old sight of it.
LEMMA GlimpseStays ==
  ASSUME KeepInv, RowOK(item), [Next]_vars
  PROVE  /\ \A row : Glimpse(row) => Glimpse(row)'
         /\ Glimpse(item) /\ Glimpse(item)'
<1>1. /\ scene' = scene /\ item.rev \in Nat \ {0} /\ item'.rev \in {item.rev, item.rev + 1}
      /\ scene.screen = "note" => NoteMoved(item, item')
  BY RowGoesOn
<1>2. scene.screen = "note" /\ item'.rev = item.rev => item'.state.status = item.state.status
  BY <1>1 DEF NoteMoved
<1>3. ASSUME NEW row, Glimpse(row)
      PROVE  /\ row.rev \in Nat /\ row.rev <= item'.rev
             /\ scene'.screen = "note" /\ row.rev = item'.rev => row.state.status = item'.state.status
  BY <1>1, <1>2, <1>3 DEF Glimpse
<1>4. Glimpse(item) /\ Glimpse(item)'  BY <1>1 DEF Glimpse
<1> QED  BY <1>3, <1>4 DEF Glimpse

IsLoad(l) == l = [n |-> l.n, read |-> l.read, row |-> l.row]

LEMMA SightStep ==
  ASSUME KeepInv, RowOK(item), SightInv, [Next]_vars
  PROVE  SightInv'
<1>1. (\A row : Glimpse(row) => Glimpse(row)') /\ Glimpse(item) /\ Glimpse(item)'  BY GlimpseStays
<1>2. Glimpse(shown) /\ \A l \in loads : IsLoad(l) /\ Glimpse(l.row)  BY DEF SightInv, IsLoad
<1>3. scene' = scene /\ item.rev \in Nat \ {0}  BY RowGoesOn
<1>4. Glimpse(shown') /\ \A l \in loads' : IsLoad(l) /\ Glimpse(l.row)
  <2>1. IsLoad(NextLoad) /\ NextLoad.row = shown  BY DEF IsLoad, NextLoad
  <2>2. CASE AnswerDone \/ StartLoad
    <3>1. shown' = shown /\ loads' \in {loads, loads \union {NextLoad}}
      BY <2>2 DEF AnswerDone, StartLoad
    <3> HIDE DEF NextLoad, IsLoad, Glimpse
    <3> QED  BY <1>2, <2>1, <3>1
  <2>3. CASE ReadLoad
    <3>1. shown' = shown  BY <2>3 DEF ReadLoad
    <3>2. PICK l \in loads : loads' = (loads \ {l}) \union {[l EXCEPT !.read = TRUE, !.row = item]}
      BY <2>3 DEF ReadLoad
    <3>3. ASSUME NEW m, m = [l EXCEPT !.read = TRUE, !.row = item]
          PROVE  IsLoad(m) /\ m.row = item
      <4>0. l = [n |-> l.n, read |-> l.read, row |-> l.row]  BY <1>2, <3>2 DEF IsLoad
      <4>1. m = [n |-> l.n, read |-> TRUE, row |-> item]  BY <3>3, <4>0
      <4> QED  BY <4>1 DEF IsLoad
    <3> QED  BY <1>1, <1>2, <3>1, <3>2, <3>3
  <2>4. CASE EndLoad
    <3>1. loads' \subseteq loads /\ (shown' = shown \/ \E l \in loads : shown' = l.row)  BY <2>4 DEF EndLoad
    <3> QED  BY <1>2, <3>1
  <2>5. CASE Reload \/ CloseTab
    <3>1. PICK kept, keptForms, seen : /\ PageGone(kept, keptForms, seen)
                                       /\ seen = item \/ (InConcierge /\ seen = Organized)
      BY <2>5, Zenon DEF Reload, CloseTab
    <3>2. loads' = {} /\ shown' = seen  BY <3>1 DEF PageGone
    <3>3. InConcierge => Glimpse(Organized)  BY <1>3 DEF InConcierge, Organized, Glimpse
    <3> QED  BY <1>1, <3>1, <3>2, <3>3
  <2>6. CASE ~(AnswerDone \/ StartLoad \/ ReadLoad \/ EndLoad \/ Reload \/ CloseTab)
    <3>1. shown' = shown /\ loads' = loads
      BY <2>6 DEF Next, Press, PressUndo, NotSent, Send, Lost, AnswerRejected, AnswerUnknown, Process, Elsewhere,
           Leave, Expire, vars, display
    <3> QED  BY <1>2, <3>1
  <2> QED  BY <2>2, <2>3, <2>4, <2>5, <2>6
<1> QED  BY <1>1, <1>4 DEF SightInv, IsLoad

LEMMA ReceiptStep ==
  ASSUME KeepInv, RowOK(item), ReceiptInv, [Next]_vars
  PROVE  ReceiptInv'
<1>1. /\ scene' = scene /\ item.rev \in Nat \ {0} /\ item'.rev \in {item.rev, item.rev + 1}
      /\ scene.screen = "note" => NoteMoved(item, item')
  BY RowGoesOn
<1> SUFFICES ASSUME NEW op \in DOMAIN receipts'
    PROVE  /\ receipts'[op].from \in Nat /\ receipts'[op].reply.rev \in Nat
           /\ receipts'[op].from <= receipts'[op].reply.rev /\ receipts'[op].reply.rev <= item'.rev
           /\ Still(receipts'[op].endpoint, receipts'[op].body.action) => receipts'[op].from = receipts'[op].reply.rev
           /\ scene.screen = "note" /\ receipts'[op].from # receipts'[op].reply.rev =>
                 item'.state.status = "expired" /\ receipts'[op].reply.rev = item'.rev
    BY <1>1 DEF ReceiptInv
<1>2. CASE op \in DOMAIN receipts /\ receipts'[op] = receipts[op]
  <2>1. scene.screen = "note" /\ item.state.status = "expired"
           => item'.rev = item.rev /\ item'.state.status = "expired"
    BY <1>1 DEF NoteMoved
  <2> QED  BY <1>1, <1>2, <2>1 DEF ReceiptInv
<1>3. CASE \E r \in wire : /\ receipts'[op].endpoint = r.endpoint /\ receipts'[op].body = r.body
                           /\ receipts'[op].from = item.rev /\ receipts'[op].reply.rev = item'.rev
                           /\ item' = ServeAll(r.endpoint, item, r.body, User).item
  <2> PICK r \in wire : /\ receipts'[op].endpoint = r.endpoint /\ receipts'[op].body = r.body
                        /\ receipts'[op].from = item.rev /\ receipts'[op].reply.rev = item'.rev
                        /\ item' = ServeAll(r.endpoint, item, r.body, User).item
    BY <1>3
  <2>1. Still(r.endpoint, r.body.action) => item' = item  BY StillStays
  <2>2. scene.screen = "note" /\ item'.rev # item.rev => item'.state.status = "expired"
    BY <1>1 DEF NoteMoved
  <2> QED  BY <1>1, <2>1, <2>2
<1> QED  BY <1>2, <1>3, ReceiptsFrom

\* An undo is offered at the revision its record was answered with.
LEMMA OfferStep ==
  ASSUME CallInv, KeepInv, KeyInv, RowOK(item), ReceiptInv, OfferInv, [Next]_vars
  PROVE  OfferInv'
<1>1. item.rev \in Nat \ {0} /\ item'.rev \in {item.rev, item.rev + 1}  BY RowGoesOn
<1>2. presses \in Nat /\ presses' \in {presses, presses + 1}
  <2>1. CASE Press \/ PressUndo  BY <2>1 DEF Press, PressUndo, Begin, CallInv, CallsOK
  <2>2. CASE ~Press /\ ~PressUndo  BY <2>2, StepsFlow DEF Flows, CallInv, CallsOK
  <2> QED  BY <2>1, <2>2
<1>3. \A o \in offer' : o.op \in 1..presses /\ o.rev \in Nat /\ o.rev <= item.rev
  <2>1. CASE AnswerDone
    <3>1. PICK call \in calls : Outcome(call.reply.code) = "done" /\ offer' \in {{}, offer, {[op |-> call.op, undo |-> call.undo, rev |-> call.reply.rev]}}
      BY <2>1 DEF AnswerDone, OfferOf
    <3>2. call.op \in 1..presses  BY DEF KeyInv, KeysOf
    <3>3. call.reply.rev \in Nat /\ call.reply.rev <= item.rev
      BY <1>1, <3>1, OutcomeDone DEF CallInv, RepliesOK, ReceiptInv, Landed
    <3> QED  BY <3>1, <3>2, <3>3 DEF OfferInv
  <2>2. CASE ~AnswerDone
    <3>1. offer' \in {{}, offer}
      BY <2>2 DEF Next, Press, PressUndo, NotSent, Send, Lost, AnswerRejected, AnswerUnknown, Process, Elsewhere,
           StartLoad, ReadLoad, EndLoad, Leave, Reload, CloseTab, PageGone, Expire, vars
    <3> QED  BY <3>1 DEF OfferInv
  <2> QED  BY <2>1, <2>2
<1> QED  BY <1>1, <1>2, <1>3 DEF OfferInv

-----------------------------------------------------------------------------
(* What a success is told of, step by step.                                 *)

\* An operation that lands later lands at a later revision.
LEMMA TimelyStays ==
  ASSUME KeepInv, RowOK(item), [Next]_vars, NEW key, NEW op, Timely(key, op)
  PROVE  Timely(key, op)'
<1> SUFFICES ASSUME Stamped(key)
    PROVE  /\ Stamp(key) \in Nat /\ Stamp(key) <= item'.rev
           /\ op \in DOMAIN receipts' => Stamp(key) <= receipts'[op].from
    BY DEF Timely, Landed
<1>1. item.rev \in Nat \ {0} /\ item'.rev \in {item.rev, item.rev + 1}  BY RowGoesOn
<1>2. /\ Stamp(key) \in Nat /\ Stamp(key) <= item.rev
      /\ op \in DOMAIN receipts => Stamp(key) <= receipts[op].from
  BY DEF Timely, Landed
<1> HIDE DEF Stamp
<1>3. op \in DOMAIN receipts' => Stamp(key) <= receipts'[op].from
  BY <1>2, ReceiptsFrom
<1> QED  BY <1>1, <1>2, <1>3

\* What is kept and under way comes from before, or has the key of the button pressed.
LEMMA DatedFrom ==
  ASSUME KeepInv, RowOK(item), DatedInv, [Next]_vars,
         scene.screen \notin WithoutRevision =>
           /\ \A k \in DOMAIN attempts' :
                 \/ k \in DOMAIN attempts /\ attempts'[k].op = attempts[k].op
                 \/ \E call \in calls : call.via \notin Unkept /\ call.key = k /\ attempts'[k].op = call.op
                 \/ Timely(k, attempts'[k].op)
           /\ \A call \in calls' : call.via \notin Unkept =>
                 \/ \E old \in calls : call.op = old.op /\ call.key = old.key /\ call.via = old.via
                 \/ Timely(call.key, call.op)
  PROVE  DatedInv'
<1> SUFFICES ASSUME scene.screen \notin WithoutRevision
    PROVE  /\ \A k \in DOMAIN attempts' : Timely(k, attempts[k].op)'
           /\ \A call \in calls' : call.via \notin Unkept => Timely(call.key, call.op)'
    BY RowGoesOn DEF DatedInv, Timely
<1>1. \A key, op : Timely(key, op) => Timely(key, op)'  BY TimelyStays
<1>2. \A k \in DOMAIN attempts' : Timely(k, attempts'[k].op)  BY DEF DatedInv
<1>3. \A call \in calls' : call.via \notin Unkept => Timely(call.key, call.op)  BY DEF DatedInv
<1> QED  BY <1>1, <1>2, <1>3 DEF Timely

\* A press under a key that names what is shown.
LEMMA DatedBegin ==
  ASSUME CallInv, KeepInv, KeyInv, RowOK(item), DatedInv, [Next]_vars, NEW c0, Sound(c0), NEW c \in {c0, Resumed(c0)},
         NEW undoes, Begin(c, undoes),
         scene.screen \notin WithoutRevision /\ c.via \notin Unkept /\ Stamped(c.key) => Stamp(c.key) \in Nat /\ Stamp(c.key) <= item.rev
  PROVE  DatedInv'
<1> DEFINE a == prepareCommandAttempt(c)
           new == [n |-> presses + 1, op |-> a.op, key |-> c.key, endpoint |-> a.endpoint,
                   body |-> a.body, asked |-> c.body, via |-> c.via, undo |-> c.undo, undoes |-> undoes,
                   sent |-> FALSE, left |-> FALSE, reply |-> WaitingFor]
<1>1. /\ ~Conflicts(c)
      /\ attempts' = Keep(c.key, c.via, a)
      /\ calls' = calls \union {new}
  BY Zenon DEF Begin
<1>2. Prepared(c, a) /\ Keyed(scene.screen, c.key, c.via)  BY <1>1, Preparing
<1>3. new.op = a.op /\ new.key = c.key /\ new.via = c.via  OBVIOUS
<1> HIDE DEF a, new
<1>4. scene.screen \notin WithoutRevision /\ c.via \notin Unkept => Timely(c.key, a.op)
  <2> SUFFICES ASSUME scene.screen \notin WithoutRevision, c.via \notin Unkept, Stamped(c.key),
                      Landed(a.op)
      PROVE  Stamp(c.key) <= receipts[a.op].from
      BY DEF Timely
  <2>1. a.op # presses + 1
    <3>1. a.op \in 1..presses  BY DEF KeyInv, KeysOf, Landed
    <3> QED  BY <3>1 DEF CallInv, CallsOK
  <2>2. c.via \notin WithItsId
    <3>1. c.via = "own" => c.key[1] = "candidate"  BY <1>2 DEF Keyed
    <3> QED  BY <3>1, OthersUnstamped DEF WithItsId, Unkept
  <2>3. c.key \in DOMAIN attempts /\ a.op = attempts[c.key].op  BY <1>2, <2>1, <2>2 DEF Prepared
  <2> QED  BY <2>3 DEF DatedInv, Timely
<1>5. \A k \in DOMAIN attempts' : (k \in DOMAIN attempts /\ attempts'[k] = attempts[k])
                                  \/ (c.via \notin Unkept /\ k = c.key /\ attempts'[k] = a)
  BY <1>1 DEF Keep, With
<1>6. \A call \in calls' : call \in calls \/ (call.op = a.op /\ call.key = c.key /\ call.via = c.via)
  BY <1>1, <1>3
<1> QED  BY <1>4, <1>5, <1>6, DatedFrom

\* The keys of what an undo sends.
LEMMA UndoDated ==
  ASSUME KeepInv, OfferInv, NEW o \in offer, NEW c \in UndoCommands(o)
  PROVE  Stamped(c.key) => Stamp(c.key) \in Nat /\ Stamp(c.key) <= item.rev
<1>1. o.rev \in Nat /\ o.rev <= item.rev  BY DEF OfferInv
<1>2. CASE o.undo = "reopen"
  <2>1. c.key = <<"reopen", o.rev>>  BY <1>2 DEF UndoCommands, Attempted
  <2> QED  BY <1>1, <2>1 DEF Stamp, StampedThird
<1>3. CASE o.undo = "could_not_do_undo"
  <2>1. c.key = <<"could-not-do:undo", o.rev>>  BY <1>3 DEF UndoCommands, Attempted
  <2> QED  BY <1>1, <2>1 DEF Stamp, StampedThird
<1>4. CASE o.undo \notin {"reopen", "could_not_do_undo"}
  <2>1. c \in useShoppingUndo(item, o.undo)  BY <1>4 DEF UndoCommands
  <2>2. c.key[1] = "undo"  BY <2>1 DEF useShoppingUndo, Attempted, When
  <2>3. ~Stamped(c.key)  BY <2>2 DEF Stamped, StampedSecond, StampedThird
  <2> QED  BY <2>3
<1> QED  BY <1>2, <1>3, <1>4

LEMMA DatedStep ==
  ASSUME CallInv, KeepInv, KeyInv, RowOK(item), SightInv, OfferInv, DatedInv, [Next]_vars
  PROVE  DatedInv'
<1>1. CASE Press
  <2>1. PICK c0 \in Offered(shown, User) : Begin(Resumed(c0), Nobodys)
    BY <1>1 DEF Press
  <2>2. scene.screen \in Screens  BY ScenesAssumption DEF KeepInv
  <2>3. Sound(c0)  BY <2>1, <2>2, OfferedSound DEF AreSound
  <2>4. Resumed(c0).key = c0.key /\ Resumed(c0).via = c0.via  BY <2>3, ResumedIs DEF Sound
  <2>5. shown.rev \in Nat /\ shown.rev <= item.rev  BY DEF SightInv, Glimpse
  <2>6. scene.screen \notin WithoutRevision /\ c0.via \notin Unkept /\ Stamped(c0.key) => Stamp(c0.key) = shown.rev
    BY <2>2, OfferedDated DEF Unkept
  <2> QED  BY <2>1, <2>3, <2>4, <2>5, <2>6, DatedBegin
<1>2. CASE PressUndo
  <2>1. PICK o \in offer : \E c \in UndoCommands(o) : Begin(c, o.op)
    BY <1>2 DEF PressUndo
  <2>2. PICK c \in UndoCommands(o) : Begin(c, o.op)  BY <2>1
  <2>3. Sound(c)  BY <2>2, UndoSound DEF AreSound
  <2> QED  BY <2>2, <2>3, UndoDated, DatedBegin
<1>3. CASE ~Press /\ ~PressUndo
  <2>1. Flows  BY <1>3, StepsFlow
  <2> QED  BY <2>1, DatedFrom DEF Flows, SameCommand
<1> QED  BY <1>1, <1>2, <1>3

FreshAll == UndoneInv /\ FreshInv

LEMMA FreshStep == FreshAll /\ [Next]_vars => FreshAll'
<1> SUFFICES ASSUME FreshAll, [Next]_vars PROVE FreshAll'  OBVIOUS
<1>1. UndoneInv'  BY UndoneStep DEF FreshAll
<1>2. /\ CallInv /\ KeepInv /\ KeyInv /\ RowOK(item)
      /\ SightInv /\ ReceiptInv /\ OfferInv /\ DatedInv
  BY DEF FreshAll, UndoneInv, RepeatInv, FreshInv
<1>3. SightInv'  BY <1>2, SightStep
<1>4. ReceiptInv'  BY <1>2, ReceiptStep
<1>5. OfferInv'  BY <1>2, OfferStep
<1>6. DatedInv'  BY <1>2, DatedStep
<1> QED  BY <1>1, <1>3, <1>4, <1>5, <1>6 DEF FreshAll, FreshInv

\* What a press under a kept key is answered with is newer than what was pressed on.
LEMMA FreshPress ==
  ASSUME FreshAll, scene.screen \notin WithoutRevision, NEW c \in Offered(shown, User), c.via = "attempt",
         NEW op, Landed(op), c.key \in DOMAIN attempts, op = attempts[c.key].op,
         receipts[op].from < receipts[op].reply.rev
  PROVE  shown.rev < receipts[op].reply.rev
<1>1. scene.screen \in Screens  BY ScenesAssumption DEF FreshAll, UndoneInv, RepeatInv, KeepInv
<1>2. /\ c.via # "fresh" /\ Stamped(c.key) => Stamp(c.key) = shown.rev
      /\ \/ Stamped(c.key)
         \/ c.key[1] \in StillHeads
         \/ scene.screen = "note" /\ shown.state.status = "active"
  BY <1>1, OfferedDated
<1>3. /\ receipts[op].from \in Nat /\ receipts[op].reply.rev \in Nat
      /\ Still(receipts[op].endpoint, receipts[op].body.action) => receipts[op].from = receipts[op].reply.rev
      /\ scene.screen = "note" => item.state.status = "expired" /\ receipts[op].reply.rev = item.rev
  BY DEF FreshAll, FreshInv, ReceiptInv, Landed
<1>4. Glimpse(shown)  BY DEF FreshAll, FreshInv, SightInv
<1>5. item.rev \in Nat  BY DEF FreshAll, UndoneInv, RepeatInv, RowOK, IsRow
<1>6. CASE Stamped(c.key)
  <2>1. shown.rev <= receipts[op].from  BY <1>2, <1>6 DEF FreshAll, FreshInv, DatedInv, Timely
  <2> QED  BY <1>3, <1>4, <2>1 DEF Glimpse
<1>7. CASE c.key[1] \in StillHeads
  <2>1. PICK g : KeysOf(g)  BY DEF FreshAll, UndoneInv, KeyInv
  <2>2. g[op] = c.key /\ Determined(g[op], receipts[op].endpoint, receipts[op].body)
    BY <2>1 DEF KeysOf, Landed
  <2> QED  BY <1>3, <1>7, <2>2 DEF Determined
<1>8. CASE scene.screen = "note" /\ shown.state.status = "active"
  BY <1>3, <1>4, <1>5, <1>8 DEF Glimpse
<1> QED  BY <1>2, <1>6, <1>7, <1>8

LEMMA FreshAnswers ==
  ASSUME FreshAll, [Next]_vars, scene.screen \notin WithoutRevision, NEW call \in calls',
         \A old \in calls : old.n # call.n
  PROVE  AnsweredForNow(call)
<1> SUFFICES ASSUME call.via = "attempt", call.undoes = Nobodys, Landed(call.op),
                    receipts[call.op].from < receipts[call.op].reply.rev
    PROVE  shown.rev < receipts[call.op].reply.rev
    BY DEF AnsweredForNow
<1>0. CallInv /\ KeepInv /\ KeyInv  BY DEF FreshAll, UndoneInv, RepeatInv
<1>1. CASE Press
  <2>1. PICK c0 \in Offered(shown, User) : Begin(Resumed(c0), Nobodys)
    BY <1>1 DEF Press
  <2>2. scene.screen \in Screens  BY <1>0, ScenesAssumption DEF KeepInv
  <2>3. Sound(c0)  BY <2>1, <2>2, OfferedSound DEF AreSound
  <2> DEFINE c == Resumed(c0)
             a == prepareCommandAttempt(c)
  <2>4. c.key = c0.key /\ c.via = c0.via  BY <2>3, ResumedIs DEF Sound
  <2>5. ~Conflicts(c)  BY <2>1 DEF Begin
  <2>6. Prepared(c, a)  BY <1>0, <2>3, <2>5, Preparing
  <2>7. call.op = a.op /\ call.via = c.via
    <3>1. \A new \in calls' : new \in calls \/ (new.op = a.op /\ new.via = c.via)
      BY <2>1 DEF Begin
    <3> QED  BY <3>1
  <2> HIDE DEF a, c
  <2>8. call.op \in 1..presses  BY <1>0 DEF KeyInv, KeysOf, Landed
  <2>9. c.key \in DOMAIN attempts /\ call.op = attempts[c.key].op
    BY <1>0, <2>6, <2>7, <2>8 DEF Prepared, WithItsId, CallInv, CallsOK
  <2> QED  BY <2>4, <2>7, <2>9, FreshPress
<1>2. CASE PressUndo
  <2>1. PICK o \in offer : \E c \in UndoCommands(o) : Begin(c, o.op)
    BY <1>2 DEF PressUndo
  <2>2. \A new \in calls' : new \in calls \/ new.undoes = o.op  BY <2>1 DEF Begin
  <2>3. call.undoes = o.op  BY <2>2
  <2>4. o.op \in 1..presses  BY DEF FreshAll, FreshInv, OfferInv
  <2> QED  BY <1>0, <2>3, <2>4 DEF Nobodys, CallInv, CallsOK
<1>3. CASE ~Press /\ ~PressUndo
  BY <1>0, <1>3, StepsFlow DEF Flows
<1> QED  BY <1>1, <1>2, <1>3

\* A press that is answered from the receipt of an operation done before was made on a
\* screen that did not show that operation's effect yet, on every screen whose keys name
\* a revision: nobody is told "done" of something that was done, seen and undone since.
THEOREM SuccessIsNews == Spec => SuccessIsFresh
<1>1. FreshAll /\ [Next]_vars =>
        [scene.screen \notin WithoutRevision
          => \A call \in calls' : (\A old \in calls : old.n # call.n) => AnsweredForNow(call)]_vars
  BY FreshAnswers
<1>2. Init => FreshAll  BY UndoneInit, FreshInit DEF FreshAll
<1> QED  BY <1>2, FreshStep, <1>1, PTL DEF Spec, SuccessIsFresh

-----------------------------------------------------------------------------
(* The kind of the row, and the commands meant for it.                      *)

Persons == {User, Partner}

TaskCommand(endpoint, body) ==
    \/ endpoint = "complete-task"
         /\ body.action \in {"complete", "codmon_submitted", "reopen", "could_not_do", "could_not_do_undo"}
    \/ endpoint = "set-subtask-completion" /\ body.arg \in Box
    \/ endpoint = "change-task-assignment" /\ body.action \in {"claim", "release", "takeover"}
    \/ endpoint = "change-task-assignment" /\ body.action = "agreed" /\ body.arg \in Persons
    \/ endpoint \in {"cancel-task", "set-task-waiting", "routine-session-item-action"}

GoodsCommand(endpoint, body) ==
    \/ endpoint \in {"order-shopping-item", "purchase-shopping-item", "arrive-shopping-item",
                     "reopen-shopping-item", "cancel-shopping-item"}
    \/ endpoint = "assign-shopping-item" /\ body.arg \in {"unassigned", "anyone"} \union Persons
    \/ endpoint = "claim-shopping-item" /\ body.action \in {"claim", "release", "takeover"}

RequestCommand(endpoint, body) ==
    \/ endpoint \in RequestEndpoints /\ body.action \in RequestAnswers
    \/ endpoint = "start-request-followup"

DayCommand(endpoint, body) ==
    /\ endpoint = "transport-schedule"
    /\ \/ body.action = "set_override" /\ body.arg \in Persons
       \/ body.action \in {"delete_override", "clear_day"}

ReviewCommand(endpoint, body) ==
    \/ endpoint \in {"resolve-google-event-review", "confirm-event-plan", "confirm-nursery-review",
                     "resolve-nursery-ambiguity"}
    \/ endpoint = "transport-schedule" /\ body.action = "respond_conflict_review"

SetupCommand(endpoint, body) ==
    \/ endpoint \in {"create-household", "join-household", "create-household-invite",
                     "configure-dropoff-pickup", "configure-evening-routines"}
    \/ /\ endpoint = "complete-onboarding-step"
       /\ \/ body.action = "complete_step" /\ body.arg \in AllSteps
          \/ body.action \in {"finish_later", "reissue_invite"}

SettingCommand(endpoint, body) ==
    /\ \/ endpoint \in {"update-routine-schedule", "change-recurrence", "deactivate-recurrence",
                        "update-notification-preferences", "update-task-categories",
                        "update-household-terminology"}
       \/ endpoint = "transport-schedule" /\ body.action = "save_template"
    /\ body.arg \in {"on", "off", Nobody} \union Persons

\* Commands that write rows of their own, or only move the revision.
StateStill(endpoint, body) ==
    \/ Still(endpoint, body.action)
    \/ endpoint = "edit-task" /\ body.action \in {"record_progress", "save"}
    \/ endpoint \in {"send-request", "confirm-request-draft", "create-line-link-token",
                     "record-unplanned-actual", "create-assignment-change-request",
                     "add-task-completion-evidence", "correct-task-actual", "commit-concierge-duplicate"}
    \/ endpoint = "complete-onboarding-step" /\ body.action = "save_context"

\* A command is meant for the rows of its panel.
Meant(screen, endpoint, body) ==
    \/ StateStill(endpoint, body)
    \/ StatesOf(screen) = TaskState /\ TaskCommand(endpoint, body)
    \/ StatesOf(screen) = ShoppingState /\ GoodsCommand(endpoint, body)
    \/ StatesOf(screen) = RequestState /\ RequestCommand(endpoint, body)
    \/ screen = "note" /\ endpoint = "mark-handover-read"
    \/ screen = "day" /\ DayCommand(endpoint, body)
    \/ StatesOf(screen) = ReviewState /\ ReviewCommand(endpoint, body)
    \/ StatesOf(screen) = SetupState /\ SetupCommand(endpoint, body)
    \/ screen = "roles" /\ endpoint = "set-family-role" /\ body.arg \in Persons /\ body.text \in Roles
    \/ StatesOf(screen) = SettingState /\ SettingCommand(endpoint, body)

\* A panel sends a payload of the client's shape, meant for its rows.
Proper(endpoint, body) == body \in Bodies /\ Meant(scene.screen, endpoint, body)

LEMMA ReplyKind ==
  ASSUME NEW S, NEW row, row.state \in S, NEW checks, NEW next, next.state \in S, NEW made
  PROVE  Reply(row, checks, next, made).item.state \in S
BY DEF Reply

LEMMA BumpState == \A row, state : Bump(row, state).state = state
BY DEF Bump

LEMMA StateStays ==
  ASSUME NEW row, NEW endpoint, NEW body, StateStill(endpoint, body), NEW who
  PROVE  ServeAll(endpoint, row, body, who).item.state = row.state
<1>1. \A checks, made : /\ Reply(row, checks, row, made).item.state = row.state
                        /\ Reply(row, checks, Bump(row, row.state), made).item.state = row.state
  BY DEF Reply, Bump
<1>2. CASE Still(endpoint, body.action)
  BY <1>2, StillStays
<1>3. CASE endpoint = "edit-task" /\ body.action \in {"record_progress", "save"}
  <2>1. edit_task(row, body, who).item.state = row.state  BY <1>1, <1>3 DEF edit_task
  <2> QED  BY <1>3, <2>1 DEF ServeAll, ServeFamily, Serve
<1>4. CASE endpoint \in {"send-request", "confirm-request-draft", "create-line-link-token", "record-unplanned-actual"}
  <2>1. Created(row, body, who).item.state = row.state  BY <1>1 DEF Created
  <2> QED  BY <1>4, <2>1 DEF ServeAll, ServeFamily, create_line_link_token, record_unplanned_actual
<1>5. CASE endpoint \in {"create-assignment-change-request", "add-task-completion-evidence", "correct-task-actual"}
  <2>1. /\ create_assignment_change_request(row, body, who).item.state = row.state
        /\ add_task_completion_evidence(row, body, who).item.state = row.state
        /\ correct_task_actual(row, body, who).item.state = row.state
    BY <1>1 DEF create_assignment_change_request, add_task_completion_evidence, correct_task_actual
  <2> QED  BY <1>5, <2>1 DEF ServeAll, ServeFamily, Serve
<1>6. CASE endpoint = "commit-concierge-duplicate"
  <2>1. commit_concierge_duplicate(row, body, who).item.state = row.state
    BY <1>1 DEF commit_concierge_duplicate
  <2> QED  BY <1>6, <2>1 DEF ServeAll
<1>7. CASE endpoint = "complete-onboarding-step" /\ body.action = "save_context"
  <2>1. save_context(row, body, who).item.state = row.state
    BY <1>1 DEF save_context
  <2> QED  BY <1>7, <2>1 DEF ServeAll
<1> QED  BY <1>2, <1>3, <1>4, <1>5, <1>6, <1>7 DEF StateStill

LEMMA TaskKind ==
  ASSUME NEW row, IsRow(row), row.state \in TaskState, NEW endpoint, NEW body, TaskCommand(endpoint, body), NEW who \in Persons
  PROVE  ServeAll(endpoint, row, body, who).item.state \in TaskState
<1> DEFINE t == row.state
<1>1. \A status \in {"todo", "completed", "could_not_do", "cancelled"}, ticked \in SUBSET Box,
         to \in Persons, whom \in Persons \union {Nobody}, waits \in BOOLEAN :
         /\ Closed(t, status, ticked) \in TaskState
         /\ [t EXCEPT !.status = status] \in TaskState
         /\ [t EXCEPT !.status = status, !.ticked = ticked] \in TaskState
         /\ [t EXCEPT !.claim = whom] \in TaskState
         /\ [t EXCEPT !.assignment = to, !.claim = Nobody] \in TaskState
         /\ [t EXCEPT !.waiting = waits] \in TaskState
  BY DEF TaskState, Closed, Persons
<1>2. \A checks, next, made : next.state \in TaskState => Reply(row, checks, next, made).item.state \in TaskState
  BY ReplyKind
<1>3. \A checks, state, made : state \in TaskState => Reply(row, checks, Bump(row, state), made).item.state \in TaskState
  BY <1>2, BumpState
<1>4. t.ticked \in SUBSET Box  BY DEF TaskState
<1>5. CASE endpoint = "complete-task"
  <2>1. \A checks, made : \A status \in {"completed", "could_not_do"}, ticked \in SUBSET Box :
           Reply(row, checks, Bump(row, Closed(t, status, ticked)), made).item.state \in TaskState
    BY <1>1, <1>3
  <2>2. \A checks, made : Reply(row, checks, Bump(row, [t EXCEPT !.status = "todo"]), made).item.state \in TaskState
    BY <1>1, <1>3
  <2>3. Complete(row, body, who).item.state \in TaskState /\ SubmitCodmon(row, body, who).item.state \in TaskState
    BY <2>1 DEF Complete, SubmitCodmon
  <2>4. Reopen(row, body, who).item.state \in TaskState /\ CouldNotDo(row, body, who).item.state \in TaskState
    BY <1>4, <2>1, <2>2 DEF Reopen, CouldNotDo
  <2> QED  BY <1>5, <2>3, <2>4 DEF TaskCommand, ServeAll, ServeFamily, Serve, complete_task
<1>6. CASE endpoint = "cancel-task"
  <2>1. [row EXCEPT !.state.status = "cancelled"].state = [t EXCEPT !.status = "cancelled"]
    BY DEF IsRow
  <2>2. cancel_task(row, body, who).item.state \in TaskState
    BY <1>1, <1>2, <2>1 DEF cancel_task
  <2> QED  BY <1>6, <2>2 DEF ServeAll, ServeFamily, Serve
<1>7. CASE endpoint = "set-subtask-completion"
  <2>0. body.arg \in Box  BY <1>7 DEF TaskCommand
  <2> DEFINE ticked == IF body.action = "tick" THEN t.ticked \union {body.arg} ELSE t.ticked \ {body.arg}
  <2>1. ticked \in SUBSET Box  BY <1>4, <2>0
  <2>2. PICK checks : set_subtask_completion(row, body, who)
          = Reply(row, checks, IF ticked = t.ticked THEN row
                               ELSE IF ticked = Box THEN Bump(row, Closed(t, "completed", Box))
                               ELSE Bump(row, [t EXCEPT !.status = "todo", !.ticked = ticked]), FALSE)
    BY DEF set_subtask_completion
  <2> HIDE DEF ticked
  <2>3. Closed(t, "completed", Box) \in TaskState /\ [t EXCEPT !.status = "todo", !.ticked = ticked] \in TaskState
    BY <1>1, <2>1
  <2>4. set_subtask_completion(row, body, who).item.state \in TaskState
    BY <1>2, <1>3, <2>2, <2>3
  <2> QED  BY <1>7, <2>4 DEF ServeAll, ServeFamily, Serve
<1>8. CASE endpoint = "set-task-waiting"
  <2>1. \A checks, made : \A waits \in BOOLEAN : Reply(row, checks, Bump(row, [t EXCEPT !.waiting = waits]), made).item.state \in TaskState
    BY <1>1, <1>3
  <2>2. (body.action # "resume") \in BOOLEAN  OBVIOUS
  <2>3. set_task_waiting(row, body, who).item.state \in TaskState
    BY <2>1, <2>2 DEF set_task_waiting
  <2> QED  BY <1>8, <2>3 DEF ServeAll, ServeFamily, Serve
<1>9. CASE endpoint = "change-task-assignment"
  <2>1. \A checks, made : \A whom \in Persons \union {Nobody} :
           Reply(row, checks, Bump(row, [t EXCEPT !.claim = whom]), made).item.state \in TaskState
    BY <1>1, <1>3
  <2>2. \A checks, made : \A to \in Persons :
           Reply(row, checks, Bump(row, [t EXCEPT !.assignment = to, !.claim = Nobody]), made).item.state \in TaskState
    BY <1>1, <1>3
  <2>3. \/ body.action \in {"claim", "release", "takeover"}
        \/ body.action = "agreed" /\ body.arg \in Persons
    BY <1>9 DEF TaskCommand
  <2>4. change_task_assignment(row, body, who).item.state \in TaskState
    BY <2>1, <2>2, <2>3 DEF change_task_assignment
  <2> QED  BY <1>9, <2>4 DEF ServeAll, ServeFamily, Serve
<1>10. CASE endpoint = "routine-session-item-action"
  <2>1. \A checks, made : \A status \in {"completed", "could_not_do", "cancelled"} :
           Reply(row, checks, Bump(row, Closed(t, status, t.ticked)), made).item.state \in TaskState
    BY <1>1, <1>3, <1>4
  <2>2. routine_session_item_action(row, body, who).item.state \in TaskState
    BY <2>1 DEF routine_session_item_action
  <2> QED  BY <1>10, <2>2 DEF ServeAll, ServeFamily
<1> QED  BY <1>5, <1>6, <1>7, <1>8, <1>9, <1>10 DEF TaskCommand

LEMMA GoodsKind ==
  ASSUME NEW row, row.state \in ShoppingState, NEW endpoint, NEW body, GoodsCommand(endpoint, body), NEW who \in Persons
  PROVE  ServeAll(endpoint, row, body, who).item.state \in ShoppingState
<1> DEFINE s == row.state
           Status == {"wanted", "assigned", "ordered", "purchased", "arrived", "cancelled"}
<1>1. \A status \in Status, whom \in Persons \union {Nobody}, to \in {"unassigned", "anyone"} \union Persons :
         /\ [s EXCEPT !.status = status, !.claim = Nobody] \in ShoppingState
         /\ [s EXCEPT !.claim = whom] \in ShoppingState
         /\ [s EXCEPT !.assignment = to] \in ShoppingState
  BY DEF ShoppingState, Persons
<1>2. \A checks, state, made : state \in ShoppingState => Reply(row, checks, Bump(row, state), made).item.state \in ShoppingState
  BY ReplyKind, BumpState
<1>3. \A checks, made : \A status \in Status :
         Reply(row, checks, Bump(row, [s EXCEPT !.status = status, !.claim = Nobody]), made).item.state \in ShoppingState
  BY <1>1, <1>2
<1>4. CASE endpoint \in {"order-shopping-item", "purchase-shopping-item", "arrive-shopping-item"}
  <2>1. \A ok : /\ Recorded(row, body, who, ok, "ordered").item.state \in ShoppingState
                /\ Recorded(row, body, who, ok, "purchased").item.state \in ShoppingState
                /\ Recorded(row, body, who, ok, "arrived").item.state \in ShoppingState
    BY <1>3 DEF Recorded
  <2>2. /\ order_shopping_item(row, body, who).item.state \in ShoppingState
        /\ purchase_shopping_item(row, body, who).item.state \in ShoppingState
        /\ arrive_shopping_item(row, body, who).item.state \in ShoppingState
    BY <2>1 DEF order_shopping_item, purchase_shopping_item, arrive_shopping_item
  <2> QED  BY <1>4, <2>2 DEF ServeAll, ServeFamily, Serve
<1>5. CASE endpoint \in {"reopen-shopping-item", "cancel-shopping-item"}
  <2>1. Resting(s) \in Status  BY DEF Resting
  <2>2. /\ reopen_shopping_item(row, body, who).item.state \in ShoppingState
        /\ cancel_shopping_item(row, body, who).item.state \in ShoppingState
    BY <1>3, <2>1 DEF reopen_shopping_item, cancel_shopping_item
  <2> QED  BY <1>5, <2>2 DEF ServeAll, ServeFamily, Serve
<1>6. CASE endpoint = "assign-shopping-item"
  <2> DEFINE given == [s EXCEPT !.assignment = body.arg]
             next == [given EXCEPT !.status = Resting(given), !.claim = Nobody]
  <2>1. given \in ShoppingState  BY <1>1, <1>6 DEF GoodsCommand
  <2>2. Resting(given) \in {"wanted", "assigned"}  BY DEF Resting
  <2>3. \E checks : assign_shopping_item(row, body, who) = Reply(row, checks, Bump(row, next), FALSE)
    BY DEF assign_shopping_item
  <2> HIDE DEF given
  <2>4. next \in ShoppingState  BY <2>1, <2>2 DEF ShoppingState
  <2> HIDE DEF next
  <2>5. assign_shopping_item(row, body, who).item.state \in ShoppingState  BY <1>2, <2>3, <2>4
  <2> QED  BY <1>6, <2>5 DEF ServeAll, ServeFamily, Serve
<1>7. CASE endpoint = "claim-shopping-item"
  <2>1. \A checks, made : \A whom \in Persons \union {Nobody} :
           Reply(row, checks, Bump(row, [s EXCEPT !.claim = whom]), made).item.state \in ShoppingState
    BY <1>1, <1>2
  <2>2. claim_shopping_item(row, body, who).item.state \in ShoppingState
    BY <1>7, <2>1 DEF GoodsCommand, claim_shopping_item
  <2> QED  BY <1>7, <2>2 DEF ServeAll, ServeFamily, Serve
<1> QED  BY <1>4, <1>5, <1>6, <1>7 DEF GoodsCommand

LEMMA RequestKind ==
  ASSUME NEW row, IsRow(row), row.state \in RequestState, NEW endpoint, NEW body, RequestCommand(endpoint, body),
         NEW who \in Persons
  PROVE  ServeAll(endpoint, row, body, who).item.state \in RequestState
<1> DEFINE q == row.state
           Status == {"pending", "checking", "consulting", "awaiting_confirmation", "accepted", "declined", "cancelled"}
<1>1. \A status \in Status, confirmed \in SUBSET Persons :
         /\ [q EXCEPT !.status = status] \in RequestState
         /\ [q EXCEPT !.status = status, !.confirmed = confirmed] \in RequestState
         /\ [q EXCEPT !.confirmed = confirmed, !.status = status] \in RequestState
  BY DEF RequestState, Persons
<1>2. \A checks, next, made : next.state \in RequestState => Reply(row, checks, next, made).item.state \in RequestState
  BY ReplyKind
<1>3. \A checks, state, made : state \in RequestState => Reply(row, checks, Bump(row, state), made).item.state \in RequestState
  BY <1>2, BumpState
<1>4. CASE endpoint \in RequestEndpoints
  <2>1. body.action \in RequestAnswers
    BY <1>4 DEF RequestCommand, RequestEndpoints
  <2>2. {} \in SUBSET Persons /\ q.confirmed \union {who} \in SUBSET Persons  BY DEF RequestState, Persons
  <2> DEFINE status == IF q.confirmed \union {who} = Persons THEN "accepted" ELSE "awaiting_confirmation"
             agreed == [q EXCEPT !.confirmed = q.confirmed \union {who}, !.status = status]
             edited == [q EXCEPT !.status = "consulting", !.confirmed = {}]
  <2>4. status \in Status  OBVIOUS
  <2>5. agreed \in RequestState /\ edited \in RequestState  BY <1>1, <2>2, <2>4
  <2>6. \E checks, state : state \in RequestState /\ transition(row, body, who) = Reply(row, checks, Bump(row, state), FALSE)
    <3>1. CASE body.action = "edit_terms"
      <4>1. \E checks : transition(row, body, who) = Reply(row, checks, Bump(row, edited), FALSE)
        BY <3>1 DEF transition
      <4> QED  BY <2>5, <4>1
    <3>2. CASE body.action = "confirm_terms"
      <4>1. \E checks : transition(row, body, who) = Reply(row, checks, Bump(row, agreed), FALSE)
        BY <3>2 DEF transition, Persons
      <4> QED  BY <2>5, <4>1
    <3>3. CASE body.action \in {"accept", "decline", "checking", "consult", "cancel"}
      <4> DEFINE Becomes(to) == \E checks : transition(row, body, who)
                                   = Reply(row, checks, Bump(row, [q EXCEPT !.status = to]), FALSE)
      <4>1. body.action = "accept" => Becomes("accepted")  BY DEF transition
      <4>2. body.action = "decline" => Becomes("declined")  BY DEF transition
      <4>3. body.action = "checking" => Becomes("checking")  BY DEF transition
      <4>4. body.action = "consult" => Becomes("consulting")  BY DEF transition
      <4>5. body.action = "cancel" => Becomes("cancelled")  BY DEF transition
      <4> HIDE DEF Becomes
      <4>6. \E to \in {"accepted", "declined", "checking", "consulting", "cancelled"} : Becomes(to)
        BY <3>3, <4>1, <4>2, <4>3, <4>4, <4>5
      <4> QED  BY <1>1, <2>2, <4>6 DEF Becomes
    <3> QED  BY <2>1, <3>1, <3>2, <3>3 DEF RequestAnswers
  <2>3. transition(row, body, who).item.state \in RequestState
    BY <1>3, <2>6
  <2> QED  BY <1>4, <2>3 DEF ServeAll, ServeFamily, RequestEndpoints
<1>5. CASE endpoint = "start-request-followup"
  <2>1. [row EXCEPT !.state.followup = TRUE].state = [q EXCEPT !.followup = TRUE]  BY DEF IsRow
  <2>2. [q EXCEPT !.followup = TRUE] \in RequestState  BY DEF RequestState
  <2>3. start_request_followup(row, body, who).item.state \in RequestState
    BY <1>2, <2>1, <2>2 DEF start_request_followup
  <2> QED  BY <1>5, <2>3 DEF ServeAll, ServeFamily
<1> QED  BY <1>4, <1>5 DEF RequestCommand

LEMMA NoteKind ==
  ASSUME NEW row, IsRow(row), row.state \in HandoverState, NEW body, NEW who \in Persons
  PROVE  ServeAll("mark-handover-read", row, body, who).item.state \in HandoverState
<1> DEFINE h == row.state
<1>1. \A checks, next, made : next.state \in HandoverState => Reply(row, checks, next, made).item.state \in HandoverState
  BY ReplyKind
<1>2. Bump(row, [h EXCEPT !.status = "expired"]).state \in HandoverState
  BY BumpState DEF HandoverState
<1>3. [row EXCEPT !.state.read = @ \union {who}].state = [h EXCEPT !.read = h.read \union {who}]  BY DEF IsRow
<1>4. [h EXCEPT !.read = h.read \union {who}] \in HandoverState  BY DEF HandoverState, Persons
<1>5. mark_handover_read(row, body, who).item.state \in HandoverState
  BY <1>1, <1>2, <1>3, <1>4 DEF mark_handover_read
<1> QED  BY <1>5 DEF ServeAll, ServeFamily

LEMMA DayKind ==
  ASSUME NEW row, row.state \in DayState, NEW endpoint, NEW body, DayCommand(endpoint, body), NEW who \in Persons
  PROVE  ServeAll(endpoint, row, body, who).item.state \in DayState
<1>1. \A checks, state, made : state \in DayState => Reply(row, checks, Bump(row, state), made).item.state \in DayState
  BY ReplyKind, BumpState
<1>2. /\ \A to \in Persons : [transport |-> TRUE, override |-> to] \in DayState
      /\ [row.state EXCEPT !.override = Nobody] \in DayState
      /\ [transport |-> FALSE, override |-> Nobody] \in DayState
  BY DEF DayState, Persons
<1>3. transport_schedule(row, body, who).item.state \in DayState
  BY <1>1, <1>2 DEF DayCommand, transport_schedule
<1> QED  BY <1>3 DEF DayCommand, ServeAll, ServeFamily

LEMMA ReviewKind ==
  ASSUME NEW row, row.state \in ReviewState, NEW endpoint, NEW body, ReviewCommand(endpoint, body), NEW who \in Persons
  PROVE  ServeAll(endpoint, row, body, who).item.state \in ReviewState
<1>1. \A checks, state, made : state \in ReviewState => Reply(row, checks, Bump(row, state), made).item.state \in ReviewState
  BY ReplyKind, BumpState
<1>2. \A answers \in SUBSET Persons, status \in {"pending", "resolved"} :
         /\ [row.state EXCEPT !.answers = answers, !.status = status] \in ReviewState
         /\ [row.state EXCEPT !.status = status] \in ReviewState
  BY DEF ReviewState, Persons
<1>3. row.state.answers \union {who} \in SUBSET Persons  BY DEF ReviewState, Persons
<1>4. \A closed, stale : Decides(row, body, who, closed, stale).item.state \in ReviewState
  BY <1>1, <1>2, <1>3 DEF Decides
<1>5. /\ resolve_google_event_review(row, body, who).item.state \in ReviewState
      /\ confirm_event_plan(row, body, who).item.state \in ReviewState
      /\ respond_conflict_review(row, body, who).item.state \in ReviewState
      /\ confirm_nursery_review(row, body, who).item.state \in ReviewState
  BY <1>4 DEF resolve_google_event_review, confirm_event_plan, respond_conflict_review, confirm_nursery_review
<1>6. resolve_nursery_ambiguity(row, body, who).item.state \in ReviewState
  BY <1>1, <1>2 DEF resolve_nursery_ambiguity
<1> QED  BY <1>5, <1>6 DEF ReviewCommand, ServeAll, ServeFamily

LEMMA SetupKind ==
  ASSUME NEW row, row.state \in SetupState, NEW endpoint, NEW body, SetupCommand(endpoint, body), NEW who \in Persons
  PROVE  ServeAll(endpoint, row, body, who).item.state \in SetupState
<1> DEFINE s == row.state
<1>0. s.members \in SUBSET Persons /\ s.done \in SUBSET AllSteps  BY DEF SetupState, Persons
<1>1. \A members \in SUBSET Persons, invite \in {"live", "used"}, done \in SUBSET AllSteps :
         /\ [s EXCEPT !.members = members] \in SetupState
         /\ [s EXCEPT !.members = members, !.invite = invite] \in SetupState
         /\ [s EXCEPT !.invite = invite] \in SetupState
         /\ [s EXCEPT !.done = done] \in SetupState
  BY DEF SetupState, Persons
<1>2. \A checks, next, made : next.state \in SetupState => Reply(row, checks, next, made).item.state \in SetupState
  BY ReplyKind
<1>3. \A checks, state, made : state \in SetupState => Reply(row, checks, Bump(row, state), made).item.state \in SetupState
  BY <1>2, BumpState
<1>4. CASE endpoint = "create-household"
  <2>1. {who} \in SUBSET Persons  OBVIOUS
  <2>2. create_household(row, body, who).item.state \in SetupState  BY <1>1, <1>3, <2>1 DEF create_household
  <2> QED  BY <1>4, <2>2 DEF ServeAll
<1>5. CASE endpoint = "join-household"
  <2>1. s.members \union {who} \in SUBSET Persons  BY <1>0
  <2>2. [s EXCEPT !.members = s.members \union {who}, !.invite = "used"] \in SetupState  BY <1>1, <2>1
  <2>3. join_household(row, body, who).item.state \in SetupState  BY <1>3, <2>2 DEF join_household
  <2> QED  BY <1>5, <2>3 DEF ServeAll
<1>6. CASE endpoint = "create-household-invite"
  <2>1. create_household_invite(row, body, who).item.state \in SetupState
    BY <1>1, <1>3 DEF create_household_invite
  <2> QED  BY <1>6, <2>1 DEF ServeAll
<1>7. \A step \in AllSteps : [s EXCEPT !.done = s.done \union {step}] \in SetupState
  <2> SUFFICES ASSUME NEW step \in AllSteps PROVE [s EXCEPT !.done = s.done \union {step}] \in SetupState  OBVIOUS
  <2>1. s.done \union {step} \in SUBSET AllSteps  BY <1>0
  <2> QED  BY <1>1, <2>1
<1>8. CASE endpoint \in {"configure-dropoff-pickup", "configure-evening-routines"}
  <2>1. "dropoff_pickup" \in AllSteps /\ "evening" \in AllSteps
    <3>1. Len(WizardSteps) = 6 /\ WizardSteps[1] = "dropoff_pickup" /\ WizardSteps[2] = "evening"  BY DEF WizardSteps
    <3> QED  BY <3>1 DEF AllSteps
  <2>2. /\ configure_dropoff_pickup(row, body, who).item.state \in SetupState
        /\ configure_evening_routines(row, body, who).item.state \in SetupState
    BY <1>3, <1>7, <2>1 DEF configure_dropoff_pickup, configure_evening_routines
  <2> QED  BY <1>8, <2>2 DEF ServeAll
<1>9. CASE endpoint = "complete-onboarding-step" /\ body.action = "complete_step" /\ body.arg \in AllSteps
  <2>1. \A checks, made : Reply(row, checks, IF body.arg \in s.done THEN row ELSE Bump(row, [s EXCEPT !.done = s.done \union {body.arg}]),
                                made).item.state \in SetupState
    BY <1>2, <1>3, <1>7, <1>9
  <2>2. complete_onboarding_step(row, body, who).item.state \in SetupState
    BY <2>1 DEF complete_onboarding_step
  <2> QED  BY <1>9, <2>2 DEF ServeAll
<1>10. CASE endpoint = "complete-onboarding-step" /\ body.action \in {"finish_later", "reissue_invite"}
  <2>1. [s EXCEPT !.done = AllSteps] \in SetupState /\ [s EXCEPT !.invite = "live"] \in SetupState  BY <1>1
  <2>2. family_setup(row, body, who).item.state \in SetupState
    BY <1>3, <1>10, <2>1 DEF family_setup
  <2> QED  BY <1>10, <2>2 DEF ServeAll
<1> QED  BY <1>4, <1>5, <1>6, <1>8, <1>9, <1>10 DEF SetupCommand

LEMMA RoleKind ==
  ASSUME NEW row, row.state \in RoleState, NEW body, body.arg \in Persons, body.text \in Roles, NEW who \in Persons
  PROVE  ServeAll("set-family-role", row, body, who).item.state \in RoleState
<1> DEFINE roles == row.state.roles
           holder == Other(body.arg)
           givenUp == IF roles[body.arg] = "unset" THEN Swapped(body.text) ELSE roles[body.arg]
           taken == [roles EXCEPT ![body.arg] = body.text]
           next == [roles EXCEPT ![body.arg] = body.text, ![holder] = IF @ = body.text THEN givenUp ELSE @]
<1>1. roles \in [Persons -> Roles \union {"unset"}]  BY DEF RoleState, Persons
<1>2. holder \in Persons  BY DEF Other, Persons
<1>3. givenUp \in Roles \union {"unset"}  BY <1>1 DEF Swapped, Roles
<1>4. taken \in [Persons -> Roles \union {"unset"}]  BY <1>1
<1>5. next = [taken EXCEPT ![holder] = IF taken[holder] = body.text THEN givenUp ELSE taken[holder]]
  OBVIOUS
<1>6. \E checks : set_family_role(row, body, who)
         = Reply(row, checks, IF roles[body.arg] = body.text THEN row ELSE Bump(row, [roles |-> next]), FALSE)
  BY DEF set_family_role
<1> HIDE DEF givenUp, holder, taken, next
<1>7. next \in [Persons -> Roles \union {"unset"}]  BY <1>2, <1>3, <1>4, <1>5
<1>8. [roles |-> next] \in RoleState  BY <1>7 DEF RoleState, Persons
<1>9. set_family_role(row, body, who).item.state \in RoleState
  <2> DEFINE result == IF roles[body.arg] = body.text THEN row ELSE Bump(row, [roles |-> next])
  <2>1. result.state \in RoleState  BY <1>8, BumpState
  <2> HIDE DEF result
  <2>2. PICK checks : set_family_role(row, body, who) = Reply(row, checks, result, FALSE)
    BY <1>6 DEF result
  <2>3. Reply(row, checks, result, FALSE).item.state \in RoleState  BY <2>1, ReplyKind
  <2> QED  BY <2>2, <2>3
<1> QED  BY <1>9 DEF ServeAll

LEMMA SettingKind ==
  ASSUME NEW row, row.state \in SettingState, NEW endpoint, NEW body, SettingCommand(endpoint, body), NEW who \in Persons
  PROVE  ServeAll(endpoint, row, body, who).item.state \in SettingState
<1>1. [row.state EXCEPT !.value = body.arg] \in SettingState  BY DEF SettingCommand, SettingState, Persons
<1>2. \A checks, made : /\ Reply(row, checks, Bump(row, [row.state EXCEPT !.value = body.arg]), made).item.state \in SettingState
                        /\ Reply(row, checks, row, made).item.state \in SettingState
  BY <1>1, ReplyKind, BumpState
<1>3. Overwritten(row, body).item.state \in SettingState  BY <1>2 DEF Overwritten
<1>4. deactivate_recurrence(row, body, who).item.state \in SettingState  BY <1>2, <1>3 DEF deactivate_recurrence
<1> QED  BY <1>3, <1>4 DEF SettingCommand, ServeAll, update_routine_schedule, change_recurrence, update_notification_preferences,
             update_reminder_settings, update_task_categories, replace_household_terminology, save_template

\* Whatever is meant for the rows of a panel leaves a row of that panel.
LEMMA MeantKind ==
  ASSUME NEW row, IsRow(row), row.state \in StatesOf(scene.screen), NEW endpoint, NEW body,
         Meant(scene.screen, endpoint, body), NEW who \in Persons
  PROVE  ServeAll(endpoint, row, body, who).item.state \in StatesOf(scene.screen)
<1> DEFINE next == ServeAll(endpoint, row, body, who).item
           S == StatesOf(scene.screen)
<1>1. StateStill(endpoint, body) => next.state = row.state  BY StateStays
<1>2. S = TaskState /\ TaskCommand(endpoint, body) => next.state \in TaskState  BY TaskKind
<1>3. S = ShoppingState /\ GoodsCommand(endpoint, body) => next.state \in ShoppingState  BY GoodsKind
<1>4. S = RequestState /\ RequestCommand(endpoint, body) => next.state \in RequestState  BY RequestKind
<1>5. S = HandoverState /\ endpoint = "mark-handover-read" => next.state \in HandoverState  BY NoteKind
<1>6. S = DayState /\ DayCommand(endpoint, body) => next.state \in DayState  BY DayKind
<1>7. S = ReviewState /\ ReviewCommand(endpoint, body) => next.state \in ReviewState  BY ReviewKind
<1>8. S = SetupState /\ SetupCommand(endpoint, body) => next.state \in SetupState  BY SetupKind
<1>9. S = RoleState /\ endpoint = "set-family-role" /\ body.arg \in Persons /\ body.text \in Roles
        => next.state \in RoleState
  BY RoleKind
<1>10. S = SettingState /\ SettingCommand(endpoint, body) => next.state \in SettingState  BY SettingKind
<1>11. /\ scene.screen = "note" => S = HandoverState
       /\ scene.screen = "day" => S = DayState
       /\ scene.screen = "roles" => S = RoleState
  BY DEF StatesOf
<1> HIDE DEF next, S
<1>12. next.state \in S
  BY <1>1, <1>2, <1>3, <1>4, <1>5, <1>6, <1>7, <1>8, <1>9, <1>10, <1>11 DEF Meant, S
<1> QED  BY <1>12 DEF next, S

-----------------------------------------------------------------------------
(* What the panels send is meant for their rows.                            *)

AreProper(commands) == \A c \in commands : Proper(c.endpoint, c.body)

LEMMA Kinds ==
  ASSUME NEW screen
  PROVE  /\ screen \in {"row", "checklist", "waiting", "assignment", "progress", "evidence", "form",
                        "schedule", "today", "checkin"} => StatesOf(screen) = TaskState
         /\ screen \in ShoppingPanels => StatesOf(screen) = ShoppingState
         /\ screen \in {"request", "send"} => StatesOf(screen) = RequestState
         /\ screen \in {"google", "plan", "conflict", "nursery"} => StatesOf(screen) = ReviewState
         /\ screen \in {"household", "invite"} => StatesOf(screen) = SetupState
         /\ screen \in {"children", "setting"} => StatesOf(screen) = SettingState
BY DEF StatesOf, ShoppingPanels

ForTasks(commands) == \A c \in commands : c.body \in Bodies /\ TaskCommand(c.endpoint, c.body)
ForGoods(commands) == \A c \in commands : c.body \in Bodies /\ GoodsCommand(c.endpoint, c.body)

LEMMA TaskButtonsMeant ==
  ASSUME NEW row, row.rev \in Nat, NEW me
  PROVE  ForTasks(TaskButtons(row, me))
<1> USE DEF ForTasks, TaskCommand, Bodies, Actions, Arg, Texts, Attempted, Plain, Body, When, None
<1>1. ForTasks(handleComplete(row, me))
  BY DEF handleComplete
<1>2. ForTasks(handleReopen(row))
  BY DEF handleReopen
<1>3. ForTasks(handleCouldNotDo(row))
  BY DEF handleCouldNotDo
<1>4. ForTasks(handleCancel(row))
  BY DEF handleCancel
<1>5. ForTasks(handleAnyoneClaim(row, me))
  BY DEF handleAnyoneClaim
<1>6. runBulk(row, me) \subseteq handleCouldNotDo(row) \union handleComplete(row, me)
  BY DEF runBulk
<1> HIDE DEF Proper
<1> QED  BY <1>1, <1>2, <1>3, <1>4, <1>5, <1>6 DEF TaskButtons

LEMMA GoodsMeant ==
  ASSUME NEW row, row.rev \in Nat
  PROVE  ForGoods(primaryAction(row)) /\ ForGoods(menu(row))
<1> USE DEF ForGoods, GoodsCommand, Bodies, Actions, Arg, Texts, Attempted, Body, When, None, stable
<1>1. ForGoods(primaryAction(row))
  BY DEF primaryAction
<1>2. ForGoods(menu(row))
  BY DEF menu
<1> QED  BY <1>1, <1>2, Zenon

LEMMA OtherTaskScreensProper ==
  ASSUME StatesOf(scene.screen) = TaskState, NEW row, row.rev \in Nat, NEW me \in Persons
  PROVE  /\ AreProper(handleToggleSubtask(row, me))
         /\ AreProper(handleWaitingSubmit(row) \union handleResumeWaiting(row))
         /\ AreProper(handleAssignmentSubmit(row, me))
         /\ AreProper(WorkUpdateForm(row))
         /\ AreProper(handleEvidenceSubmit(row))
         /\ AreProper(TaskForm(row))
         /\ AreProper(toggleCheck(row) \union comment)
         /\ AreProper(resolveAssignment(row, me) \union saveActualCorrection(row))
         /\ AreProper(CheckinPage(row))
<1> USE DEF AreProper, Proper, Meant, TaskCommand, StateStill, Still, Persons, Other, Bodies, Actions, Arg,
            Texts, Attempted, Plain, Body, When, None
<1>1. AreProper(handleToggleSubtask(row, me))
  BY DEF handleToggleSubtask
<1>2. AreProper(handleWaitingSubmit(row) \union handleResumeWaiting(row))
  BY DEF handleWaitingSubmit, handleResumeWaiting
<1>3. AreProper(handleAssignmentSubmit(row, me))
  BY DEF handleAssignmentSubmit, assignmentDecisionCommand
<1>4. AreProper(WorkUpdateForm(row))
  <2> SUFFICES ASSUME NEW c \in WorkUpdateForm(row) PROVE Proper(c.endpoint, c.body)  OBVIOUS
  <2>1. PICK x \in Text : c = [Attempted(<<"work-progress">>, "edit-task",
                                        Body("record_progress", None, row.rev, x)) EXCEPT !.via = "resumes"]
    BY DEF WorkUpdateForm
  <2>2. c = [key |-> <<"work-progress">>, endpoint |-> "edit-task",
             body |-> Body("record_progress", None, row.rev, x), via |-> "resumes", undo |-> None]
    BY <2>1, ViaSet
  <2> QED  BY <2>2
<1>5. AreProper(handleEvidenceSubmit(row))
  BY DEF handleEvidenceSubmit
<1>6. AreProper(TaskForm(row))
  BY DEF TaskForm
<1>7. AreProper(toggleCheck(row) \union comment)
  BY DEF toggleCheck, comment
<1>8. AreProper(resolveAssignment(row, me) \union saveActualCorrection(row))
  BY DEF resolveAssignment, saveActualCorrection
<1>9. AreProper(CheckinPage(row))
  BY DEF CheckinPage, runItemAction, runSubtaskAction
<1> QED  BY <1>1, <1>2, <1>3, <1>4, <1>5, <1>6, <1>7, <1>8, <1>9, Zenon

LEMMA ShoppingScreensProper ==
  ASSUME StatesOf(scene.screen) = ShoppingState, NEW row, row.rev \in Nat, NEW me \in Persons
  PROVE  /\ AreProper(primaryAction(row)) /\ AreProper(menu(row)) /\ AreProper(purchaseSelected(row))
         /\ AreProper(ownership(row, me)) /\ AreProper(changeOwner(row, me))
         /\ AreProper(QuickAddShopping) /\ AreProper(AddShoppingItemForm) /\ AreProper(createTask)
         /\ \A recorded : AreProper(useShoppingUndo(row, recorded))
<1> USE DEF AreProper, Proper, Meant, GoodsCommand, StateStill, Still, Persons, Bodies, Actions, Arg, Texts,
            Attempted, Plain, Body, When, None
<1> USE DEF stable
<1>1. AreProper(primaryAction(row)) /\ AreProper(menu(row))
  <2> HIDE DEF GoodsCommand, Bodies
  <2> QED  BY GoodsMeant DEF ForGoods
<1>3. AreProper(purchaseSelected(row))
  BY DEF purchaseSelected
<1>4. AreProper(ownership(row, me))
  BY DEF ownership
<1>5. AreProper(changeOwner(row, me))
  BY DEF changeOwner
<1>6. AreProper(QuickAddShopping) /\ AreProper(AddShoppingItemForm) /\ AreProper(createTask)
  BY DEF QuickAddShopping, AddShoppingItemForm, createTask
<1>7. \A recorded : AreProper(useShoppingUndo(row, recorded))
  BY DEF useShoppingUndo
<1> HIDE DEF AreProper
<1> QED  BY <1>1, <1>3, <1>4, <1>5, <1>6, <1>7

LEMMA RequestScreensProper ==
  ASSUME StatesOf(scene.screen) = RequestState, NEW row, row.rev \in Nat, NEW me
  PROVE  /\ AreProper(RequestButtons(row, me))
         /\ AreProper(SendRequestForm \union ComposeHandoverForm)
<1> USE DEF AreProper, Proper, Meant, RequestCommand, RequestEndpoints, RequestAnswers, StateStill, Still,
            Persons, Bodies, Actions, Arg, Texts, Attempted, Plain, Body, When, None
<1>1. AreProper(respond(row))
  BY DEF respond
<1>2. AreProper(negotiate(row))
  BY DEF negotiate
<1>3. AreProper(OutgoingRequestRow(row))
  BY DEF OutgoingRequestRow
<1>4. AreProper(ComposeHandoverForm)
  BY DEF ComposeHandoverForm
<1>5. AreProper(SendRequestForm)
  <2> SUFFICES ASSUME NEW c \in SendRequestForm PROVE Proper(c.endpoint, c.body)  OBVIOUS
  <2>1. PICK endpoint \in {"send-request", "confirm-request-draft"}, x \in Text :
          c = [Attempted(<<"request:send">>, endpoint, Body("send", None, 0, x)) EXCEPT !.via = "resumes"]
    <3> HIDE DEF Attempted, Body, None
    <3> QED  BY DEF SendRequestForm
  <2>2. c = [key |-> <<"request:send">>, endpoint |-> endpoint, body |-> Body("send", None, 0, x),
             via |-> "resumes", undo |-> None]
    BY <2>1, ViaSet
  <2> QED  BY <2>2
<1> HIDE DEF Proper
<1> QED  BY <1>1, <1>2, <1>3, <1>4, <1>5 DEF RequestButtons, IncomingRequestRow

LEMMA ReviewScreensProper ==
  ASSUME StatesOf(scene.screen) = ReviewState, NEW row, row.rev \in Nat
  PROVE  /\ AreProper(resolveGoogleReview(row)) /\ AreProper(confirmEventPlan(row))
         /\ AreProper(respondReview(row)) /\ AreProper(NurseryReview(row))
<1> USE DEF AreProper, Proper, Meant, ReviewCommand, StateStill, Still, Persons, Bodies, Actions, Arg, Texts,
            Attempted, Plain, Body, When, None
<1>1. AreProper(resolveGoogleReview(row))
  BY DEF resolveGoogleReview
<1>2. AreProper(confirmEventPlan(row))
  BY DEF confirmEventPlan
<1>3. AreProper(respondReview(row))
  BY DEF respondReview
<1>4. AreProper(NurseryReview(row))
  BY DEF NurseryReview
<1> QED  BY <1>1, <1>2, <1>3, <1>4, Zenon

LEMMA NoteAndDayProper ==
  ASSUME NEW row, row.rev \in Nat, NEW me
  PROVE  /\ scene.screen = "note" => AreProper(HandoverActions(row, me))
         /\ scene.screen = "day" => AreProper(DayTransport(row))
<1> USE DEF AreProper, Proper, Meant, DayCommand, StateStill, Still, Persons, Bodies, Actions, Arg, Texts,
            Attempted, Plain, Body, When, None
<1>1. scene.screen = "note" => AreProper(HandoverActions(row, me))
  BY DEF HandoverActions
<1>2. scene.screen = "day" => AreProper(DayTransport(row))
  BY DEF DayTransport, clearDay, overrideDay
<1> QED  BY <1>1, <1>2, Zenon

LEMMA SetupScreensProper ==
  ASSUME StatesOf(scene.screen) = SetupState, NEW row, NEW me
  PROVE  AreProper(HouseholdGate(row, me)) /\ AreProper(InviteSection(row, me))
<1> USE DEF AreProper, Proper, Meant, SetupCommand, StateStill, Still, Persons, Bodies, Actions, Arg, Texts,
            Attempted, Plain, Body, When, None
<1> USE DEF Now
<1>0. \A key, endpoint, body : Proper(endpoint, body)
         => Proper(Formed(key, endpoint, body).endpoint, Formed(key, endpoint, body).body)
  <2> HIDE DEF Proper
  <2> QED  BY FormedIs
<1>1. \A x \in Text : /\ Proper("join-household", Body("join", None, 0, x))
                      /\ Proper("create-household", Body("create", None, 0, x))
                      /\ Proper("configure-dropoff-pickup", Body("configure", None, 0, x))
                      /\ Proper("configure-evening-routines", Body("configure", None, 0, x))
  OBVIOUS
<1>2. AreProper(JoinHouseholdForm(row.state)) /\ AreProper(HouseholdSetup(row.state))
      /\ AreProper(DropoffPickupStep) /\ AreProper(EveningRoutinesStep)
  <2> HIDE DEF Proper, Body
  <2> QED  BY <1>0, <1>1 DEF JoinHouseholdForm, HouseholdSetup, CreateHouseholdForm, DropoffPickupStep, EveningRoutinesStep
<1>3. AreProper(StartToday)
  BY DEF StartToday
<1>5. \A step \in AllSteps : AreProper(useCompleteStep(step))
  BY DEF useCompleteStep
<1>6. \A step \in AllSteps : AreProper(Wizard(step))
  <2> SUFFICES ASSUME NEW step \in AllSteps PROVE AreProper(Wizard(step))  OBVIOUS
  <2>1. AreProper(useCompleteStep(step))  BY <1>5
  <2>2. step \in {"dropoff_pickup", "evening", "morning_preparation", "connections", "notifications", "week_preview"}
    BY DEF AllSteps, WizardSteps
  <2> HIDE DEF AreProper
  <2> QED  BY <1>2, <2>1, <2>2 DEF Wizard, MorningPreparationStep, ConnectionsStep,
               RecommendedNotificationsStep, WeekPreviewStep
<1>7. AreProper(HouseholdGate(row, me))
  <2> HIDE DEF Proper
  <2> QED  BY <1>2, <1>3, <1>6, StepIsOne DEF HouseholdGate
<1>8. AreProper(InviteSection(row, me))
  <2>1. AreProper({Now("create-household-invite", "invite", None, None),
                   Now("complete-onboarding-step", "reissue_invite", None, None)})
    OBVIOUS
  <2> HIDE DEF Proper, Now
  <2> QED  BY <1>2, <2>1 DEF InviteSection
<1> QED  BY <1>7, <1>8, Zenon

LEMMA SettingScreensProper ==
  ASSUME NEW row
  PROVE  /\ scene.screen = "roles" => AreProper(FamilyRoles)
         /\ StatesOf(scene.screen) = SettingState
              => AreProper(ChildrenSettings \union LineLinkSection) /\ AreProper(Setting(row))
<1> USE DEF AreProper, Proper, Meant, SettingCommand, Roles, StateStill, Still, Persons, Bodies, Actions, Arg,
            Texts, Attempted, Plain, Body, When, None
<1>1. scene.screen = "roles" => AreProper(FamilyRoles)
  BY DEF FamilyRoles
<1>2. AreProper(ChildrenSettings \union LineLinkSection)
  BY DEF ChildrenSettings, LineLinkSection, Now
<1>3. ASSUME StatesOf(scene.screen) = SettingState PROVE AreProper(Setting(row))
  <2> USE <1>3 DEF Now
  <2>1. AreProper(handleSave(row)) /\ AreProper(toggle(row))
    BY DEF handleSave, toggle, Turned
  <2>2. /\ AreProper(ReminderSettingsSection) /\ AreProper(MorningNudgeSection) /\ AreProper(CategorySettings)
        /\ AreProper(HouseholdTerminology)
    BY DEF AsEdited, ReminderSettingsSection, MorningNudgeSection, CategorySettings, HouseholdTerminology
  <2>3. AreProper(DropoffPickupMatrix) /\ AreProper(TransportTemplateEditor)
    BY DEF DropoffPickupMatrix, TransportTemplateEditor
  <2>4. AreProper({})  OBVIOUS
  <2> HIDE DEF AreProper
  <2> QED  BY <2>1, <2>2, <2>3, <2>4 DEF Setting
<1> QED  BY <1>1, <1>2, <1>3

LEMMA CandidateRevisions ==
  ASSUME NEW row, row.rev \in Nat, NEW me
  PROVE  \A c \in proposeConciergeCandidates(row, me) :
            c.kind \in CandidateKinds /\ c.duplicate \in Nat /\ c.target \in Nat
<1> SUFFICES ASSUME NEW kind \in CandidateKinds, NEW c,
                    c = resolveHouseholdCandidate(attachCanonicalConciergeDuplicate(NewCandidate(kind), row), row, me)
    PROVE  c.kind \in CandidateKinds /\ c.duplicate \in Nat /\ c.target \in Nat
    BY DEF proposeConciergeCandidates
<1> DEFINE new == NewCandidate(kind)
           attached == attachCanonicalConciergeDuplicate(new, row)
<1>1. attached \in {new, [new EXCEPT !.duplicate = row.rev]}
  BY DEF attachCanonicalConciergeDuplicate
<1>2. c \in {attached, [attached EXCEPT !.target = row.rev], [attached EXCEPT !.missing = TRUE]}
  BY DEF resolveHouseholdCandidate
<1> HIDE DEF attached
<1>3. attached = [kind |-> kind, duplicate |-> attached.duplicate, target |-> 0, missing |-> FALSE]
      /\ attached.duplicate \in Nat
  <2>1. CASE attached = new  BY <2>1 DEF NewCandidate
  <2>2. CASE attached = [new EXCEPT !.duplicate = row.rev]
    <3>1. attached = [kind |-> kind, duplicate |-> row.rev, target |-> 0, missing |-> FALSE]
      BY <2>2 DEF NewCandidate
    <3> QED  BY <3>1
  <2> QED  BY <1>1, <2>1, <2>2
<1> QED  BY <1>2, <1>3

LEMMA ConciergeProper ==
  ASSUME NEW row, row.rev \in Nat, NEW me \in Persons
  PROVE  AreProper(ConciergePage(row, me))
<1> USE DEF AreProper, Proper, Meant, StateStill, Still, Persons, Bodies, Actions, Arg, Texts, Attempted, Plain,
            Body, When, None
<1> USE DEF Confirmed
<1> DEFINE Candidate(c) == c.kind \in CandidateKinds /\ c.duplicate \in Nat /\ c.target \in Nat
<1>1. \A c \in proposeConciergeCandidates(row, me) : Candidate(c)
  BY CandidateRevisions
<1>2. \A c : \A x \in Text : Candidate(c) => AreProper(updateCommand(c, x))
  BY DEF updateCommand
<1>3. \A c : \A x \in Text :
         /\ AreProper({taskCommand(c, x)}) /\ AreProper({shoppingCommand(c, x)}) /\ AreProper({shareCommand(c, x)})
         /\ AreProper({actualCommand(c, x)}) /\ AreProper({requestCommand(c, x)})
  BY DEF taskCommand, shoppingCommand, shareCommand, actualCommand, requestCommand
<1>4. \A c : \A x \in Text : Candidate(c) => AreProper({takeoverCommand(c, me, x)})
  BY DEF takeoverCommand, Other
<1> HIDE DEF Proper
<1>5. \A c : \A x \in Text : Candidate(c) => AreProper(buildConfirmedCommand(c, me, x))
  BY <1>2, <1>3, <1>4 DEF buildConfirmedCommand, CandidateKinds
<1> HIDE DEF Candidate
<1>6. ASSUME NEW d \in ConciergePage(row, me) PROVE Proper(d.endpoint, d.body)
  <2>1. PICK c \in proposeConciergeCandidates(row, me), x \in Text : d \in buildConfirmedCommand(c, me, x)
    <3> HIDE DEF Body, Confirmed, When, None
    <3> QED  BY <1>6 DEF ConciergePage
  <2>2. Candidate(c)
    <3> HIDE DEF Body, Confirmed, When, None, AreProper, Attempted, Plain, Bodies, Arg, Texts, Actions
    <3> QED  BY <1>1, <2>1
  <2>3. AreProper(buildConfirmedCommand(c, me, x))
    <3> HIDE DEF Body, Confirmed, When, None, AreProper, Attempted, Plain, Bodies, Arg, Texts, Actions
    <3> QED  BY <1>5, <2>2, Zenon
  <2> QED  BY <2>1, <2>3
<1> QED  BY <1>6

LEMMA OfferedProper ==
  ASSUME scene.screen \in Screens, NEW row, row.rev \in Nat, NEW me \in Persons
  PROVE  AreProper(Offered(row, me))
<1>1. scene.screen = "row" => AreProper(Offered(row, me))
  BY Kinds, TaskButtonsMeant DEF Offered, AreProper, Proper, Meant, ForTasks
<1>2. scene.screen \in {"checklist", "waiting", "assignment", "progress", "evidence", "form", "schedule", "today", "checkin"}
        => AreProper(Offered(row, me))
  BY Kinds, OtherTaskScreensProper DEF Offered
<1>3. scene.screen \in {"goods", "batch", "ownership", "anyone", "additions"} => AreProper(Offered(row, me))
  BY Kinds, ShoppingScreensProper DEF Offered, AreProper, ShoppingPanels
<1>4. scene.screen \in {"request", "send"} => AreProper(Offered(row, me))
  BY Kinds, RequestScreensProper DEF Offered
<1>5. scene.screen \in {"note", "day"} => AreProper(Offered(row, me))
  BY NoteAndDayProper DEF Offered
<1>6. scene.screen \in {"google", "plan", "conflict", "nursery"} => AreProper(Offered(row, me))
  BY Kinds, ReviewScreensProper DEF Offered
<1>7. scene.screen \in {"household", "invite"} => AreProper(Offered(row, me))
  BY Kinds, SetupScreensProper DEF Offered
<1>8. scene.screen \in {"roles", "children", "setting"} => AreProper(Offered(row, me))
  BY Kinds, SettingScreensProper DEF Offered
<1>9. scene.screen = "concierge" => AreProper(Offered(row, me))
  BY ConciergeProper DEF Offered
<1> QED  BY <1>1, <1>2, <1>3, <1>4, <1>5, <1>6, <1>7, <1>8, <1>9 DEF Screens

LEMMA UndoProper ==
  ASSUME KeepInv, OfferInv, item.rev \in Nat, NEW o \in offer
  PROVE  AreProper(UndoCommands(o))
<1>1. scene.screen \in ShoppingPanels \/ (scene.screen = "row" /\ o.undo \in {"reopen", "could_not_do_undo"})
  BY DEF KeepInv, OffersKeep
<1>2. o.rev \in Nat  BY DEF OfferInv
<1>3. CASE scene.screen = "row" /\ o.undo \in {"reopen", "could_not_do_undo"}
  <2>1. StatesOf(scene.screen) = TaskState  BY <1>3, Kinds
  <2> QED  BY <1>2, <1>3, <2>1 DEF UndoCommands, AreProper, Proper, Meant, TaskCommand, Bodies, Actions, Arg, Texts,
                                  Attempted, Body, None
<1>4. CASE scene.screen \in ShoppingPanels
  <2>1. StatesOf(scene.screen) = ShoppingState  BY <1>4, Kinds
  <2>2. UndoCommands(o) = useShoppingUndo(item, o.undo)  BY <1>4 DEF UndoCommands, KeepInv, OffersKeep, ShoppingPanels
  <2>3. AreProper(useShoppingUndo(item, o.undo))
    <3>1. User \in Persons  BY DEF Persons
    <3> QED  BY <2>1, <3>1, ShoppingScreensProper
  <2> QED  BY <2>2, <2>3
<1> QED  BY <1>1, <1>3, <1>4

-----------------------------------------------------------------------------
(* Types, step by step.                                                     *)

\* Numbers of presses, and operations drawn by them.
PressesOK == presses <= scene.presses

BodiesOK ==
    /\ \A k \in DOMAIN attempts : Proper(attempts[k].endpoint, attempts[k].body)
    /\ \A call \in calls : Proper(call.endpoint, call.body)
    /\ \A r \in wire : Proper(r.endpoint, r.body)
    /\ \A op \in DOMAIN receipts : receipts[op].body \in Bodies

UndoesOK ==
    /\ \A call \in calls : call.undoes \in 0..presses
    /\ Cardinality(offer) <= 1

\* The row, and what is or was seen of it.
OfKind(row) == row = [state |-> row.state, rev |-> row.rev] /\ row.state \in StatesOf(scene.screen)

RowsOK == OfKind(item) /\ OfKind(shown) /\ \A l \in loads : OfKind(l.row)

LoadsOK == latest \in Nat /\ \A l \in loads : l.n \in 1..latest

\* A request that has a caller is the only one of a call that still waits for its answer.
CallersOK ==
    /\ \A r \in wire : r.call # Nobodys => \E call \in calls : call.n = r.call /\ call.sent /\ call.reply.code = None
    /\ \A r, other \in wire : r.call = other.call /\ r.call # Nobodys => r = other
    /\ \A call \in calls : ~call.sent => call.reply.code = None

AuthorOK == author \in {Nobody, Partner} \union 1..presses

TypeInv == PressesOK /\ BodiesOK /\ UndoesOK /\ RowsOK /\ LoadsOK /\ CallersOK /\ AuthorOK

\* Whoever is at it, a row of a kind is only done what is meant for the kind.
LEMMA Alike ==
  ASSUME NEW screen \in Screens, NEW s \in StatesOf(screen)
  PROVE  /\ s \in TaskState => TaskState \subseteq StatesOf(screen)
         /\ s \in ShoppingState => ShoppingState \subseteq StatesOf(screen)
<1>1. /\ s \in TaskState => DOMAIN s = {"status", "mode", "assignment", "claim", "waiting", "ticked"}
      /\ s \in ShoppingState => DOMAIN s = {"status", "method", "assignment", "claim"}
      /\ s \in RequestState => DOMAIN s = {"status", "kind", "requester", "confirmed", "followup"}
      /\ s \in HandoverState => DOMAIN s = {"status", "author", "required", "read"}
      /\ s \in DayState => DOMAIN s = {"transport", "override"}
      /\ s \in ReviewState => DOMAIN s = {"status", "kind", "answers"}
      /\ s \in SetupState => DOMAIN s = {"members", "invite", "done"}
      /\ s \in RoleState => DOMAIN s = {"roles"}
      /\ s \in SettingState => DOMAIN s = {"of", "value"}
  BY DEF TaskState, ShoppingState, RequestState, HandoverState, DayState, ReviewState, SetupState,
         RoleState, SettingState
<1>2. StatesOf(screen) \in {TaskState, ShoppingState, RequestState, HandoverState, DayState, ReviewState,
                            SetupState, RoleState, SettingState, TaskState \union ShoppingState}
  BY DEF StatesOf, Screens
<1>3. /\ \A keys : keys = {"status", "mode", "assignment", "claim", "waiting", "ticked"} => "mode" \in keys
      /\ \A keys : keys = {"status", "method", "assignment", "claim"} => "method" \in keys
      /\ \A keys \in {{"status", "kind", "requester", "confirmed", "followup"},
                      {"status", "author", "required", "read"}, {"transport", "override"},
                      {"status", "kind", "answers"}, {"members", "invite", "done"}, {"roles"}, {"of", "value"}} :
            "mode" \notin keys /\ "method" \notin keys
      /\ "method" \notin {"status", "mode", "assignment", "claim", "waiting", "ticked"}
  OBVIOUS
<1>4. CASE s \in TaskState
  <2>1. StatesOf(screen) \in {TaskState, TaskState \union ShoppingState}  BY <1>1, <1>2, <1>3, <1>4
  <2>2. s \notin ShoppingState  BY <1>1, <1>3, <1>4
  <2> QED  BY <2>1, <2>2
<1>5. CASE s \in ShoppingState
  <2>1. StatesOf(screen) \in {ShoppingState, TaskState \union ShoppingState}  BY <1>1, <1>2, <1>3, <1>5
  <2>2. s \notin TaskState  BY <1>1, <1>3, <1>5
  <2> QED  BY <2>1, <2>2
<1> QED  BY <1>4, <1>5

LEMMA KindStep ==
  ASSUME KeepInv, RowOK(item), BodiesOK, OfKind(item), [Next]_vars
  PROVE  OfKind(item')
<1> USE DEF OfKind
<1>1. IsRow(item')  BY RowStep DEF RowOK
<1>2. scene.screen \in Screens  BY ScenesAssumption DEF KeepInv
<1>3. IsRow(item) /\ item.rev \in Nat  BY DEF RowOK, IsRow
<1>4. User \in Persons /\ Partner \in Persons  BY DEF Persons
<1>5. item'.state \in StatesOf(scene.screen)
  <2>1. CASE Process
    <3>1. PICK r \in wire : IF Landed(r.op) THEN Replays(r) ELSE Serves(r)  BY <2>1 DEF Process
    <3>2. item' \in {item, ServeAll(r.endpoint, item, r.body, User).item}
      BY <3>1 DEF Replays, Serves, server
    <3>3. Meant(scene.screen, r.endpoint, r.body)  BY DEF BodiesOK, Proper
    <3> QED  BY <1>3, <1>4, <3>2, <3>3, MeantKind
  <2>2. CASE Elsewhere
    <3>1. PICK c \in Partners(item) : item' = ServeAll(c.endpoint, item, c.body, Partner).item
      BY <2>2 DEF Elsewhere
    <3>2. CASE c \in Offered(item, Partner)
      <4>1. AreProper(Offered(item, Partner))  BY <1>2, <1>3, <1>4, OfferedProper
      <4>2. Meant(scene.screen, c.endpoint, c.body)  BY <3>2, <4>1 DEF AreProper, Proper
      <4> QED  BY <1>3, <1>4, <3>1, <4>2, MeantKind
    <3>3. CASE item.state \in ShoppingState /\ c \in primaryAction(item) \union menu(item)
      <4>1. GoodsCommand(c.endpoint, c.body)  BY <1>3, <3>3, GoodsMeant DEF ForGoods
      <4>2. item'.state \in ShoppingState  BY <1>4, <3>1, <3>3, <4>1, GoodsKind
      <4> QED  BY <1>2, <3>3, <4>2, Alike
    <3>4. CASE item.state \in TaskState /\ c \in TaskButtons(item, Partner)
      <4>1. TaskCommand(c.endpoint, c.body)  BY <1>3, <3>4, TaskButtonsMeant DEF ForTasks
      <4>2. item'.state \in TaskState  BY <1>3, <1>4, <3>1, <3>4, <4>1, TaskKind
      <4> QED  BY <1>2, <3>4, <4>2, Alike
    <3> QED  BY <3>1, <3>2, <3>3, <3>4 DEF Partners
  <2>3. CASE ~Process /\ ~Elsewhere
    <3>1. item' = item
      BY <2>3 DEF Next, Press, PressUndo, NotSent, Send, Lost, AnswerDone, AnswerRejected, AnswerUnknown,
           StartLoad, ReadLoad, EndLoad, Leave, Reload, CloseTab, PageGone, Expire, vars, server
    <3> QED  BY <3>1
  <2> QED  BY <2>1, <2>2, <2>3
<1> QED  BY <1>1, <1>5 DEF IsRow

LEMMA RowsStep ==
  ASSUME KeepInv, RowOK(item), SightInv, BodiesOK, RowsOK, [Next]_vars
  PROVE  RowsOK'
<1>1. scene' = scene  BY AuthorKept
<1>2. OfKind(item) /\ OfKind(shown) /\ \A l \in loads : IsLoad(l) /\ OfKind(l.row)
  BY DEF RowsOK, SightInv, IsLoad
<1>3. OfKind(item')  BY <1>2, KindStep
<1>4. OfKind(shown') /\ \A l \in loads' : OfKind(l.row)
  <2>1. NextLoad.row = shown  BY DEF NextLoad
  <2>2. CASE AnswerDone \/ StartLoad
    <3>1. shown' = shown /\ loads' \in {loads, loads \union {NextLoad}}
      BY <2>2 DEF AnswerDone, StartLoad
    <3> HIDE DEF NextLoad, OfKind
    <3> QED  BY <1>2, <2>1, <3>1
  <2>3. CASE ReadLoad
    <3>1. shown' = shown  BY <2>3 DEF ReadLoad
    <3>2. PICK l \in loads : loads' = (loads \ {l}) \union {[l EXCEPT !.read = TRUE, !.row = item]}
      BY <2>3 DEF ReadLoad
    <3>3. ASSUME NEW m, m = [l EXCEPT !.read = TRUE, !.row = item]
          PROVE  m.row = item
      BY <1>2, <3>2, <3>3 DEF IsLoad
    <3> QED  BY <1>2, <3>1, <3>2, <3>3
  <2>4. CASE EndLoad
    <3>1. loads' \subseteq loads /\ (shown' = shown \/ \E l \in loads : shown' = l.row)  BY <2>4 DEF EndLoad
    <3> QED  BY <1>2, <3>1
  <2>5. CASE Reload \/ CloseTab
    <3>1. PICK kept, keptForms, seen : PageGone(kept, keptForms, seen) /\ seen \in {item, Organized}
      BY <2>5, Zenon DEF Reload, CloseTab
    <3>2. loads' = {} /\ shown' = seen  BY <3>1 DEF PageGone
    <3>3. OfKind(Organized)  BY ScenesAssumption DEF KeepInv, Organized, OfKind
    <3> QED  BY <1>2, <3>1, <3>2, <3>3
  <2>6. CASE ~(AnswerDone \/ StartLoad \/ ReadLoad \/ EndLoad \/ Reload \/ CloseTab)
    <3>1. shown' = shown /\ loads' = loads
      BY <2>6 DEF Next, Press, PressUndo, NotSent, Send, Lost, AnswerRejected, AnswerUnknown, Process, Elsewhere,
           Leave, Expire, vars, display
    <3> QED  BY <1>2, <3>1
  <2> QED  BY <2>2, <2>3, <2>4, <2>5, <2>6
<1> QED  BY <1>1, <1>3, <1>4 DEF RowsOK, OfKind


LEMMA LoadsStep ==
  ASSUME SightInv, LoadsOK, [Next]_vars
  PROVE  LoadsOK'
<1>1. latest \in Nat /\ \A l \in loads : IsLoad(l) /\ l.n \in 1..latest  BY DEF LoadsOK, SightInv, IsLoad
<1>2. CASE AnswerDone \/ StartLoad
  <2>1. \/ loads' = loads /\ latest' = latest
        \/ loads' = loads \union {NextLoad} /\ latest' = latest + 1
    BY <1>2 DEF AnswerDone, StartLoad
  <2>2. NextLoad.n = latest + 1  BY DEF NextLoad
  <2> HIDE DEF NextLoad
  <2> QED  BY <1>1, <2>1, <2>2 DEF LoadsOK
<1>3. CASE ReadLoad
  <2>1. PICK l \in loads : loads' = (loads \ {l}) \union {[l EXCEPT !.read = TRUE, !.row = item]}
    BY <1>3 DEF ReadLoad
  <2>2. ASSUME NEW m, m = [l EXCEPT !.read = TRUE, !.row = item]
        PROVE  m.n = l.n
    BY <1>1, <2>1, <2>2 DEF IsLoad
  <2>3. latest' = latest  BY <1>3 DEF ReadLoad
  <2> QED  BY <1>1, <2>1, <2>2, <2>3 DEF LoadsOK
<1>4. CASE EndLoad \/ Reload \/ CloseTab
  <2>1. loads' \subseteq loads /\ latest' = latest
    BY <1>4, Zenon DEF EndLoad, Reload, CloseTab, PageGone
  <2> QED  BY <1>1, <2>1 DEF LoadsOK
<1>5. CASE ~(AnswerDone \/ StartLoad \/ ReadLoad \/ EndLoad \/ Reload \/ CloseTab)
  <2>1. loads' = loads /\ latest' = latest
    BY <1>5 DEF Next, Press, PressUndo, NotSent, Send, Lost, AnswerRejected, AnswerUnknown, Process, Elsewhere,
         Leave, Expire, vars, display
  <2> QED  BY <1>1, <2>1 DEF LoadsOK
<1> QED  BY <1>2, <1>3, <1>4, <1>5

\* What a button or an undo sends is the payload it was pressed for.
LEMMA BodiesBegin ==
  ASSUME CallInv, KeepInv, BodiesOK, NEW c0, Sound(c0), Proper(c0.endpoint, c0.body), NEW c \in {c0, Resumed(c0)},
         NEW undoes, Begin(c, undoes), UNCHANGED <<scene, wire, receipts>>
  PROVE  BodiesOK'
<1> DEFINE a == prepareCommandAttempt(c)
           new == [n |-> presses + 1, op |-> a.op, key |-> c.key, endpoint |-> a.endpoint,
                   body |-> a.body, asked |-> c.body, via |-> c.via, undo |-> c.undo, undoes |-> undoes,
                   sent |-> FALSE, left |-> FALSE, reply |-> WaitingFor]
<1>1. ~Conflicts(c) /\ attempts' = Keep(c.key, c.via, a) /\ calls' = calls \union {new}
  BY Zenon DEF Begin
<1>2. Prepared(c, a)  BY <1>1, Preparing
<1>3. new.endpoint = a.endpoint /\ new.body = a.body  OBVIOUS
<1> HIDE DEF a, new
<1>4. Proper(a.endpoint, a.body)
  <2>1. \/ c = c0
        \/ c.via = "resumes" /\ Kept(c) /\ ~attempts[c.key].expired
    BY ResumedIs DEF Sound
  <2>2. CASE c = c0  BY <1>2, <2>2 DEF Prepared
  <2>3. CASE c.via = "resumes" /\ Kept(c) /\ ~attempts[c.key].expired
    <3>1. c.key \in DOMAIN attempts /\ a = attempts[c.key]  BY <1>2, <2>3 DEF Prepared, Kept
    <3> QED  BY <3>1 DEF BodiesOK
  <2> QED  BY <2>1, <2>2, <2>3
<1>5. \A k \in DOMAIN attempts' : (k \in DOMAIN attempts /\ attempts'[k] = attempts[k]) \/ attempts'[k] = a
  BY <1>1 DEF Keep, With
<1>6. /\ \A k \in DOMAIN attempts' : Proper(attempts'[k].endpoint, attempts'[k].body)
      /\ \A call \in calls' : Proper(call.endpoint, call.body)
  BY <1>1, <1>3, <1>4, <1>5 DEF BodiesOK
<1> QED  BY <1>6 DEF BodiesOK, Proper

LEMMA BodiesStay ==
  ASSUME BodiesOK, Flows, [Next]_vars
  PROVE  BodiesOK'
<1> USE DEF SameCommand
<1>1. scene' = scene  BY DEF Flows
<1>2. \A call \in calls' : Proper(call.endpoint, call.body)  BY DEF BodiesOK, Flows
<1>3. \A k \in DOMAIN attempts' : Proper(attempts'[k].endpoint, attempts'[k].body)  BY DEF BodiesOK, Flows
<1>4. \A r \in wire' : Proper(r.endpoint, r.body)  BY DEF BodiesOK, Flows
<1>5. \A op \in DOMAIN receipts' : receipts'[op].body \in Bodies
  <2>1. \A r \in wire : r.body \in Bodies  BY DEF BodiesOK, Proper
  <2> QED  BY <2>1, ReceiptsFrom DEF BodiesOK
<1> QED  BY <1>1, <1>2, <1>3, <1>4, <1>5 DEF BodiesOK, Proper

LEMMA BodiesStep ==
  ASSUME CallInv, KeepInv, RowOK(item), SightInv, OfferInv, BodiesOK, [Next]_vars
  PROVE  BodiesOK'
<1>1. CASE Press
  <2>1. PICK c0 \in Offered(shown, User) : Begin(Resumed(c0), Nobodys)
    BY <1>1 DEF Press
  <2>2. scene.screen \in Screens  BY ScenesAssumption DEF KeepInv
  <2>3. Sound(c0)  BY <2>1, <2>2, OfferedSound DEF AreSound
  <2>4. shown.rev \in Nat /\ User \in Persons  BY DEF SightInv, Glimpse, Persons
  <2>5. Proper(c0.endpoint, c0.body)  BY <2>1, <2>2, <2>4, OfferedProper DEF AreProper
  <2>6. UNCHANGED <<scene, wire, receipts>>  BY <1>1 DEF Press, server
  <2> QED  BY <2>1, <2>3, <2>5, <2>6, BodiesBegin
<1>2. CASE PressUndo
  <2>1. PICK o \in offer : \E c \in UndoCommands(o) : Begin(c, o.op)
    BY <1>2 DEF PressUndo
  <2>2. PICK c \in UndoCommands(o) : Begin(c, o.op)  BY <2>1
  <2>3. Sound(c)  BY <2>2, UndoSound DEF AreSound
  <2>4. item.rev \in Nat  BY DEF RowOK, IsRow
  <2>5. Proper(c.endpoint, c.body)  BY <2>2, <2>4, UndoProper DEF AreProper
  <2>6. UNCHANGED <<scene, wire, receipts>>  BY <1>2 DEF PressUndo, server
  <2> QED  BY <2>2, <2>3, <2>5, <2>6, BodiesBegin
<1>3. CASE ~Press /\ ~PressUndo
  BY <1>3, StepsFlow, BodiesStay
<1> QED  BY <1>1, <1>2, <1>3

LEMMA UndoesStep ==
  ASSUME CallInv, KeepInv, OfferInv, PressesOK, UndoesOK, [Next]_vars
  PROVE  PressesOK' /\ UndoesOK'
<1>1. presses \in Nat /\ scene' = scene  BY AuthorKept DEF CallInv, CallsOK
<1>2. scene.presses \in Nat /\ presses <= scene.presses  BY ScenesAssumption DEF KeepInv, PressesOK
<1>3. /\ presses' \in {presses, presses + 1} /\ presses' <= scene.presses
      /\ \A call \in calls' : call.undoes \in 0..presses'
  <2>1. ASSUME NEW c, NEW undoes \in 0..presses, Begin(c, undoes)
        PROVE  /\ presses' = presses + 1 /\ presses' <= scene.presses
               /\ \A call \in calls' : call.undoes \in 0..presses'
    <3> DEFINE a == prepareCommandAttempt(c)
               new == [n |-> presses + 1, op |-> a.op, key |-> c.key, endpoint |-> a.endpoint,
                       body |-> a.body, asked |-> c.body, via |-> c.via, undo |-> c.undo, undoes |-> undoes,
                       sent |-> FALSE, left |-> FALSE, reply |-> WaitingFor]
    <3>1. presses < scene.presses /\ presses' = presses + 1 /\ calls' = calls \union {new}
      BY <2>1, Zenon DEF Begin
    <3>2. new.undoes = undoes  OBVIOUS
    <3> HIDE DEF new
    <3> QED  BY <1>1, <1>2, <3>1, <3>2 DEF UndoesOK
  <2>2. CASE Press
    <3>1. Nobodys \in 0..presses  BY <1>1 DEF Nobodys
    <3> QED  BY <2>1, <2>2, <3>1 DEF Press
  <2>3. CASE PressUndo
    <3>1. \A o \in offer : o.op \in 0..presses  BY <1>1 DEF OfferInv
    <3> QED  BY <2>1, <2>3, <3>1 DEF PressUndo
  <2>4. CASE ~Press /\ ~PressUndo
    <3>1. Flows  BY <2>4, StepsFlow
    <3> QED  BY <1>2, <3>1 DEF Flows, UndoesOK
  <2> QED  BY <2>2, <2>3, <2>4
<1>4. Cardinality(offer') <= 1
  <2>1. Cardinality({}) = 0 /\ \A x : Cardinality({x}) = 1  BY FS_EmptySet, FS_Singleton
  <2>2. CASE AnswerDone
    <3>1. PICK call \in calls : offer' \in {{}, offer, {[op |-> call.op, undo |-> call.undo, rev |-> call.reply.rev]}}
      BY <2>2 DEF AnswerDone, OfferOf
    <3>2. PICK x : offer' \in {{}, offer, {x}}  BY <3>1
    <3>3. Cardinality({x}) = 1  BY <2>1
    <3> QED  BY <2>1, <3>2, <3>3 DEF UndoesOK
  <2>3. CASE ~AnswerDone
    <3>1. offer' \in {{}, offer}
      BY <2>3 DEF Next, Press, PressUndo, NotSent, Send, Lost, AnswerRejected, AnswerUnknown, Process, Elsewhere,
           StartLoad, ReadLoad, EndLoad, Leave, Reload, CloseTab, PageGone, Expire, vars
    <3> QED  BY <2>1, <3>1 DEF UndoesOK
  <2> QED  BY <2>2, <2>3
<1> QED  BY <1>1, <1>3, <1>4 DEF PressesOK, UndoesOK

LEMMA AuthorStep ==
  ASSUME CallInv, KeepInv, OfferInv, PressesOK, UndoesOK, KeyInv, AuthorOK, [Next]_vars
  PROVE  AuthorOK'
<1>1. presses \in Nat /\ presses' \in {presses, presses + 1}
  <2>1. CASE Press \/ PressUndo  BY <2>1 DEF Press, PressUndo, Begin, CallInv, CallsOK
  <2>2. CASE ~Press /\ ~PressUndo  BY <2>2, StepsFlow DEF Flows, CallInv, CallsOK
  <2> QED  BY <2>1, <2>2
<1>2. author' \in {author, Partner} \union 1..presses
  <2>1. CASE Process
    <3>1. PICK r \in wire : IF Landed(r.op) THEN Replays(r) ELSE Serves(r)  BY <2>1 DEF Process
    <3>2. author' \in {author, r.op}  BY <3>1, Zenon DEF Replays, Serves, server
    <3>3. r.op \in 1..presses  BY DEF KeyInv, KeysOf
    <3> QED  BY <3>2, <3>3
  <2>2. CASE Elsewhere  BY <2>2 DEF Elsewhere
  <2>3. CASE ~Process /\ ~Elsewhere
    BY <2>3 DEF Next, Press, PressUndo, NotSent, Send, Lost, AnswerDone, AnswerRejected, AnswerUnknown,
         StartLoad, ReadLoad, EndLoad, Leave, Reload, CloseTab, PageGone, Expire, vars, server
  <2> QED  BY <2>1, <2>2, <2>3
<1> QED  BY <1>1, <1>2 DEF AuthorOK


LEMMA OrphansCalled ==
  ASSUME CallInv, NEW gone, NEW r \in Orphaned(wire, gone), r.call # Nobodys
  PROVE  r \in wire /\ r.call \notin gone
<1>1. PICK old \in wire : IF old.call \in gone THEN r = [old EXCEPT !.call = Nobodys] ELSE r = old  BY DEF Orphaned
<1>2. IsRequest(old)  BY DEF CallInv, WireOK
<1> QED  BY <1>1, <1>2 DEF IsRequest

LEMMA CallersStep ==
  ASSUME CallInv, CallersOK, [Next]_vars
  PROVE  CallersOK'
<1> DEFINE Waiting(call) == call.sent /\ call.reply.code = None
<1>1. /\ \A call \in calls : IsCall(call) /\ call.n # Nobodys
      /\ \A call, other \in calls : call.n = other.n => call = other
  BY DEF CallInv, CallsOK, Nobodys
<1>2. \A r \in wire : r.call # Nobodys => \E call \in calls : call.n = r.call /\ Waiting(call)
  BY DEF CallersOK
<1>3. \A r, other \in wire : r.call = other.call /\ r.call # Nobodys => r = other
  BY DEF CallersOK
<1>4. \A call \in calls : ~call.sent => call.reply.code = None
  BY DEF CallersOK
<1>5. CASE Press \/ PressUndo
  <2>1. PICK new : calls' = calls \union {new} /\ ~new.sent /\ new.reply = WaitingFor
    <3>1. PICK c, undoes : Begin(c, undoes)  BY <1>5, Zenon DEF Press, PressUndo
    <3> DEFINE a == prepareCommandAttempt(c)
               new == [n |-> presses + 1, op |-> a.op, key |-> c.key, endpoint |-> a.endpoint,
                       body |-> a.body, asked |-> c.body, via |-> c.via, undo |-> c.undo, undoes |-> undoes,
                       sent |-> FALSE, left |-> FALSE, reply |-> WaitingFor]
    <3>2. calls' = calls \union {new}  BY <3>1, Zenon DEF Begin
    <3>3. ~new.sent /\ new.reply = WaitingFor  OBVIOUS
    <3> QED  BY <3>2, <3>3
  <2>2. wire' = wire  BY <1>5 DEF Press, PressUndo
  <2>3. new.reply.code = None  BY <2>1 DEF WaitingFor
  <2> QED  BY <1>2, <1>3, <1>4, <2>1, <2>2, <2>3 DEF CallersOK
<1>6. CASE Send
  <2>1. PICK call \in calls :
         /\ ~call.sent
         /\ calls' = (calls \ {call}) \union {[call EXCEPT !.sent = TRUE]}
         /\ wire' = wire \union {[call |-> call.n, op |-> call.op, endpoint |-> call.endpoint,
                                  body |-> call.body, undoes |-> call.undoes]}
    BY <1>6 DEF Send
  <2>2. PICK sent : sent = [call EXCEPT !.sent = TRUE]  OBVIOUS
  <2>3. sent.n = call.n /\ sent.sent /\ sent.reply = call.reply  BY <1>1, <2>2 DEF IsCall
  <2>a. PICK new : new = [call |-> call.n, op |-> call.op, endpoint |-> call.endpoint,
                           body |-> call.body, undoes |-> call.undoes]
    OBVIOUS
  <2>4. wire' = wire \union {new} /\ new.call = call.n  BY <2>1, <2>a
  <2>5. calls' = (calls \ {call}) \union {sent} /\ Waiting(sent)  BY <1>4, <2>1, <2>2, <2>3
  <2>6. \A r \in wire : r.call # call.n
    <3> SUFFICES ASSUME NEW r \in wire, r.call = call.n PROVE FALSE  OBVIOUS
    <3>1. PICK old \in calls : old.n = call.n /\ old.sent  BY <1>1, <1>2
    <3> QED  BY <1>1, <2>1, <3>1
  <2>7. \A r \in wire' : r.call # Nobodys => \E c \in calls' : c.n = r.call /\ Waiting(c)
    <3> HIDE DEF Waiting
    <3> QED  BY <1>2, <2>3, <2>4, <2>5, <2>6
  <2>8. \A r, other \in wire' : r.call = other.call /\ r.call # Nobodys => r = other
    BY <1>3, <2>4, <2>6
  <2>9. \A c \in calls' : ~c.sent => c.reply.code = None
    BY <1>4, <2>5
  <2> QED  BY <2>7, <2>8, <2>9 DEF CallersOK
<1>7. CASE NotSent \/ AnswerDone \/ AnswerRejected \/ AnswerUnknown
  <2>1. PICK call \in calls : calls' = calls \ {call} /\ ~Waiting(call)
    <3>1. CASE NotSent  BY <3>1 DEF NotSent
    <3>2. CASE AnswerDone
      <4>1. "OK" # None  BY DEF None
      <4> QED  BY <3>2, <4>1, OutcomeDone DEF AnswerDone
    <3>3. CASE AnswerRejected \/ AnswerUnknown  BY <3>3 DEF AnswerRejected, AnswerUnknown
    <3> QED  BY <1>7, <3>1, <3>2, <3>3
  <2>2. wire' = wire  BY <1>7 DEF NotSent, AnswerDone, AnswerRejected, AnswerUnknown
  <2>3. \A r \in wire' : r.call # Nobodys => \E c \in calls' : c.n = r.call /\ Waiting(c)
    BY <1>2, <2>1, <2>2
  <2> QED  BY <1>3, <1>4, <2>1, <2>2, <2>3 DEF CallersOK
<1>8. CASE Lost
  <2>1. PICK call \in calls : calls' = calls \ {call} /\ wire' = Orphaned(wire, {call.n})
    BY <1>8 DEF Lost
  <2>2. \A r \in wire' : r.call # Nobodys => r \in wire /\ r.call # call.n
    BY <2>1, OrphansCalled
  <2>3. \A r \in wire' : r.call # Nobodys => \E c \in calls' : c.n = r.call /\ Waiting(c)
    BY <1>2, <2>1, <2>2
  <2>4. \A r, other \in wire' : r.call = other.call /\ r.call # Nobodys => r = other
    BY <1>3, <2>2
  <2> QED  BY <1>4, <2>1, <2>3, <2>4 DEF CallersOK
<1>9. CASE Reload \/ CloseTab
  <2>1. calls' = {} /\ wire' = Orphaned(wire, {call.n : call \in calls})
    BY <1>9, Zenon DEF Reload, CloseTab, PageGone
  <2>2. \A r \in wire' : r.call = Nobodys  BY <1>2, <2>1, OrphansCalled
  <2> QED  BY <2>1, <2>2 DEF CallersOK
<1>10. CASE Process
  <2>1. PICK r \in wire : wire' = wire \ {r} /\ \E reply : calls' = Answered(r, reply)
    BY <1>10, Zenon DEF Process, Replays, Serves
  <2>2. PICK reply : calls' = Answered(r, reply)  BY <2>1
  <2>3. \A c \in calls : IF c.n = r.call THEN [c EXCEPT !.reply = reply] \in calls' ELSE c \in calls'
    BY <2>2 DEF Answered
  <2>4. \A q \in wire' : q.call # Nobodys => \E c \in calls' : c.n = q.call /\ Waiting(c)
    BY <1>2, <1>3, <2>1, <2>3
  <2>5. \A c \in calls' : ~c.sent => c.reply.code = None
    <3> SUFFICES ASSUME NEW old \in calls, NEW c, c = IF old.n = r.call THEN [old EXCEPT !.reply = reply] ELSE old,
                        ~c.sent
        PROVE  c.reply.code = None
        BY <2>2 DEF Answered
    <3>1. c.sent = old.sent  BY <1>1 DEF IsCall
    <3>2. old.n # r.call
      <4> SUFFICES ASSUME old.n = r.call PROVE FALSE  OBVIOUS
      <4>1. PICK other \in calls : other.n = r.call /\ other.sent  BY <1>1, <1>2
      <4> QED  BY <1>1, <3>1, <4>1
    <3> QED  BY <1>4, <3>1, <3>2
  <2> QED  BY <1>3, <2>1, <2>4, <2>5 DEF CallersOK
<1>11. CASE Leave
  <2>1. PICK Behind : \A call \in calls : Behind[call] = IF call.via \in WithItsId THEN call ELSE [call EXCEPT !.left = TRUE]
    <3>1. LET Left == [call \in calls |-> IF call.via \in WithItsId THEN call ELSE [call EXCEPT !.left = TRUE]]
          IN  \A call \in calls : Left[call] = IF call.via \in WithItsId THEN call ELSE [call EXCEPT !.left = TRUE]
      OBVIOUS
    <3> QED  BY <3>1
  <2>2. calls' = {Behind[call] : call \in calls} /\ wire' = wire  BY <1>11, <2>1 DEF Leave
  <2>3. \A call \in calls : /\ Behind[call].n = call.n /\ Behind[call].sent = call.sent
                            /\ Behind[call].reply = call.reply
    BY <1>1, <2>1 DEF IsCall
  <2>4. \A r \in wire' : r.call # Nobodys => \E c \in calls' : c.n = r.call /\ Waiting(c)
    BY <1>2, <2>2, <2>3
  <2>5. \A c \in calls' : ~c.sent => c.reply.code = None
    BY <1>4, <2>2, <2>3
  <2> QED  BY <1>3, <2>2, <2>4, <2>5 DEF CallersOK
<1>12. CASE Elsewhere \/ StartLoad \/ ReadLoad \/ EndLoad \/ Expire \/ UNCHANGED vars
  <2>1. calls' = calls /\ wire' = wire
    BY <1>12 DEF Elsewhere, StartLoad, ReadLoad, EndLoad, Expire, vars
  <2> QED  BY <2>1 DEF CallersOK
<1> QED  BY <1>5, <1>6, <1>7, <1>8, <1>9, <1>10, <1>11, <1>12 DEF Next

-----------------------------------------------------------------------------
(* What the client keeps and shows has its type.                            *)

LEMMA TypeInit == Init => TypeInv
<1> SUFFICES ASSUME Init PROVE TypeInv  OBVIOUS
<1>1. /\ scene \in Scenes /\ item = [state |-> scene.state, rev |-> 1] /\ shown = item /\ loads = {}
      /\ latest = 0 /\ calls = {} /\ wire = {} /\ attempts = <<>> /\ receipts = <<>> /\ offer = {}
      /\ presses = 0 /\ author = Nobody
  BY DEF Init
<1>2. scene.state \in StatesOf(scene.screen) /\ scene.presses \in Nat  BY <1>1, ScenesAssumption
<1>3. PressesOK /\ AuthorOK /\ LoadsOK  BY <1>1, <1>2 DEF PressesOK, AuthorOK, LoadsOK
<1>4. UndoesOK  BY <1>1, FS_EmptySet DEF UndoesOK
<1>5. BodiesOK /\ CallersOK  BY <1>1 DEF BodiesOK, CallersOK
<1>6. RowsOK  BY <1>1, <1>2 DEF RowsOK, OfKind
<1> QED  BY <1>3, <1>4, <1>5, <1>6 DEF TypeInv

LEMMA TypeStep == FreshAll /\ TypeInv /\ [Next]_vars => TypeInv'
<1> SUFFICES ASSUME FreshAll, TypeInv, [Next]_vars PROVE TypeInv'  OBVIOUS
<1>1. CallInv /\ KeepInv /\ KeyInv /\ RowOK(item) /\ SightInv /\ OfferInv
  BY DEF FreshAll, UndoneInv, RepeatInv, FreshInv
<1>2. PressesOK /\ BodiesOK /\ UndoesOK /\ RowsOK /\ LoadsOK /\ CallersOK /\ AuthorOK
  BY DEF TypeInv
<1>3. PressesOK' /\ UndoesOK'  BY <1>1, <1>2, UndoesStep
<1>4. BodiesOK'  BY <1>1, <1>2, BodiesStep
<1>5. RowsOK'  BY <1>1, <1>2, RowsStep
<1>6. LoadsOK'  BY <1>1, <1>2, LoadsStep
<1>7. CallersOK'  BY <1>1, <1>2, CallersStep
<1>8. AuthorOK'  BY <1>1, <1>2, AuthorStep
<1> QED  BY <1>3, <1>4, <1>5, <1>6, <1>7, <1>8 DEF TypeInv

LEMMA Types == FreshAll /\ TypeInv => TypeOK
<1> SUFFICES ASSUME FreshAll, TypeInv PROVE TypeOK  OBVIOUS
<1>1. CallInv /\ KeepInv /\ KeyInv /\ RowOK(item) /\ SightInv
  BY DEF FreshAll, UndoneInv, RepeatInv, FreshInv
<1>2. PressesOK /\ BodiesOK /\ UndoesOK /\ RowsOK /\ LoadsOK /\ CallersOK /\ AuthorOK
  BY DEF TypeInv
<1>3. presses \in Nat /\ scene.presses \in 0..MaxPresses /\ MaxPresses \in Nat
  BY <1>1, ScenesAssumption DEF CallInv, CallsOK, KeepInv
<1>4. \A i \in 1..presses : i \in Op  BY <1>2, <1>3 DEF Op, PressesOK
<1>5. item.rev \in Nat /\ shown.rev \in Nat  BY <1>1 DEF RowOK, IsRow, SightInv, Glimpse
<1>6. item \in Row /\ shown \in Row
  <2>1. \A row : OfKind(row) /\ row.rev \in Nat => row \in Row  BY DEF OfKind, Row
  <2> QED  BY <1>2, <1>5, <2>1 DEF RowsOK
<1>7. author \in {Nobody, Partner} \union Op  BY <1>2, <1>4 DEF AuthorOK
<1>8. \A k \in DOMAIN attempts : attempts[k].op \in Op /\ attempts[k].body \in Bodies
  BY <1>1, <1>2, <1>4 DEF KeyInv, KeysOf, BodiesOK, Proper
<1>9. \A op \in DOMAIN receipts : op \in Op /\ receipts[op].body \in Bodies
  BY <1>1, <1>2, <1>4 DEF KeyInv, KeysOf, BodiesOK
<1>10. \A call \in calls : call.n \in Op /\ call.op \in Op /\ call.undoes \in {Nobodys} \union Op
  <2>1. \A call \in calls : call.n \in 1..presses /\ call.op \in 1..presses /\ call.undoes \in 0..presses
    BY <1>1, <1>2 DEF CallInv, CallsOK, KeyInv, KeysOf, UndoesOK
  <2>2. \A i \in 0..presses : i = 0 \/ i \in 1..presses  BY <1>3
  <2> QED  BY <1>4, <2>1, <2>2 DEF Nobodys
<1>11. \A r \in wire : r.call \in {Nobodys} \union {call.n : call \in calls}
  BY <1>2 DEF CallersOK
<1>12. Cardinality(offer) <= 1  BY <1>2 DEF UndoesOK
<1>13. \A l \in loads : l.n <= latest  BY <1>2 DEF LoadsOK
<1> QED  BY <1>6, <1>7, <1>8, <1>9, <1>10, <1>11, <1>12, <1>13 DEF TypeOK

\* Whatever is pressed, sent, lost or done elsewhere, the row stays one of its panel's kind, and what is
\* kept, under way, recorded and offered has the shape of what the panel sends.
THEOREM ClientTypes == Spec => []TypeOK
<1>1. FreshAll /\ TypeInv /\ [Next]_vars => (FreshAll /\ TypeInv)'  BY FreshStep, TypeStep
<1>2. Init => FreshAll /\ TypeInv  BY UndoneInit, FreshInit, TypeInit DEF FreshAll
<1> QED  BY <1>1, <1>2, Types, PTL DEF Spec

=============================================================================
