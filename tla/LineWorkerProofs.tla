------------------------- MODULE LineWorkerProofs -------------------------
(* What comes of a LINE conversation, for any number of members, events,    *)
(* overlapping runs, executions, attempts, tasks and items, and whatever    *)
(* the language model answers: only confirmed content is executed, a row is *)
(* called done when all of it is, an undo erases nothing, a driver only     *)
(* changes as was shown, and corrections take effect in their order.        *)
(*                                                                          *)
(* The first four never look at what a handler plans: whatever call with    *)
(* whatever content it makes and whenever, the server functions keep them.  *)
(* The order of corrections is not the server functions' work alone: what a *)
(* handler planned when it read the state must still be right when its turn *)
(* comes, after other runs, the app and the preparing worker.               *)
EXTENDS LineWorker, SequenceTheorems, FiniteSetTheorems, TLAPS

-----------------------------------------------------------------------------
(* The rows of pending_actions.                                             *)

IsDraft(r) == r = [status |-> r.status, content |-> r.content, mark |-> r.mark, editing |-> r.editing,
                   prep |-> r.prep, born |-> r.born, attempts |-> r.attempts, lapsed |-> r.lapsed,
                   wait |-> r.wait, overdue |-> r.overdue, calendar |-> r.calendar, chosen |-> r.chosen]
IsJob(j)   == j = [draft |-> j.draft, token |-> j.token, content |-> j.content, calendar |-> j.calendar,
                   todo |-> j.todo, pc |-> j.pc]
IsMade(m)  == m = [state |-> m.state, content |-> m.content, asked |-> m.asked, calendar |-> m.calendar]

Shapes == /\ DOMAIN draft = DraftId /\ \A d \in DraftId : IsDraft(draft[d])
          /\ DOMAIN consent = DraftId
          /\ DOMAIN job = Job /\ \A x \in Job : IsJob(job[x])
          /\ DOMAIN made = Op /\ \A op \in Op : IsMade(made[op])

\* A row is confirmed once, and its content stays as it was then; its calendar
\* is among those chosen since.
Consents(d) ==
  /\ Is(d, {"absent", "draft"}) => consent[d] = {}
  /\ Is(d, {"absent"}) => draft[d].chosen = {}
  /\ Is(d, Past) => consent[d] # {}
  /\ consent[d] # {} => consent[d] = {draft[d].content} /\ draft[d].calendar \in draft[d].chosen

\* What an execution has not got to any more is made, or was on the list.
Settled(op, c) == \/ made[op].state # "none"
                  \/ c.kind \in Review /\ c.cand[op[2]] = "existing"
InTodo(op, x) == \E i \in 1 .. Len(job[x].todo) : job[x].todo[i] = op

\* An execution is of a confirmed row, with the content it was confirmed with.
Executes(x) ==
  job[x].pc # "idle" =>
    LET d == job[x].draft
        c == job[x].content
    IN  /\ d \in DraftId
        /\ consent[d] = {c} /\ job[x].calendar \in draft[d].chosen
        /\ job[x].todo \in Seq(OpsOf(d, c))
        /\ job[x].pc = "execute" => \A op \in OpsOf(d, c) : InTodo(op, x) \/ Settled(op, c)

Executions == \A x \in Job : Executes(x)
DraftInv == /\ Shapes /\ \A d \in DraftId : Consents(d)
            /\ Executions
            /\ ExecutedAsConfirmed /\ SucceededIsComplete

\* What a server function or the household's screens do to the rows.
Edits == \/ \E d, content : CreatePending(d, content)
         \/ \E d : ConfirmPending(d) \/ CancelPending(d) \/ UndoQuickShopping(d)
         \/ \E d, v : ChooseCalendar(d, v)
         \/ \E d, content, editing : UpdatePending(d, content, editing)
         \/ \E s : ExpireDrafts(s)

LEMMA OpsAreOps ==
  ASSUME NEW d \in DraftId, NEW c
  PROVE  OpsOf(d, c) \subseteq Op /\ \A op \in OpsOf(d, c) : op[1] = d[1]
BY DEF OpsOf, Active, Op, DraftId, Candidate

LEMMA DraftInvInit == Init => DraftInv
<1> SUFFICES ASSUME Init PROVE DraftInv
  OBVIOUS
<1> USE DEF Init, PendingInit
<1>1. Shapes
  BY DEF Shapes, IsDraft, IsJob, IsMade, NoDraft, NoJob, NotMade
<1>2. \A d \in DraftId : Consents(d)
  BY DEF Consents, Is, Past, NoDraft
<1>3. Executions
  BY DEF Executions, Executes, NoJob
<1>4. ExecutedAsConfirmed
  BY DEF ExecutedAsConfirmed, NotMade
<1>5. SucceededIsComplete
  BY DEF SucceededIsComplete, Is, NoDraft
<1> QED BY <1>1, <1>2, <1>3, <1>4, <1>5 DEF DraftInv

SameChoice(d) == draft'[d].calendar = draft[d].calendar /\ draft'[d].chosen = draft[d].chosen

\* Creating, confirming, editing, cancelling and closing a row: no job and
\* nothing made changes.
Keeps == /\ job' = job /\ made' = made
         /\ DOMAIN draft' = DraftId /\ DOMAIN consent' = DraftId
         /\ \A d \in DraftId : IsDraft(draft'[d]) /\ draft[d].chosen \subseteq draft'[d].chosen
         /\ \A d \in DraftId :
              \/ draft'[d] = draft[d] /\ consent'[d] = consent[d]
              \/ /\ Is(d, {"absent", "draft"}) /\ draft'[d].status \in {"absent", "draft", "cancelled", "expired"}
                 /\ consent'[d] = {} /\ (draft'[d].status = "absent" => draft'[d].chosen = {})
              \/ /\ Is(d, {"draft"}) /\ draft'[d].status = "confirmed"
                 /\ consent'[d] = {draft'[d].content} /\ draft'[d].calendar \in draft'[d].chosen
              \/ /\ draft'[d].content = draft[d].content /\ consent'[d] = consent[d] /\ SameChoice(d)
                 /\ draft'[d].status \in {draft[d].status, "cancelled", "expired"}

LEMMA CreateKeeps ==
  ASSUME Shapes, \A d \in DraftId : Consents(d), NEW d, NEW content, CreatePending(d, content)
  PROVE  Keeps
<1>1. CASE ~Is(d, {"absent"})
  BY <1>1 DEF Shapes, CreatePending, Keeps
<1>2. CASE Is(d, {"absent"})
  <2> DEFINE n == Cardinality({f \in DraftId : ~Is(f, {"absent"})}) + 1
             new == [NoDraft EXCEPT !.status = "draft", !.content = content, !.born = n]
             q == NoDraft
  <2> HIDE DEF n
  <2>1. draft' = [draft EXCEPT ![d] = new] /\ UNCHANGED <<job, made, consent>>
    BY <1>2 DEF CreatePending, n
  <2>2. IsDraft(new) /\ new.status = "draft"
    <3>1. IsDraft(q) /\ new = [q EXCEPT !.status = "draft", !.content = content, !.born = n]
      BY DEF IsDraft, NoDraft
    <3> HIDE DEF q, new
    <3>2. new = [status |-> "draft", content |-> content, mark |-> q.mark, editing |-> q.editing,
                 prep |-> q.prep, born |-> n, attempts |-> q.attempts, lapsed |-> q.lapsed,
                 wait |-> q.wait, overdue |-> q.overdue, calendar |-> q.calendar, chosen |-> q.chosen]
      BY <3>1 DEF IsDraft
    <3> QED BY <3>2 DEF IsDraft
  <2> HIDE DEF new
  <2>3. DOMAIN draft' = DraftId /\ \A f \in DraftId : draft'[f] = IF f = d THEN new ELSE draft[f]
    BY <2>1 DEF Shapes
  <2>4. d \in DraftId => draft[d].chosen = {} /\ consent[d] = {}
    BY <1>2 DEF Consents, Is
  <2> QED BY <1>2, <2>1, <2>2, <2>3, <2>4 DEF Keeps, Shapes, Is
<1> QED BY <1>1, <1>2

LEMMA ConfirmKeeps ==
  ASSUME Shapes, \A d \in DraftId : Consents(d), NEW d, ConfirmPending(d)
  PROVE  Keeps
<1>1. CASE ~Open(d)
  BY <1>1 DEF Shapes, ConfirmPending, Keeps
<1>2. CASE Open(d)
  <2> DEFINE q == draft[d]
             w == q.chosen \cup {q.calendar}
             new == [[q EXCEPT !.status = "confirmed"] EXCEPT !.chosen = w]
  <2>1. draft' = [draft EXCEPT ![d] = new] /\ consent' = [consent EXCEPT ![d] = {q.content}]
        /\ UNCHANGED <<job, made>>
    BY <1>2 DEF ConfirmPending
  <2> HIDE DEF q
  <2>2. ASSUME d \in DraftId
        PROVE  /\ IsDraft(new) /\ new.status = "confirmed" /\ new.content = q.content /\ new.calendar = q.calendar
               /\ new.chosen = w
    <3> HIDE DEF w
    <3>1. IsDraft(q)
      BY <2>2 DEF Shapes, q
    <3>2. PICK r : r = new
      OBVIOUS
    <3>3. r = [status |-> "confirmed", content |-> q.content, mark |-> q.mark, editing |-> q.editing,
               prep |-> q.prep, born |-> q.born, attempts |-> q.attempts, lapsed |-> q.lapsed,
               wait |-> q.wait, overdue |-> q.overdue, calendar |-> q.calendar, chosen |-> w]
      BY <3>1, <3>2 DEF IsDraft
    <3>4. /\ IsDraft(r) /\ r.status = "confirmed" /\ r.content = q.content /\ r.calendar = q.calendar
          /\ r.chosen = w
      <4> HIDE DEF new
      <4> QED BY <3>3 DEF IsDraft
    <3> QED BY <3>2, <3>4
  <2> HIDE DEF new
  <2>3. /\ DOMAIN draft' = DraftId /\ \A f \in DraftId : draft'[f] = IF f = d THEN new ELSE draft[f]
        /\ DOMAIN consent' = DraftId
        /\ \A f \in DraftId : consent'[f] = IF f = d THEN {q.content} ELSE consent[f]
    BY <2>1 DEF Shapes
  <2>4. Is(d, {"draft"})
    BY <1>2 DEF Open
  <2> QED BY <2>1, <2>2, <2>3, <2>4 DEF Keeps, Shapes, q
<1> QED BY <1>1, <1>2

LEMMA CancelKeeps ==
  ASSUME Shapes, \A d \in DraftId : Consents(d), NEW d, CancelPending(d)
  PROVE  Keeps
BY DEF Shapes, Consents, CancelPending, Keeps, SameChoice, Is, IsDraft

LEMMA UpdateKeeps ==
  ASSUME Shapes, \A d \in DraftId : Consents(d), NEW d, NEW content, NEW editing,
         UpdatePending(d, content, editing)
  PROVE  Keeps
<1> DEFINE e == CHOOSE f \in Event : Live(f) /\ From(f) = Owner(d)
           new == [draft EXCEPT ![d] = [@ EXCEPT !.content = content, !.mark = e, !.editing = editing]]
<1> HIDE DEF e
<1>1. draft' \in {draft, new} /\ UNCHANGED <<prepare, job, made, consent>> /\ Is(d, {"draft"})
  BY DEF UpdatePending, CanUpdate, Open, e
<1>2. DOMAIN new = DraftId
  BY DEF Shapes
<1>3. ASSUME NEW f \in DraftId
      PROVE  /\ IsDraft(new[f]) /\ new[f].status = draft[f].status /\ (f # d => new[f] = draft[f])
             /\ new[f].chosen = draft[f].chosen
  <2>1. CASE f = d
    <3>1. new[d] = [[[draft[d] EXCEPT !.content = content] EXCEPT !.mark = e] EXCEPT !.editing = editing]
      BY <2>1 DEF Shapes
    <3>2. IsDraft(draft[d])
      BY <2>1 DEF Shapes
    <3> HIDE DEF new
    <3>3. new[d] = [status |-> draft[d].status, content |-> content, mark |-> e, editing |-> editing,
                    prep |-> draft[d].prep, born |-> draft[d].born, attempts |-> draft[d].attempts,
                    lapsed |-> draft[d].lapsed, wait |-> draft[d].wait, overdue |-> draft[d].overdue,
                    calendar |-> draft[d].calendar, chosen |-> draft[d].chosen]
      BY <3>1, <3>2 DEF IsDraft
    <3>4. IsDraft(new[d]) /\ new[d].status = draft[d].status /\ new[d].chosen = draft[d].chosen
      BY <3>3 DEF IsDraft
    <3> QED BY <2>1, <3>4
  <2>2. CASE f # d
    BY <2>2 DEF Shapes
  <2> QED BY <2>1, <2>2
<1> HIDE DEF new
<1>4. \A f \in DraftId : Is(f, {"draft"}) => consent[f] = {}
  BY DEF Consents, Is
<1> QED BY <1>1, <1>2, <1>3, <1>4 DEF Shapes, Keeps, Is

LEMMA ExpireKeeps ==
  ASSUME Shapes, \A d \in DraftId : Consents(d), NEW s, ExpireDrafts(s)
  PROVE  Keeps
BY DEF Shapes, Consents, ExpireDrafts, Keeps, SameChoice, Is, IsDraft

LEMMA KeepsInv ==
  ASSUME DraftInv, Keeps
  PROVE  DraftInv'
<1>1. Shapes'
  BY DEF DraftInv, Shapes, Keeps
<1>2. ASSUME NEW d \in DraftId PROVE Consents(d)'
  BY DEF DraftInv, Consents, Keeps, SameChoice, Is, Past
<1>3. ASSUME NEW d \in DraftId, consent[d] # {} PROVE consent'[d] = consent[d]
  BY <1>3 DEF DraftInv, Consents, Keeps, Is
<1>4. ASSUME NEW x \in Job PROVE Executes(x)'
  <2>1. \A d \in DraftId : draft[d].chosen \subseteq draft'[d].chosen
    BY DEF Keeps
  <2> QED BY <1>3, <1>4, <2>1 DEF DraftInv, Executions, Executes, Keeps, Settled, InTodo
<1>5. ExecutedAsConfirmed'
  <2> SUFFICES ASSUME NEW op \in Op, made[op].state # "none"
               PROVE  Consented(op)' /\ ShownAsChosen(op)'
    BY DEF ExecutedAsConfirmed, Keeps
  <2>1. PICK d \in DraftId : /\ d[1] = op[1] /\ made[op].content \in consent[d]
                             /\ op \in OpsOf(d, made[op].content) /\ made[op].asked \in draft[d].chosen
    BY DEF DraftInv, ExecutedAsConfirmed, Consented
  <2>2. Consented(op)'
    BY <1>3, <2>1 DEF Consented, Keeps
  <2>3. ShownAsChosen(op)'
    BY DEF DraftInv, ExecutedAsConfirmed, ShownAsChosen, Keeps
  <2> QED BY <2>2, <2>3
<1>6. SucceededIsComplete'
  BY DEF DraftInv, SucceededIsComplete, Keeps, Is, Consents
<1> QED BY <1>1, <1>2, <1>4, <1>5, <1>6 DEF DraftInv, Executions

LEMMA UndoInv ==
  ASSUME DraftInv, NEW d, UndoQuickShopping(d)
  PROVE  DraftInv'
<1>1. CASE Is(d, {"draft", "confirmed", "cancelled"})
  <2>1. Keeps
    BY <1>1 DEF DraftInv, Shapes, Consents, UndoQuickShopping, Keeps, SameChoice, Is, IsDraft
  <2> QED BY <2>1, KeepsInv
<1>2. CASE ~Is(d, {"draft", "confirmed", "cancelled"})
  <2>1. UNCHANGED <<draft, job, consent>> /\ DOMAIN made' = Op
    BY <1>2 DEF UndoQuickShopping
  <2>2. ASSUME NEW op \in Op
        PROVE  /\ IsMade(made'[op]) /\ made'[op].content = made[op].content
               /\ made'[op].asked = made[op].asked /\ made'[op].calendar = made[op].calendar
               /\ made'[op].state = "none" <=> made[op].state = "none"
    <3>1. IsMade(made[op])
      BY DEF DraftInv, Shapes
    <3>2. made'[op] \in {made[op], [made[op] EXCEPT !.state = "removed"]}
             /\ (made'[op] # made[op] => made[op].state = "made")
      BY <1>2 DEF UndoQuickShopping
    <3> QED BY <3>1, <3>2 DEF IsMade
  <2>3. Shapes' /\ \A f \in DraftId : Consents(f)'
    BY <2>1, <2>2 DEF DraftInv, Shapes, Consents, Is
  <2>4. ASSUME NEW x \in Job PROVE Executes(x)'
    <3> SUFFICES ASSUME job[x].pc # "idle" PROVE Executes(x)'
      BY <2>1 DEF Executes
    <3>1. OpsOf(job[x].draft, job[x].content) \subseteq Op
      BY OpsAreOps DEF DraftInv, Executions, Executes
    <3> QED BY <2>1, <2>2, <2>4, <3>1 DEF DraftInv, Executions, Executes, Settled, InTodo
  <2>5. ExecutedAsConfirmed'
    BY <2>1, <2>2 DEF DraftInv, ExecutedAsConfirmed, Consented, ShownAsChosen
  <2>6. SucceededIsComplete'
    <3> SUFFICES ASSUME NEW f \in DraftId, Is(f, {"succeeded"}), NEW op \in OpsOf(f, draft[f].content)
                 PROVE  \/ made'[op].state # "none"
                        \/ draft[f].content.kind \in Review /\ draft[f].content.cand[op[2]] = "existing"
      BY <2>1 DEF SucceededIsComplete, Is
    <3> QED BY <2>2, OpsAreOps DEF DraftInv, SucceededIsComplete
  <2> QED BY <2>3, <2>4, <2>5, <2>6 DEF DraftInv, Executions
<1> QED BY <1>1, <1>2

\* A choice changes the calendar of a row, and that of what it made.
LEMMA ChooseInv ==
  ASSUME DraftInv, NEW d, NEW v, ChooseCalendar(d, v)
  PROVE  DraftInv'
<1>1. UNCHANGED <<job, consent>> /\ DOMAIN draft' = DraftId /\ DOMAIN made' = Op
  BY DEF DraftInv, Shapes, ChooseCalendar
<1>2. ASSUME NEW f \in DraftId
      PROVE  /\ IsDraft(draft'[f]) /\ draft'[f].content = draft[f].content /\ draft'[f].status = draft[f].status
             /\ draft[f].chosen \subseteq draft'[f].chosen
             /\ draft'[f].calendar \in draft'[f].chosen \/ draft'[f].calendar = draft[f].calendar
             /\ f = d => v \in draft'[f].chosen
  <2>1. IsDraft(draft[f])
    BY DEF DraftInv, Shapes
  <2>2. CASE f = d
    <3>1. draft'[f] = [[draft[f] EXCEPT !.calendar = v] EXCEPT !.chosen = draft[f].chosen \cup {v}]
      BY <2>2 DEF DraftInv, Shapes, ChooseCalendar
    <3> DEFINE r == draft[f]
    <3> HIDE DEF r
    <3>2. draft'[f] = [[r EXCEPT !.calendar = v] EXCEPT !.chosen = r.chosen \cup {v}] /\ IsDraft(r)
      BY <2>1, <3>1 DEF r
    <3>3. draft'[f] = [status |-> r.status, content |-> r.content, mark |-> r.mark, editing |-> r.editing,
                       prep |-> r.prep, born |-> r.born, attempts |-> r.attempts, lapsed |-> r.lapsed,
                       wait |-> r.wait, overdue |-> r.overdue, calendar |-> v, chosen |-> r.chosen \cup {v}]
      BY <3>2 DEF IsDraft
    <3> QED BY <3>3 DEF IsDraft, r
  <2>3. CASE f # d
    <3>1. draft'[f] = draft[f]
      BY <2>3 DEF DraftInv, Shapes, ChooseCalendar
    <3> QED BY <2>1, <2>3, <3>1
  <2> QED BY <2>2, <2>3
<1>3. ASSUME NEW op \in Op
      PROVE  /\ IsMade(made'[op]) /\ made'[op].content = made[op].content /\ made'[op].asked = made[op].asked
             /\ made'[op].state = made[op].state
             /\ made'[op].calendar # made[op].calendar =>
                  made'[op].calendar = v /\ op = d /\ d \in DraftId
  <2>1. IsMade(made[op])
    BY DEF DraftInv, Shapes
  <2>2. \/ made'[op] = made[op]
        \/ /\ made'[op] = [made[op] EXCEPT !.calendar = v] /\ op = d /\ d \in DraftId
    BY DEF DraftInv, Shapes, ChooseCalendar, CanChoose
  <2> QED BY <2>1, <2>2 DEF IsMade
<1>4. Shapes' /\ \A f \in DraftId : Consents(f)'
  <2>1. Shapes'
    BY <1>1, <1>2, <1>3 DEF DraftInv, Shapes
  <2>2. ASSUME NEW f \in DraftId PROVE Consents(f)'
    <3>1. Is(f, {"absent"}) => draft'[f].chosen = {}
      BY DEF DraftInv, Consents, ChooseCalendar, CanChoose, Shapes, Is
    <3>2. Consents(f)
      BY DEF DraftInv
    <3> QED BY <1>1, <1>2, <3>1, <3>2 DEF Consents, Is
  <2> QED BY <2>1, <2>2
<1>5. ASSUME NEW x \in Job PROVE Executes(x)'
  <2> SUFFICES ASSUME job[x].pc # "idle" PROVE Executes(x)'
    BY <1>1 DEF Executes
  <2>1. OpsOf(job[x].draft, job[x].content) \subseteq Op
    BY OpsAreOps DEF DraftInv, Executions, Executes
  <2> QED BY <1>1, <1>2, <1>3, <2>1 DEF DraftInv, Executions, Executes, Settled, InTodo
<1>6. ExecutedAsConfirmed'
  <2> SUFFICES ASSUME NEW op \in Op, made[op].state # "none"
               PROVE  Consented(op)' /\ ShownAsChosen(op)'
    BY <1>3 DEF ExecutedAsConfirmed
  <2>1. PICK f \in DraftId : /\ f[1] = op[1] /\ made[op].content \in consent[f]
                             /\ op \in OpsOf(f, made[op].content) /\ made[op].asked \in draft[f].chosen
    BY DEF DraftInv, ExecutedAsConfirmed, Consented
  <2>2. Consented(op)'
    BY <1>1, <1>2, <1>3, <2>1 DEF Consented
  <2>3. ShownAsChosen(op)'
    BY <1>2, <1>3 DEF DraftInv, ExecutedAsConfirmed, ShownAsChosen
  <2> QED BY <2>2, <2>3
<1>7. SucceededIsComplete'
  <2> SUFFICES ASSUME NEW f \in DraftId, Is(f, {"succeeded"}), NEW op \in OpsOf(f, draft[f].content)
               PROVE  \/ made'[op].state # "none"
                      \/ draft[f].content.kind \in Review /\ draft[f].content.cand[op[2]] = "existing"
    BY <1>2 DEF SucceededIsComplete, Is
  <2> QED BY <1>3, OpsAreOps DEF DraftInv, SucceededIsComplete
<1> QED BY <1>4, <1>5, <1>6, <1>7 DEF DraftInv, Executions

-----------------------------------------------------------------------------
(* process-pending-actions.                                                 *)

\* A row changes, but neither in its status nor in its calendar nor, once
\* confirmed, its content.
RowChanges(d) ==
  /\ DOMAIN draft' = DraftId /\ \A f \in DraftId : f # d => draft'[f] = draft[f]
  /\ IsDraft(draft'[d]) /\ draft'[d].status = draft[d].status /\ SameChoice(d)
  /\ draft'[d].content = draft[d].content \/ Is(d, {"draft"})

LEMMA RowKeeps ==
  ASSUME DraftInv, NEW d \in DraftId, RowChanges(d), UNCHANGED <<job, made, consent>>
  PROVE  Keeps
<1>1. Is(d, {"draft"}) => consent'[d] = {}
  BY DEF DraftInv, Consents, Is
<1> QED BY <1>1 DEF DraftInv, Shapes, Keeps, SameChoice, Is, RowChanges

LEMMA PreparationKeeps ==
  ASSUME DraftInv, NEW d \in DraftId,
         \/ ClaimDraft(d) \/ PrepareDraft(d) \/ MarkPreviewed(d) \/ LoseDraftRun(d)
         \/ DraftLeaseLapses(d) \/ ExecutionDue(d) \/ TimePasses(d)
  PROVE  Keeps
<1> DEFINE row == draft[d]
<1>0. IsDraft(row)
  BY DEF DraftInv, Shapes
<1>1. UNCHANGED <<job, made, consent>>
  BY DEF ClaimDraft, PrepareDraft, MarkPreviewed, LoseDraftRun, DraftLeaseLapses, ExecutionDue, TimePasses
<1>2. ASSUME NEW c, Open(d),
             draft' = [draft EXCEPT ![d] = [@ EXCEPT !.content = c, !.prep = "ready", !.editing = FALSE]]
      PROVE  Keeps
  <2>1. draft'[d] = [[[draft[d] EXCEPT !.content = c] EXCEPT !.prep = "ready"] EXCEPT !.editing = FALSE]
    BY <1>2 DEF DraftInv, Shapes
  <2>2. draft'[d] = [status |-> draft[d].status, content |-> c, mark |-> draft[d].mark, editing |-> FALSE,
                     prep |-> "ready", born |-> draft[d].born, attempts |-> draft[d].attempts,
                     lapsed |-> draft[d].lapsed, wait |-> draft[d].wait, overdue |-> draft[d].overdue,
                     calendar |-> draft[d].calendar, chosen |-> draft[d].chosen]
    BY <1>0, <2>1 DEF IsDraft
  <2>3. RowChanges(d)
    BY <1>2, <2>2 DEF DraftInv, Shapes, RowChanges, SameChoice, IsDraft, Open
  <2> QED BY <1>1, <2>3, RowKeeps
<1>3. ASSUME NEW v, \/ draft' = [draft EXCEPT ![d].prep = v] \/ draft' = [draft EXCEPT ![d].lapsed = v]
                    \/ draft' = [draft EXCEPT ![d].wait = v] \/ draft' = [draft EXCEPT ![d].overdue = v]
      PROVE  Keeps
  <2>1. draft'[d] \in {[row EXCEPT !.prep = v], [row EXCEPT !.lapsed = v], [row EXCEPT !.wait = v],
                       [row EXCEPT !.overdue = v]}
    BY <1>3 DEF DraftInv, Shapes
  <2>2. DOMAIN draft' = DraftId /\ \A f \in DraftId \ {d} : draft'[f] = draft[f]
    BY <1>3 DEF DraftInv, Shapes
  <2>3. /\ IsDraft(draft'[d]) /\ draft'[d].status = row.status /\ draft'[d].content = row.content
        /\ draft'[d].calendar = row.calendar /\ draft'[d].chosen = row.chosen
    <3> HIDE DEF row
    <3> QED BY <1>0, <2>1 DEF IsDraft
  <2>4. RowChanges(d)
    BY <2>2, <2>3 DEF RowChanges, SameChoice
  <2> QED BY <1>1, <2>4, RowKeeps
<1>4. draft' = draft => Keeps
  BY <1>1 DEF DraftInv, Shapes, Keeps
<1>5. CASE PrepareDraft(d)
  BY <1>2, <1>3, <1>4, <1>5 DEF PrepareDraft
<1> QED
  BY <1>3, <1>4, <1>5 DEF ClaimDraft, MarkPreviewed, LoseDraftRun, DraftLeaseLapses, ExecutionDue, TimePasses

LEMMA SweepKeeps == ASSUME DraftInv, SweepOverdue PROVE Keeps
BY DEF DraftInv, Shapes, Consents, Keeps, SameChoice, Is, IsDraft, SweepOverdue, Swept

\* A step of one execution: rows keep their contents and consents, what is made
\* stays made, and the invariants are to be seen for that execution alone.
Works(x) ==
  /\ consent' = consent /\ Shapes'
  /\ \A d \in DraftId : draft'[d].content = draft[d].content /\ SameChoice(d)
  /\ \A d \in DraftId : ~(Is(d, Past) /\ draft'[d].status \in Past \cup {"dead"}) =>
                          draft'[d].status \in {draft[d].status, "expired"}
  /\ \A y \in Job \ {x} : job'[y] = job[y]
  /\ \A op \in Op : made[op].state # "none" => made'[op] = made[op]

LEMMA WorksInv ==
  ASSUME DraftInv, NEW x \in Job, Works(x), Executes(x)', ExecutedAsConfirmed',
         \A d \in DraftId : draft'[d].status = "succeeded" =>
           \/ Is(d, {"succeeded"})
           \/ \A op \in OpsOf(d, draft[d].content) : Settled(op, draft[d].content)
  PROVE  DraftInv'
<1>1. ASSUME NEW d \in DraftId PROVE Consents(d)'
  BY DEF DraftInv, Consents, Works, SameChoice, Is, Past
<1>2. ASSUME NEW y \in Job PROVE Executes(y)'
  <2>1. CASE y = x
    BY <2>1
  <2>2. CASE y # x
    <3> SUFFICES ASSUME job[y].pc # "idle" PROVE Executes(y)'
      BY <2>2 DEF Works, Executes
    <3>1. OpsOf(job[y].draft, job[y].content) \subseteq Op
      BY OpsAreOps DEF DraftInv, Executions, Executes
    <3>2. job'[y] = job[y] /\ consent' = consent /\ (\A d \in DraftId : draft'[d].chosen = draft[d].chosen)
          /\ \A op \in Op : made[op].state # "none" => made'[op] = made[op]
      BY <2>2 DEF Works, SameChoice
    <3> QED BY <3>1, <3>2 DEF DraftInv, Executions, Executes, Settled, InTodo
  <2> QED BY <2>1, <2>2
<1>3. SucceededIsComplete'
  <2> SUFFICES ASSUME NEW d \in DraftId, draft'[d].status = "succeeded",
                      NEW op \in OpsOf(d, draft[d].content)
               PROVE  \/ made'[op].state # "none"
                      \/ /\ draft[d].content.kind \in Review
                         /\ draft[d].content.cand[op[2]] = "existing"
    BY DEF SucceededIsComplete, Is, Works
  <2>1. op \in Op
    BY OpsAreOps
  <2> QED BY <2>1 DEF DraftInv, SucceededIsComplete, Settled, Works
<1> QED BY <1>1, <1>2, <1>3 DEF DraftInv, Executions, Works

\* Nothing is made and no row is done: only the execution has to be seen.
LEMMA WorksQuietly ==
  ASSUME DraftInv, NEW x \in Job, Works(x), Executes(x)', made' = made,
         \A d \in DraftId : draft'[d].status = "succeeded" => Is(d, {"succeeded"})
  PROVE  DraftInv'
<1>1. ExecutedAsConfirmed'
  BY DEF DraftInv, ExecutedAsConfirmed, Consented, ShownAsChosen, Works, SameChoice
<1> QED BY <1>1, WorksInv

LEMMA ClaimConfirmedInv ==
  ASSUME DraftInv, NEW x \in Job, NEW d \in DraftId, ClaimConfirmed(x, d)
  PROVE  DraftInv'
<1> DEFINE j == [draft |-> d, token |-> draft[d].attempts + 1, content |-> draft[d].content,
                 calendar |-> draft[d].calendar, todo |-> <<>>, pc |-> "check"]
<1>1. job' = [job EXCEPT ![x] = j] /\ made' = made /\ consent' = consent
  BY DEF ClaimConfirmed
<1>2. consent[d] = {draft[d].content} /\ Is(d, Past) /\ draft[d].calendar \in draft[d].chosen
  BY DEF DraftInv, Consents, ClaimConfirmed, Due, DueOnce, Is, Past
<1>3. DOMAIN Swept = DraftId /\ \A f \in DraftId : IsDraft(Swept[f])
        /\ Swept[f].content = draft[f].content /\ Swept[f].status \in {draft[f].status, "expired"}
        /\ Swept[f].calendar = draft[f].calendar /\ Swept[f].chosen = draft[f].chosen
  BY DEF Swept, DraftInv, Shapes, IsDraft
<1>4. Swept[d].status = draft[d].status
  BY DEF ClaimConfirmed, Swept, DraftInv, Shapes
<1>5. DOMAIN draft' = DraftId /\ \A f \in DraftId : f # d => draft'[f] = Swept[f]
  BY <1>3 DEF ClaimConfirmed
<1>6. /\ IsDraft(draft'[d]) /\ draft'[d].content = draft[d].content /\ draft'[d].status = "executing"
      /\ SameChoice(d)
  <2>1. draft'[d] = [[[[Swept[d] EXCEPT !.status = "executing"] EXCEPT !.lapsed = FALSE] EXCEPT !.wait = FALSE]
                       EXCEPT !.attempts = @ + 1]
    BY <1>3 DEF ClaimConfirmed
  <2> DEFINE r == Swept[d]
  <2> HIDE DEF r
  <2>2. IsDraft(r) /\ r.content = draft[d].content /\ r.calendar = draft[d].calendar /\ r.chosen = draft[d].chosen
    BY <1>3 DEF r
  <2>3. draft'[d] = [[[[r EXCEPT !.status = "executing"] EXCEPT !.lapsed = FALSE] EXCEPT !.wait = FALSE]
                       EXCEPT !.attempts = @ + 1]
    BY <2>1 DEF r
  <2>4. draft'[d] = [status |-> "executing", content |-> r.content, mark |-> r.mark, editing |-> r.editing,
                     prep |-> r.prep, born |-> r.born, attempts |-> r.attempts + 1,
                     lapsed |-> FALSE, wait |-> FALSE, overdue |-> r.overdue,
                     calendar |-> r.calendar, chosen |-> r.chosen]
    BY <2>2, <2>3 DEF IsDraft
  <2> QED BY <2>2, <2>4 DEF IsDraft, SameChoice
<1>7. DOMAIN job' = Job /\ job'[x] = j /\ \A y \in Job \ {x} : job'[y] = job[y]
  BY <1>1 DEF DraftInv, Shapes
<1>8. Works(x)
  <2>1. \A y \in Job : IsJob(job'[y])
    BY <1>7 DEF DraftInv, Shapes, IsJob
  <2> HIDE DEF j
  <2>2. \A f \in DraftId : IsDraft(draft'[f]) /\ draft'[f].content = draft[f].content /\ SameChoice(f)
    BY <1>3, <1>5, <1>6 DEF SameChoice
  <2>3. Shapes'
    BY <1>1, <1>5, <1>7, <2>1, <2>2 DEF DraftInv, Shapes
  <2>4. ASSUME NEW f \in DraftId
        PROVE  ~(Is(f, Past) /\ draft'[f].status \in Past \cup {"dead"}) =>
                 draft'[f].status \in {draft[f].status, "expired"}
    BY <1>2, <1>3, <1>5, <1>6 DEF Past
  <2> QED BY <1>1, <1>7, <2>2, <2>3, <2>4 DEF Works
<1>9. Executes(x)'
  <2>1. <<>> \in Seq(OpsOf(d, draft[d].content))
    OBVIOUS
  <2>2. draft'[d].chosen = draft[d].chosen
    BY <1>6 DEF SameChoice
  <2> QED BY <1>1, <1>2, <1>7, <2>1, <2>2 DEF Executes
<1>10. \A f \in DraftId : draft'[f].status = "succeeded" => Is(f, {"succeeded"})
  BY <1>3, <1>5, <1>6 DEF Is
<1> QED BY <1>1, <1>8, <1>9, <1>10, WorksQuietly

\* Only the execution moves on, and what is made stays made.
MovesJob(x, j) ==
  /\ DOMAIN job' = Job /\ job'[x] = j /\ \A y \in Job \ {x} : job'[y] = job[y]
  /\ DOMAIN made' = Op /\ \A op \in Op : IsMade(made'[op])
  /\ \A op \in Op : made[op].state # "none" => made'[op] = made[op]

LEMMA JobMoves ==
  ASSUME DraftInv, NEW x \in Job, NEW j, IsJob(j), MovesJob(x, j), UNCHANGED <<draft, consent>>
  PROVE  Works(x)
<1>1. Shapes'
  BY DEF DraftInv, Shapes, MovesJob
<1> QED BY <1>1 DEF Works, MovesJob, SameChoice

LEMMA PartsOfReview ==
  ASSUME NEW d, NEW c, c.kind \in Review
  PROVE  LET parts == PartOf(d, c, "c1") \o PartOf(d, c, "c2")
         IN  /\ parts \in Seq(OpsOf(d, c))
             /\ \A op \in OpsOf(d, c) : \E i \in 1 .. Len(parts) : parts[i] = op
<1> DEFINE ops == OpsOf(d, c)
           first == PartOf(d, c, "c1")
           second == PartOf(d, c, "c2")
<1>1. ops = {<<d[1], k>> : k \in Active(c)} /\ Active(c) \subseteq {"c1", "c2"}
  BY DEF OpsOf, Active, Candidate
<1>2. ASSUME NEW k \in {"c1", "c2"}
      PROVE  LET part == PartOf(d, c, k)
             IN  /\ part \in Seq(ops)
                 /\ k \in Active(c) => Len(part) = 1 /\ part[1] = <<d[1], k>>
  <2>1. CASE k \in Active(c)
    <3>1. PartOf(d, c, k) = <<<<d[1], k>>>> /\ <<d[1], k>> \in ops
      BY <1>1, <2>1 DEF PartOf
    <3> QED BY <3>1
  <2>2. CASE k \notin Active(c)
    BY <2>2 DEF PartOf
  <2> QED BY <2>1, <2>2
<1>3. first \in Seq(ops) /\ second \in Seq(ops)
  BY <1>2
<1> DEFINE parts == first \o second
<1>4. /\ parts \in Seq(ops) /\ Len(parts) = Len(first) + Len(second)
      /\ \A i \in 1 .. Len(first) : parts[i] = first[i]
      /\ \A i \in 1 .. Len(second) : parts[Len(first) + i] = second[i]
  <2> HIDE DEF first, second, ops
  <2> QED BY <1>3, ConcatProperties
<1>5. ASSUME NEW op \in ops PROVE \E i \in 1 .. Len(parts) : parts[i] = op
  <2>1. CASE op = <<d[1], "c1">> /\ "c1" \in Active(c)
    <3> HIDE DEF parts, ops
    <3>1. Len(first) = 1 /\ first[1] = op
      BY <1>2, <2>1
    <3> HIDE DEF first, second
    <3>2. 1 \in 1 .. Len(parts) /\ parts[1] = op
      BY <1>3, <1>4, <3>1
    <3> QED BY <3>2
  <2>2. CASE op = <<d[1], "c2">> /\ "c2" \in Active(c)
    <3> HIDE DEF parts, ops
    <3>1. Len(second) = 1 /\ second[1] = op
      BY <1>2, <2>2
    <3> HIDE DEF first, second
    <3>2. Len(first) + 1 \in 1 .. Len(parts) /\ parts[Len(first) + 1] = op
      BY <1>3, <1>4, <3>1
    <3> QED BY <3>2
  <2> QED BY <1>1, <2>1, <2>2
<1> QED BY <1>4, <1>5

LEMMA StartExecutionInv ==
  ASSUME DraftInv, NEW x \in Job, StartExecution(x)
  PROVE  DraftInv'
<1> DEFINE d == job[x].draft
           c == job[x].content
           parts == PartOf(d, c, "c1") \o PartOf(d, c, "c2")
           j(pc, todo) == [draft |-> d, token |-> job[x].token, content |-> c, calendar |-> job[x].calendar,
                           todo |-> todo, pc |-> pc]
<1>1. d \in DraftId /\ consent[d] = {c} /\ job[x].calendar \in draft[d].chosen
  BY DEF DraftInv, Executions, Executes, StartExecution
<1>2. UNCHANGED <<draft, consent, made>>
  BY DEF StartExecution
<1>3. PICK pc \in {"failing", "execute"}, todo \in {<<>>, <<d>>, parts} :
        /\ job' = [job EXCEPT ![x] = [@ EXCEPT !.pc = pc, !.todo = todo]]
        /\ pc = "failing" => todo = <<>>
        /\ pc = "execute" => todo = IF c.kind \notin Review THEN <<d>> ELSE parts
  BY DEF StartExecution
<1>4. MovesJob(x, j(pc, todo))
  <2>1. job'[x] = [[job[x] EXCEPT !.pc = pc] EXCEPT !.todo = todo]
    BY <1>3 DEF DraftInv, Shapes
  <2>2. IsJob(job[x])
    BY DEF DraftInv, Shapes
  <2>3. job'[x] = j(pc, todo)
    BY <2>1, <2>2 DEF IsJob
  <2> QED BY <1>2, <1>3, <2>3 DEF DraftInv, Shapes, MovesJob
<1>5. todo \in Seq(OpsOf(d, c)) /\ (pc = "execute" => \A op \in OpsOf(d, c) : \E i \in 1 .. Len(todo) : todo[i] = op)
  <2> HIDE DEF d, c, parts
  <2>1. CASE pc = "failing"
    BY <1>3, <2>1
  <2>2. CASE pc = "execute" /\ c.kind \notin Review
    <3>1. OpsOf(d, c) = {d} /\ todo = <<d>>
      BY <1>3, <2>2 DEF OpsOf
    <3> QED BY <3>1
  <2>3. CASE pc = "execute" /\ c.kind \in Review
    <3>1. todo = parts
      BY <1>3, <2>3
    <3> QED BY <2>3, <3>1, PartsOfReview DEF parts
  <2> QED BY <2>1, <2>2, <2>3
<1>6. Works(x)
  <2>1. IsJob(j(pc, todo))
    BY DEF IsJob
  <2> QED BY <1>2, <1>4, <2>1, JobMoves
<1>7. Executes(x)'
  BY <1>1, <1>2, <1>4, <1>5 DEF Executes, InTodo, MovesJob
<1> QED BY <1>2, <1>6, <1>7, WorksQuietly DEF Is

\* An effect is made of the content that was confirmed.
LEMMA EffectMade ==
  ASSUME DraftInv, NEW x \in Job, job[x].pc = "execute", job[x].todo # <<>>, made' \in {made, Made(x)},
         UNCHANGED <<draft, consent>>
  PROVE  /\ DOMAIN made' = Op /\ \A op \in Op : IsMade(made'[op])
         /\ \A op \in Op : made[op].state # "none" => made'[op] = made[op]
         /\ ExecutedAsConfirmed'
         /\ Head(job[x].todo) \in OpsOf(job[x].draft, job[x].content)
         /\ made' = Made(x) => made'[Head(job[x].todo)].state # "none"
<1> DEFINE d == job[x].draft
           c == job[x].content
           op == Head(job[x].todo)
           effect == [state |-> "made", content |-> c, asked |-> job[x].calendar, calendar |-> job[x].calendar]
<1>1. d \in DraftId /\ consent[d] = {c} /\ job[x].calendar \in draft[d].chosen /\ job[x].todo \in Seq(OpsOf(d, c))
  BY DEF DraftInv, Executions, Executes
<1>2. op \in OpsOf(d, c)
  BY <1>1
<1>3. op \in Op /\ op[1] = d[1]
  BY <1>1, <1>2, OpsAreOps
<1> HIDE DEF op
<1>4. Made(x) = IF made[op].state = "none" THEN [made EXCEPT ![op] = effect] ELSE made
  BY DEF Made, op
<1>5. /\ IsMade(effect) /\ effect.state = "made" /\ effect.content = c
      /\ effect.asked = job[x].calendar /\ effect.calendar = job[x].calendar
  BY DEF IsMade
<1> HIDE DEF effect
<1>6. \/ made' = made
      \/ /\ made[op].state = "none" /\ DOMAIN made' = Op /\ made'[op] = effect
         /\ \A other \in Op : other # op => made'[other] = made[other]
  BY <1>3, <1>4 DEF DraftInv, Shapes
<1>7. ExecutedAsConfirmed'
  <2> SUFFICES ASSUME NEW other \in Op, made'[other].state # "none"
               PROVE  Consented(other)' /\ ShownAsChosen(other)'
    BY DEF ExecutedAsConfirmed
  <2>1. CASE made'[other] = made[other]
    BY <2>1 DEF DraftInv, ExecutedAsConfirmed, Consented, ShownAsChosen
  <2>2. CASE other = op /\ made'[op] = effect
    BY <1>1, <1>2, <1>3, <1>5, <2>2 DEF Consented, ShownAsChosen
  <2> QED BY <1>6, <2>1, <2>2
<1>8. made' = Made(x) => made'[op].state # "none"
  BY <1>3, <1>4, <1>5 DEF DraftInv, Shapes
<1>9. DOMAIN made' = Op /\ (\A other \in Op : IsMade(made'[other]))
      /\ \A other \in Op : made[other].state # "none" => made'[other] = made[other]
  BY <1>5, <1>6 DEF DraftInv, Shapes
<1> QED BY <1>2, <1>7, <1>8, <1>9 DEF op

LEMMA ExecuteOpInv ==
  ASSUME DraftInv, NEW x \in Job, ExecuteOp(x)
  PROVE  DraftInv'
<1> DEFINE d == job[x].draft
           c == job[x].content
           todo == job[x].todo
           op == Head(todo)
           j(pc, rest) == [draft |-> d, token |-> job[x].token, content |-> c, calendar |-> job[x].calendar,
                           todo |-> rest, pc |-> pc]
<1>1. /\ d \in DraftId /\ consent[d] = {c} /\ job[x].calendar \in draft[d].chosen
      /\ todo \in Seq(OpsOf(d, c)) /\ todo # <<>> /\ job[x].pc = "execute"
      /\ \A other \in OpsOf(d, c) : InTodo(other, x) \/ Settled(other, c)
  BY DEF DraftInv, Executions, Executes, ExecuteOp
<1>2. UNCHANGED <<draft, consent>> /\ made' \in {made, Made(x)}
  BY DEF ExecuteOp
<1>3. PICK pc, rest :
        /\ MovesJob(x, j(pc, rest))
        /\ \/ pc = "failing" /\ rest = todo
           \/ pc = "execute" /\ rest = Tail(todo) /\ (made' = Made(x) \/ Decision(x) = "existing")
  <2>1. \/ job' = [job EXCEPT ![x].pc = "failing"]
        \/ Decision(x) = "existing" /\ job' = [job EXCEPT ![x].todo = Tail(@)]
        \/ made' = Made(x) /\ job' = [job EXCEPT ![x].todo = Tail(@)]
    BY DEF ExecuteOp
  <2>2. IsJob(job[x])
    BY DEF DraftInv, Shapes
  <2>3. DOMAIN job' = Job /\ \A y \in Job \ {x} : job'[y] = job[y]
    BY <2>1 DEF DraftInv, Shapes
  <2>4. job' = [job EXCEPT ![x].pc = "failing"] => job'[x] = j("failing", todo)
    BY <2>2 DEF IsJob, DraftInv, Shapes
  <2>5. job' = [job EXCEPT ![x].todo = Tail(@)] => job'[x] = j("execute", Tail(todo))
    BY <1>1, <2>2 DEF IsJob, DraftInv, Shapes
  <2>6. ASSUME NEW pc, NEW rest, job'[x] = j(pc, rest) PROVE MovesJob(x, j(pc, rest))
    BY <1>1, <1>2, <2>3, <2>6, EffectMade DEF MovesJob
  <2> QED BY <2>1, <2>4, <2>5, <2>6
<1>4. Works(x)
  <2>1. IsJob(j(pc, rest))
    BY DEF IsJob
  <2> QED BY <1>2, <1>3, <2>1, JobMoves
<1>5. OpsOf(d, c) \subseteq Op
  BY <1>1, OpsAreOps
<1>6. ExecutedAsConfirmed' /\ op \in OpsOf(d, c) /\ (made' = Made(x) => made'[op].state # "none")
  BY <1>1, <1>2, EffectMade
<1>7. Executes(x)'
  <2>1. job'[x] = j(pc, rest)
    BY <1>3 DEF MovesJob
  <2>2. rest \in Seq(OpsOf(d, c))
    <3>1. todo \in Seq(OpsOf(d, c)) /\ todo # <<>> /\ rest \in {todo, Tail(todo)}
      BY <1>1, <1>3
    <3> HIDE DEF todo, d, c
    <3> QED BY <3>1
  <2>3. ASSUME pc = "execute", NEW other \in OpsOf(d, c)
        PROVE  \/ \E i \in 1 .. Len(rest) : rest[i] = other
               \/ made'[other].state # "none"
               \/ c.kind \in Review /\ c.cand[other[2]] = "existing"
    <3>1. CASE Settled(other, c)
      BY <1>4, <1>5, <3>1 DEF Settled, Works
    <3>2. CASE other = op
      <4>1. Decision(x) = "existing" => c.kind \in Review /\ c.cand[op[2]] = "existing"
        BY DEF Decision
      <4> QED BY <1>3, <1>6, <2>3, <3>2, <4>1 DEF Settled
    <3>3. CASE other # op /\ InTodo(other, x)
      <4>1. PICK i \in 1 .. Len(todo) : todo[i] = other
        BY <3>3 DEF InTodo
      <4>2. i # 1 /\ rest = Tail(todo)
        BY <1>1, <1>3, <2>3, <3>3, <4>1
      <4>3. i - 1 \in 1 .. Len(rest) /\ rest[i - 1] = other
        BY <1>1, <4>1, <4>2
      <4> QED BY <4>3
    <3> QED BY <1>1, <3>1, <3>2, <3>3
  <2> QED BY <1>1, <1>2, <2>1, <2>2, <2>3 DEF Executes, InTodo, Settled
<1> QED BY <1>2, <1>4, <1>6, <1>7, WorksInv DEF Is

LEMMA FailOpInv ==
  ASSUME DraftInv, NEW x \in Job, FailOp(x)
  PROVE  DraftInv'
<1> DEFINE j == [job[x] EXCEPT !.pc = "failing"]
<1>1. /\ UNCHANGED <<draft, consent>> /\ made' \in {made, Made(x)} /\ job' = [job EXCEPT ![x] = j]
      /\ job[x].pc = "execute" /\ job[x].todo # <<>>
  BY DEF FailOp
<1>2. IsJob(job[x])
  BY DEF DraftInv, Shapes
<1>3. /\ IsJob(j) /\ j.draft = job[x].draft /\ j.content = job[x].content /\ j.todo = job[x].todo
      /\ j.pc = "failing" /\ j.calendar = job[x].calendar
  BY <1>2 DEF IsJob
<1> HIDE DEF j
<1>4. DOMAIN job' = Job /\ job'[x] = j /\ \A y \in Job \ {x} : job'[y] = job[y]
  BY <1>1 DEF DraftInv, Shapes
<1>5. MovesJob(x, j) /\ ExecutedAsConfirmed'
  BY <1>1, <1>4, EffectMade DEF MovesJob
<1>6. Works(x)
  BY <1>1, <1>3, <1>5, JobMoves
<1>7. Executes(x)'
  BY <1>1, <1>3, <1>4 DEF DraftInv, Executions, Executes
<1> QED BY <1>1, <1>5, <1>6, <1>7, WorksInv DEF Is

\* An execution ends: its row is settled if it still holds it.
LEMMA EndsInv ==
  ASSUME DraftInv, NEW x \in Job, job' = [job EXCEPT ![x] = NoJob], UNCHANGED <<made, consent>>,
         NEW d \in DraftId, NEW r, IsDraft(r), r.content = draft[d].content, r.status \in Past \cup {"dead"},
         r.calendar = draft[d].calendar, r.chosen = draft[d].chosen,
         \/ draft' = draft
         \/ Is(d, {"executing"}) /\ draft' = [draft EXCEPT ![d] = r],
         r.status = "succeeded" => \A op \in OpsOf(d, draft[d].content) : Settled(op, draft[d].content)
  PROVE  DraftInv'
<1>1. DOMAIN job' = Job /\ job'[x] = NoJob /\ \A y \in Job \ {x} : job'[y] = job[y]
  BY DEF DraftInv, Shapes
<1>2. IsJob(NoJob) /\ NoJob.pc = "idle"
  BY DEF IsJob, NoJob
<1>3. \/ draft' = draft
      \/ /\ Is(d, {"executing"}) /\ DOMAIN draft' = DraftId /\ draft'[d] = r
         /\ \A f \in DraftId : f # d => draft'[f] = draft[f]
  BY DEF DraftInv, Shapes
<1>4. Shapes'
  BY <1>1, <1>2, <1>3 DEF DraftInv, Shapes
<1>5. Works(x)
  BY <1>1, <1>3, <1>4 DEF Works, SameChoice, Is, Past
<1>6. Executes(x)'
  BY <1>1, <1>2 DEF Executes
<1>7. ExecutedAsConfirmed'
  <2>1. made' = made /\ consent' = consent /\ \A f \in DraftId : draft'[f].chosen = draft[f].chosen
    BY <1>5 DEF Works, SameChoice
  <2> QED BY <2>1 DEF DraftInv, ExecutedAsConfirmed, Consented, ShownAsChosen
<1> QED BY <1>3, <1>5, <1>6, <1>7, WorksInv DEF Is

SameWish(r, q) == r.content = q.content /\ r.calendar = q.calendar /\ r.chosen = q.chosen

LEMMA FieldsSet ==
  ASSUME NEW q, IsDraft(q), NEW v
  PROVE  /\ LET r == [q EXCEPT !.status = v] IN IsDraft(r) /\ r.status = v /\ SameWish(r, q)
         /\ LET r == [q EXCEPT !.lapsed = v] IN IsDraft(r) /\ r.status = q.status /\ SameWish(r, q)
         /\ LET r == [q EXCEPT !.wait = v]   IN IsDraft(r) /\ r.status = q.status /\ SameWish(r, q)
BY DEF IsDraft, SameWish

LEMMA CompleteJobInv ==
  ASSUME DraftInv, NEW x \in Job, CompleteJob(x)
  PROVE  DraftInv'
<1> DEFINE d == job[x].draft
           c == job[x].content
           r == [[draft[d] EXCEPT !.status = "succeeded"] EXCEPT !.lapsed = FALSE]
<1>1. d \in DraftId /\ consent[d] = {c}
  BY DEF DraftInv, Executions, Executes, CompleteJob
<1>2. draft[d].content = c /\ IsDraft(draft[d])
  BY <1>1 DEF DraftInv, Shapes, Consents
<1>3. \A op \in OpsOf(d, c) : Settled(op, c)
  <2>1. job[x].pc = "execute" /\ job[x].todo = <<>>
    BY DEF CompleteJob
  <2>2. Executes(x)
    BY DEF DraftInv, Executions
  <2>3. \A op \in OpsOf(d, c) : InTodo(op, x) \/ Settled(op, c)
    BY <2>1, <2>2 DEF Executes
  <2>4. \A op : ~InTodo(op, x)
    BY <2>1 DEF InTodo
  <2> QED BY <2>3, <2>4
<1>5. job' = [job EXCEPT ![x] = NoJob] /\ UNCHANGED <<made, consent>>
      /\ \/ draft' = draft
         \/ Is(d, {"executing"}) /\ draft' = [draft EXCEPT ![d] = r]
  BY DEF CompleteJob, HoldsDraft
<1>6. IsDraft(r) /\ SameWish(r, draft[d]) /\ r.status = "succeeded"
  <2> DEFINE q == [draft[d] EXCEPT !.status = "succeeded"]
  <2>1. IsDraft(q) /\ SameWish(q, draft[d]) /\ q.status = "succeeded"
    BY <1>2, FieldsSet
  <2> HIDE DEF q
  <2>2. LET p == [q EXCEPT !.lapsed = FALSE] IN IsDraft(p) /\ p.status = q.status /\ SameWish(p, q)
    BY <2>1, FieldsSet
  <2> QED BY <2>1, <2>2 DEF q, SameWish
<1> HIDE DEF r
<1> QED BY <1>1, <1>2, <1>3, <1>5, <1>6, EndsInv DEF Past, SameWish

LEMMA FailJobInv ==
  ASSUME DraftInv, NEW x \in Job, FailJob(x)
  PROVE  DraftInv'
<1> DEFINE d == job[x].draft
           last == draft[d].attempts >= MaxExecutions
           status == IF last THEN "dead" ELSE "confirmed"
           r == [[[draft[d] EXCEPT !.status = status] EXCEPT !.lapsed = FALSE] EXCEPT !.wait = ~last]
<1>1. d \in DraftId
  BY DEF DraftInv, Executions, Executes, FailJob
<1>2. IsDraft(draft[d])
  BY <1>1 DEF DraftInv, Shapes
<1>4. job' = [job EXCEPT ![x] = NoJob] /\ UNCHANGED <<made, consent>>
      /\ \/ draft' = draft
         \/ Is(d, {"executing"}) /\ draft' = [draft EXCEPT ![d] = r]
  BY DEF FailJob, HoldsDraft
<1>5. status \in {"dead", "confirmed"}
  OBVIOUS
<1>6. IsDraft(r) /\ SameWish(r, draft[d]) /\ r.status = status
  <2> DEFINE q == [draft[d] EXCEPT !.status = status]
             p == [q EXCEPT !.lapsed = FALSE]
  <2> HIDE DEF status, last
  <2>1. IsDraft(q) /\ SameWish(q, draft[d]) /\ q.status = status
    BY <1>2, FieldsSet
  <2> HIDE DEF q
  <2>2. IsDraft(p) /\ SameWish(p, q) /\ p.status = q.status
    BY <2>1, FieldsSet
  <2> HIDE DEF p
  <2>3. LET o == [p EXCEPT !.wait = ~last] IN IsDraft(o) /\ o.status = p.status /\ SameWish(o, p)
    BY <2>2, FieldsSet
  <2> QED BY <2>1, <2>2, <2>3 DEF p, q, SameWish
<1> HIDE DEF r, status, last
<1> QED BY <1>1, <1>4, <1>5, <1>6, EndsInv DEF Past, SameWish

LEMMA CrashJobInv ==
  ASSUME DraftInv, NEW x \in Job, CrashJob(x)
  PROVE  DraftInv'
<1>1. job' = [job EXCEPT ![x] = NoJob] /\ UNCHANGED <<draft, made, consent>>
  BY DEF CrashJob
<1>2. DOMAIN job' = Job /\ job'[x] = NoJob /\ \A y \in Job \ {x} : job'[y] = job[y]
  BY <1>1 DEF DraftInv, Shapes
<1>3. IsJob(NoJob) /\ NoJob.pc = "idle"
  BY DEF IsJob, NoJob
<1>4. Works(x) /\ Executes(x)'
  BY <1>1, <1>2, <1>3, JobMoves DEF MovesJob, Executes, DraftInv, Shapes
<1> QED BY <1>1, <1>4, WorksQuietly DEF Is

-----------------------------------------------------------------------------
(* All steps.                                                               *)

LEMMA CallEdits ==
  ASSUME NEW c, CanDo(c), Do(c)
  PROVE  Edits \/ UNCHANGED pendingVars
<1>1. CASE c.rpc \in OnDraft
  <2>1. DoToDraft(c)
    BY <1>1 DEF Do
  <2>2. CASE c.rpc = "create"
    BY <2>1, <2>2 DEF DoToDraft, Edits
  <2>3. CASE c.rpc = "confirm"
    BY <2>1, <2>3 DEF DoToDraft, Edits
  <2>4. CASE c.rpc = "cancel"
    BY <2>1, <2>4 DEF DoToDraft, Edits
  <2>5. CASE c.rpc = "update"
    BY <2>1, <2>5 DEF DoToDraft, Edits
  <2>6. CASE c.rpc = "undo"
    BY <2>1, <2>6 DEF DoToDraft, Edits
  <2>7. CASE c.rpc = "calendar"
    BY <2>1, <2>7 DEF DoToDraft, Edits
  <2> QED BY <1>1, <2>2, <2>3, <2>4, <2>5, <2>6, <2>7 DEF OnDraft
<1>2. CASE c.rpc \notin OnDraft
  BY <1>2 DEF Do
<1> QED BY <1>1, <1>2

LEMMA NextDrafts ==
  ASSUME Next
  PROVE  UNCHANGED pendingVars \/ Edits \/ PendingStep
<1>1. CASE \E e \in Event : Say(e)
  BY <1>1 DEF Say
<1>2. CASE InboxStep /\ UNCHANGED <<pendingVars, commandVars>>
  BY <1>2
<1>3. ASSUME NEW w \in Run, Read(w) PROVE UNCHANGED pendingVars \/ Edits
  BY <1>3 DEF Read, Edits
<1>4. ASSUME NEW w \in Run, CallServer(w) PROVE UNCHANGED pendingVars \/ Edits
  BY <1>4, CallEdits DEF CallServer
<1>5. ASSUME NEW w \in Run, LoseAnswer(w) PROVE UNCHANGED pendingVars \/ Edits
  BY <1>5, CallEdits DEF LoseAnswer
<1>6. CASE HouseholdStep /\ UNCHANGED pendingVars
  BY <1>6
<1> QED BY <1>1, <1>2, <1>3, <1>4, <1>5, <1>6 DEF Next

LEMMA EditsInv == ASSUME DraftInv, Edits PROVE DraftInv'
<1>1. Shapes /\ \A d \in DraftId : Consents(d)
  BY DEF DraftInv
<1>2. ASSUME NEW d, NEW content, CreatePending(d, content) PROVE DraftInv'
  BY <1>1, <1>2, CreateKeeps, KeepsInv
<1>3. ASSUME NEW d, ConfirmPending(d) PROVE DraftInv'
  BY <1>1, <1>3, ConfirmKeeps, KeepsInv
<1>4. ASSUME NEW d, CancelPending(d) PROVE DraftInv'
  BY <1>1, <1>4, CancelKeeps, KeepsInv
<1>5. ASSUME NEW d, NEW content, NEW editing, UpdatePending(d, content, editing) PROVE DraftInv'
  BY <1>1, <1>5, UpdateKeeps, KeepsInv
<1>6. ASSUME NEW s, ExpireDrafts(s) PROVE DraftInv'
  BY <1>1, <1>6, ExpireKeeps, KeepsInv
<1> QED BY <1>2, <1>3, <1>4, <1>5, <1>6, UndoInv, ChooseInv DEF Edits

LEMMA PendingInv == ASSUME DraftInv, PendingStep PROVE DraftInv'
<1>1. ASSUME NEW d \in DraftId, AppStep(d) PROVE DraftInv'
  <2>1. Edits
    BY <1>1 DEF AppStep, Edits
  <2> QED BY <2>1, EditsInv
<1>2. ASSUME NEW d \in DraftId,
             \/ ClaimDraft(d) \/ PrepareDraft(d) \/ MarkPreviewed(d) \/ LoseDraftRun(d)
             \/ DraftLeaseLapses(d) \/ ExecutionDue(d) \/ TimePasses(d)
      PROVE  DraftInv'
  BY <1>2, PreparationKeeps, KeepsInv
<1>3. ASSUME NEW x \in Job,
             \/ \E d \in DraftId : ClaimConfirmed(x, d)
             \/ StartExecution(x) \/ ExecuteOp(x) \/ FailOp(x) \/ CompleteJob(x) \/ FailJob(x) \/ CrashJob(x)
      PROVE  DraftInv'
  BY <1>3, ClaimConfirmedInv, StartExecutionInv, ExecuteOpInv, FailOpInv, CompleteJobInv, FailJobInv, CrashJobInv
<1>4. SweepOverdue => DraftInv'
  BY SweepKeeps, KeepsInv
<1> QED BY <1>1, <1>2, <1>3, <1>4 DEF PendingStep

LEMMA DraftInvStep == DraftInv /\ [Next]_vars => DraftInv'
<1> SUFFICES ASSUME DraftInv, [Next]_vars PROVE DraftInv'
  OBVIOUS
<1>1. UNCHANGED pendingVars => DraftInv'
  BY DEF pendingVars, DraftInv, Shapes, Consents, Executions, Executes, Settled, InTodo, Is,
         ExecutedAsConfirmed, Consented, ShownAsChosen, SucceededIsComplete
<1>2. UNCHANGED vars => UNCHANGED pendingVars
  BY DEF vars
<1> QED BY <1>1, <1>2, NextDrafts, EditsInv, PendingInv

\* Whatever is made was confirmed by its owner, with the very content that is
\* made, and is in the calendar as was confirmed or chosen since, however runs,
\* retries, edits, choices and executions overlap.
THEOREM ConfirmedIsExecuted == Spec => []ExecutedAsConfirmed
<1>1. DraftInv => ExecutedAsConfirmed
  BY DEF DraftInv
<1> QED BY <1>1, DraftInvInit, DraftInvStep, PTL DEF Spec

\* A row that is called done has each of its parts made or on the list before,
\* whatever failed on the way.
THEOREM DoneIsDone == Spec => []SucceededIsComplete
<1>1. DraftInv => SucceededIsComplete
  BY DEF DraftInv
<1> QED BY <1>1, DraftInvInit, DraftInvStep, PTL DEF Spec

-----------------------------------------------------------------------------
(* Tasks and items: every change raises the revision, so an equal revision  *)
(* means that nothing has happened.                                         *)

IsObject(o) == /\ o = [status |-> o.status, revision |-> o.revision, owner |-> o.owner,
                       claimant |-> o.claimant, waiting |-> o.waiting]
               /\ o.revision \in Nat \ {0} /\ o.status \in ObjectStatus
Objects     == /\ DOMAIN object = Target
               /\ \A t \in Target : IsObject(object[t]) /\ object[t].revision <= MaxRevision

\* The task as it is, or as it was.
Known(o, t) == /\ o.revision \in Nat /\ o.revision <= object[t].revision
               /\ o.revision = object[t].revision => o = object[t]

\* An answer of a session has its tasks as it left them, and its operation for itself.
IsAnswer(r) == r = [op |-> r.op, by |-> r.by, tasks |-> r.tasks, before |-> r.before, after |-> r.after,
                    undone |-> r.undone]
Answers == \A r \in answered :
             /\ IsAnswer(r) /\ r.tasks \subseteq Target
             /\ \A t \in r.tasks : Known(r.after[t], t) /\ r.before[t].status \in ObjectStatus
             /\ \A q \in answered : q.op = r.op => q = r

\* A member has one question open, about a task as it is or was.
IsPreview(p) == p = [status |-> p.status, by |-> p.by, target |-> p.target, to |-> p.to, shown |-> p.shown]
Asked(e)     == preview[e].status = "draft"
Previews == /\ DOMAIN preview = Event
            /\ \A e \in Event : /\ IsPreview(preview[e])
                                /\ Asked(e) => preview[e].target \in Target /\ Known(preview[e].shown, preview[e].target)
            /\ \A e, f \in Event : Asked(e) /\ Asked(f) /\ preview[e].by = preview[f].by => e = f

ObjectInv == Objects /\ Answers /\ Previews

\* A task or item stays, or changes and its revision is raised.
Ages == DOMAIN object' = Target
        /\ \A t \in Target : \/ object'[t] = object[t]
                             \/ /\ IsObject(object'[t]) /\ object'[t].revision = object[t].revision + 1
                                /\ object[t].revision < MaxRevision

\* The same, when the step is taken.
KnownNext(o, t) == /\ o.revision \in Nat /\ o.revision <= object'[t].revision
                   /\ o.revision = object'[t].revision => o = object'[t]

LEMMA KnownStays ==
  ASSUME Objects, Ages, NEW t \in Target, NEW o, Known(o, t)
  PROVE  KnownNext(o, t)
BY DEF Objects, IsObject, Ages, Known, KnownNext

LEMMA ObjectFields ==
  ASSUME NEW o, IsObject(o), NEW v
  PROVE  /\ LET x == [o EXCEPT !.status = v]   IN v \in ObjectStatus => IsObject(x) /\ x.revision = o.revision
         /\ LET x == [o EXCEPT !.owner = v]    IN IsObject(x) /\ x.revision = o.revision
         /\ LET x == [o EXCEPT !.claimant = v] IN IsObject(x) /\ x.revision = o.revision
         /\ LET x == [o EXCEPT !.waiting = v]  IN IsObject(x) /\ x.revision = o.revision
         /\ LET x == [o EXCEPT !.revision = @ + 1] IN IsObject(x) /\ x.revision = o.revision + 1
BY DEF IsObject

\* A task or item as a command, an undo, a decision or a screen may leave it.
Marks(o, x) == IsObject(x) /\ x.revision = o.revision
Marked(x) ==
  /\ Marks(x, Unclaimed(x))
  /\ \A v \in ObjectStatus : Marks(x, [x EXCEPT !.status = v]) /\ Marks(x, [Unclaimed(x) EXCEPT !.status = v])
  /\ \A v : Marks(x, [x EXCEPT !.claimant = v]) /\ Marks(x, [x EXCEPT !.waiting = v])
  /\ \A v : Marks(x, [Unclaimed(x) EXCEPT !.owner = v])
  /\ \A v \in ObjectStatus : \A u : Marks(x, [[Unclaimed(x) EXCEPT !.status = v] EXCEPT !.waiting = u])

LEMMA MarksChain ==
  ASSUME NEW o, IsObject(o)
  PROVE  LET x == [o EXCEPT !.revision = @ + 1]
         IN  IsObject(x) /\ x.revision = o.revision + 1 /\ Marked(x)
<1> DEFINE x == [o EXCEPT !.revision = @ + 1]
<1>1. IsObject(x) /\ x.revision = o.revision + 1
  BY ObjectFields
<1> HIDE DEF x
<1>2. /\ \A v \in ObjectStatus : Marks(x, [x EXCEPT !.status = v])
      /\ \A v : Marks(x, [x EXCEPT !.claimant = v]) /\ Marks(x, [x EXCEPT !.waiting = v])
  BY <1>1, ObjectFields DEF Marks
<1>3. Marks(x, Unclaimed(x))
  BY <1>1, ObjectFields DEF Marks, Unclaimed
<1> DEFINE y == Unclaimed(x)
<1>4. IsObject(y) /\ y.revision = x.revision
  BY <1>3 DEF Marks
<1> HIDE DEF y
<1>5. ASSUME NEW v \in ObjectStatus, NEW u
      PROVE  /\ Marks(x, [y EXCEPT !.status = v])
             /\ Marks(x, [[y EXCEPT !.status = v] EXCEPT !.waiting = u])
  <2>1. Marks(x, [y EXCEPT !.status = v])
    BY <1>4, ObjectFields DEF Marks
  <2> DEFINE z == [y EXCEPT !.status = v]
  <2>2. IsObject(z) /\ z.revision = x.revision
    BY <2>1 DEF Marks
  <2> HIDE DEF z
  <2>3. Marks(x, [z EXCEPT !.waiting = u])
    BY <2>2, ObjectFields DEF Marks
  <2> QED BY <2>1, <2>3 DEF z
<1>6. \A v : Marks(x, [y EXCEPT !.owner = v])
  BY <1>4, ObjectFields DEF Marks
<1> QED BY <1>1, <1>2, <1>3, <1>5, <1>6 DEF x, y, Marked

\* One task or item is left as x.
LEMMA OneAges ==
  ASSUME Objects, NEW t, NEW x, object' = [object EXCEPT ![t] = x],
         t \in Target => IsObject(x) /\ x.revision = object[t].revision + 1 /\ object[t].revision < MaxRevision
  PROVE  Ages
BY DEF Objects, Ages

LEMMA PerformAges ==
  ASSUME Objects, NEW c, Perform(c)
  PROVE  Ages
<1>1. CASE Replayed(c)
  BY <1>1 DEF Perform, Objects, Ages
<1>2. CASE ~Replayed(c)
  <2> DEFINE t == c.target
             o == [object[t] EXCEPT !.revision = @ + 1]
  <2>1. object' = [object EXCEPT ![t] = Leaves(c)] /\ Needs(c) /\ object[t].revision < MaxRevision
    BY <1>2 DEF Perform, Accepted, Fresh
  <2>2. ASSUME t \in Target PROVE IsObject(Leaves(c)) /\ Leaves(c).revision = object[t].revision + 1
    <3>1. IsObject(object[t])
      BY <2>2 DEF Objects
    <3>2. \/ Leaves(c) = [[Unclaimed(o) EXCEPT !.status = "done"] EXCEPT !.waiting = FALSE]
          \/ Leaves(c) = [[Unclaimed(o) EXCEPT !.status = "not_done"] EXCEPT !.waiting = FALSE]
          \/ Leaves(c) = [o EXCEPT !.status = "open"]
          \/ Leaves(c) = [o EXCEPT !.claimant = c.by]
          \/ Leaves(c) = Unclaimed(o)
          \/ \E v : Leaves(c) = [Unclaimed(o) EXCEPT !.owner = v]
      <4>1. c.action \in {"complete", "purchase", "not_done", "reopen", "unbuy", "not_done_undo", "claim", "release",
                          "takeover", "take", "leave_open"}
        BY <2>1 DEF Needs
      <4> QED BY <4>1 DEF Leaves
    <3> DEFINE x == Leaves(c)
    <3>3. o.revision = object[t].revision + 1 /\ Marked(o)
      BY <3>1, MarksChain
    <3> HIDE DEF t, o, x
    <3>4. Marks(o, x)
      <4> HIDE DEF Marks
      <4>0. /\ Marks(o, Unclaimed(o)) /\ Marks(o, [o EXCEPT !.status = "open"])
            /\ Marks(o, [o EXCEPT !.claimant = c.by])
            /\ \A v : Marks(o, [Unclaimed(o) EXCEPT !.owner = v])
            /\ Marks(o, [[Unclaimed(o) EXCEPT !.status = "done"] EXCEPT !.waiting = FALSE])
            /\ Marks(o, [[Unclaimed(o) EXCEPT !.status = "not_done"] EXCEPT !.waiting = FALSE])
        BY <3>3 DEF Marked, ObjectStatus
      <4>1. CASE x = Unclaimed(o)
        BY <4>0, <4>1
      <4>2. CASE x = [o EXCEPT !.status = "open"]
        BY <4>0, <4>2
      <4>3. CASE x = [o EXCEPT !.claimant = c.by]
        BY <4>0, <4>3
      <4>4. CASE \E v : x = [Unclaimed(o) EXCEPT !.owner = v]
        BY <4>0, <4>4
      <4>5. CASE x = [[Unclaimed(o) EXCEPT !.status = "done"] EXCEPT !.waiting = FALSE]
        BY <4>0, <4>5
      <4>6. CASE x = [[Unclaimed(o) EXCEPT !.status = "not_done"] EXCEPT !.waiting = FALSE]
        BY <4>0, <4>6
      <4> QED BY <3>2, <4>1, <4>2, <4>3, <4>4, <4>5, <4>6 DEF x
    <3> QED BY <3>3, <3>4 DEF Marks, x
  <2> QED BY <2>1, <2>2, OneAges
<1> QED BY <1>1, <1>2

LEMMA AllDoneAges ==
  ASSUME Objects, NEW c, AllDone(c)
  PROVE  Ages
<1>1. CASE AnsweredBy(c.op) # {}
  BY <1>1 DEF AllDone, Objects, Ages
<1>2. CASE AnsweredBy(c.op) = {}
  <2>1. object' = [t \in Target |-> IF t \in OwnOf(c.by, InSession)
                                    THEN [object[t] EXCEPT !.status = "done", !.claimant = Nobody, !.revision = @ + 1]
                                    ELSE object[t]]
    BY <1>2 DEF AllDone
  <2>2. ASSUME NEW t \in Target
        PROVE  LET x == [object[t] EXCEPT !.status = "done", !.claimant = Nobody, !.revision = @ + 1]
               IN  IsObject(x) /\ x.revision = object[t].revision + 1
    <3> DEFINE o == object[t]
               y == [o EXCEPT !.status = "done"]
               z == [y EXCEPT !.claimant = Nobody]
    <3>1. IsObject(o)
      BY DEF Objects
    <3> HIDE DEF o
    <3>2. IsObject(y) /\ y.revision = o.revision
      BY <3>1, ObjectFields DEF ObjectStatus
    <3> HIDE DEF y
    <3>3. IsObject(z) /\ z.revision = o.revision
      BY <3>2, ObjectFields
    <3> HIDE DEF z
    <3>4. LET x == [z EXCEPT !.revision = @ + 1] IN IsObject(x) /\ x.revision = o.revision + 1
      BY <3>3, ObjectFields
    <3> QED BY <3>4 DEF z, y, o
  <2>3. \A t \in OwnOf(c.by, InSession) : object[t].revision < MaxRevision
    BY <1>2 DEF AllDone, CanAllDone
  <2> QED BY <2>1, <2>2, <2>3 DEF Ages
<1> QED BY <1>1, <1>2

LEMMA UndoAllAges ==
  ASSUME Objects, Answers, NEW c, UndoAll(c)
  PROVE  Ages
<1> DEFINE r == CHOOSE x \in answered : x.op = c.undoes
<1>1. object' = [t \in Target |-> IF t \in r.tasks
                                  THEN [object[t] EXCEPT !.status = r.before[t].status, !.waiting = r.before[t].waiting,
                                                         !.revision = @ + 1]
                                  ELSE object[t]]
  BY DEF UndoAll
<1>3. PICK q \in answered : q.op = c.undoes /\ \A t \in q.tasks : object[t].revision < MaxRevision
  BY DEF UndoAll, CanUndoAll
<1>4. r \in answered /\ r.op = c.undoes
  BY <1>3
<1> HIDE DEF r
<1>5. q = r
  BY <1>3, <1>4 DEF Answers
<1>2. ASSUME NEW t \in Target, NEW u \in ObjectStatus, NEW v
      PROVE  LET x == [object[t] EXCEPT !.status = u, !.waiting = v, !.revision = @ + 1]
             IN  IsObject(x) /\ x.revision = object[t].revision + 1
  <2> DEFINE o == object[t]
             y == [o EXCEPT !.status = u]
             z == [y EXCEPT !.waiting = v]
  <2>1. IsObject(o)
    BY DEF Objects
  <2> HIDE DEF o
  <2>2. IsObject(y) /\ y.revision = o.revision
    BY <2>1, ObjectFields
  <2> HIDE DEF y
  <2>3. IsObject(z) /\ z.revision = o.revision
    BY <2>2, ObjectFields
  <2> HIDE DEF z
  <2>4. LET x == [z EXCEPT !.revision = @ + 1] IN IsObject(x) /\ x.revision = o.revision + 1
    BY <2>3, ObjectFields
  <2> QED BY <2>4 DEF z, y, o
<1>6. ASSUME NEW t \in r.tasks PROVE r.before[t].status \in ObjectStatus /\ object[t].revision < MaxRevision
  BY <1>3, <1>4, <1>5 DEF Answers
<1> QED BY <1>1, <1>2, <1>6 DEF Ages

LEMMA DecideAges ==
  ASSUME Objects, NEW c, Decide(c)
  PROVE  Ages
<1> DEFINE t == preview[c.event].target
           to == preview[c.event].to
           o == object[t]
           y == Unclaimed(o)
           z == [y EXCEPT !.owner = to]
           x == [Unclaimed(object[t]) EXCEPT !.owner = to, !.revision = @ + 1]
<1>1. \/ object' = object
      \/ object' = [object EXCEPT ![t] = x] /\ object[t].revision < MaxRevision
  BY DEF Decide, CanDecide
<1>2. ASSUME t \in Target PROVE IsObject(x) /\ x.revision = o.revision + 1
  <2>1. IsObject(o)
    BY <1>2 DEF Objects
  <2> HIDE DEF o, to
  <2>2. IsObject(y) /\ y.revision = o.revision
    BY <2>1, ObjectFields DEF Unclaimed
  <2> HIDE DEF y
  <2>3. IsObject(z) /\ z.revision = o.revision
    BY <2>2, ObjectFields
  <2> HIDE DEF z
  <2>4. LET w == [z EXCEPT !.revision = @ + 1] IN IsObject(w) /\ w.revision = o.revision + 1
    BY <2>3, ObjectFields
  <2> QED BY <2>4 DEF z, y, o, to
<1>3. object' = object => Ages
  BY DEF Objects, Ages
<1> QED BY <1>1, <1>2, <1>3, OneAges

LEMMA HouseholdAges ==
  ASSUME Objects, HouseholdStep
  PROVE  Ages
<1>1. PICK t \in Target, s \in Sender :
        LET o == [object[t] EXCEPT !.revision = @ + 1]
        IN  object[t].revision < MaxRevision /\ object' \in {[object EXCEPT ![t] = x] :
                          x \in {[Unclaimed(o) EXCEPT !.status = what] : what \in ObjectStatus \ {object[t].status}}
                                \cup (IF o.status = "open" THEN {[Unclaimed(o) EXCEPT !.owner = s]} ELSE {})
                                \cup (IF o.status = "open" /\ o.owner = "anyone" THEN {[o EXCEPT !.claimant = s]} ELSE {})
                                \cup (IF o.status = "open" /\ t \in Task THEN {[o EXCEPT !.waiting = ~@]} ELSE {})}
  BY DEF HouseholdStep
<1> DEFINE o == [object[t] EXCEPT !.revision = @ + 1]
<1>2. PICK x \in {[Unclaimed(o) EXCEPT !.status = what] : what \in ObjectStatus}
                   \cup {[Unclaimed(o) EXCEPT !.owner = s], [o EXCEPT !.claimant = s], [o EXCEPT !.waiting = ~o.waiting]} :
        object' = [object EXCEPT ![t] = x]
  BY <1>1
<1>3. IsObject(object[t])
  BY DEF Objects
<1>4. o.revision = object[t].revision + 1 /\ Marked(o)
  BY <1>3, MarksChain
<1> HIDE DEF o
<1>5. Marks(o, x)
  BY <1>2, <1>4 DEF Marked
<1> QED BY <1>1, <1>2, <1>4, <1>5, OneAges DEF Marks

-----------------------------------------------------------------------------
(* Answers and questions.                                                   *)

LEMMA AgesObjects == ASSUME Objects, Ages PROVE Objects'
BY TargetAssumption DEF Objects, Ages, IsObject

LEMMA AnswersStay ==
  ASSUME Objects, Answers, Ages, answered' = answered
  PROVE  Answers'
BY KnownStays DEF Answers, Known, KnownNext

LEMMA PreviewsStay ==
  ASSUME Objects, Previews, Ages, preview' = preview
  PROVE  Previews'
<1>1. ASSUME NEW e \in Event, Asked(e)
      PROVE  preview[e].target \in Target /\ KnownNext(preview[e].shown, preview[e].target)
  BY <1>1, KnownStays DEF Previews
<1> QED BY <1>1 DEF Previews, Asked, Known, KnownNext

LEMMA SameObjects == ASSUME Objects, object' = object PROVE Ages
BY DEF Objects, Ages

LEMMA AllDoneAnswers ==
  ASSUME ObjectInv, NEW c, AllDone(c)
  PROVE  Answers'
<1>1. Objects /\ Answers /\ Ages
  BY AllDoneAges DEF ObjectInv
<1>2. CASE AnsweredBy(c.op) # {}
  BY <1>1, <1>2, AnswersStay DEF AllDone
<1>3. CASE AnsweredBy(c.op) = {}
  <2> DEFINE r == [op |-> c.op, by |-> c.by, tasks |-> InSession, before |-> object, after |-> object', undone |-> FALSE]
  <2>1. answered' = answered \cup {r}
    BY <1>3 DEF AllDone
  <2>2. IsAnswer(r) /\ r.op = c.op /\ r.tasks \subseteq Target /\ r.after = object' /\ r.before = object
    BY DEF IsAnswer, InSession, Target
  <2> HIDE DEF r
  <2>3. \A q \in answered : q.op # r.op
    BY <1>3, <2>2 DEF AnsweredBy
  <2>4. \A t \in r.tasks : KnownNext(r.after[t], t)
    <3>1. \A t \in Target : object'[t].revision \in Nat
      BY <1>1, AgesObjects DEF Objects, IsObject
    <3> QED BY <2>2, <3>1 DEF KnownNext
  <2>5. \A q \in answered : \A t \in q.tasks : KnownNext(q.after[t], t)
    BY <1>1, KnownStays DEF Answers
  <2>6. \A q \in answered' : IsAnswer(q) /\ q.tasks \subseteq Target /\ \A t \in q.tasks : KnownNext(q.after[t], t)
    BY <1>1, <2>1, <2>2, <2>4, <2>5 DEF Answers
  <2>8. \A q \in answered' : \A t \in q.tasks : q.before[t].status \in ObjectStatus
    BY <1>1, <2>1, <2>2 DEF Answers, Objects, IsObject
  <2>7. \A p, q \in answered' : q.op = p.op => q = p
    BY <1>1, <2>1, <2>3 DEF Answers
  <2> QED BY <2>6, <2>7, <2>8 DEF Answers, Known, KnownNext
<1> QED BY <1>2, <1>3

\* What is taken back: the one answer of its operation.
LEMMA UndoAllOne ==
  ASSUME ObjectInv, NEW c, UndoAll(c)
  PROVE  \E r \in answered :
           /\ answered' = (answered \ {r}) \cup {[r EXCEPT !.undone = TRUE]}
           /\ \A t \in r.tasks : object[t] = r.after[t]
           /\ \A t \in Target \ r.tasks : object'[t] = object[t]
<1> DEFINE r == CHOOSE x \in answered : x.op = c.undoes
<1>1. PICK q \in answered : /\ q.op = c.undoes
                            /\ \A t \in q.tasks : object[t].revision = q.after[t].revision
  BY DEF UndoAll, CanUndoAll
<1>2. r \in answered /\ r.op = c.undoes
  BY <1>1
<1>3. /\ object' = [t \in Target |-> IF t \in r.tasks
                                     THEN [object[t] EXCEPT !.status = r.before[t].status, !.waiting = r.before[t].waiting,
                                                            !.revision = @ + 1]
                                     ELSE object[t]]
      /\ answered' = (answered \ {r}) \cup {[r EXCEPT !.undone = TRUE]}
  BY DEF UndoAll
<1> HIDE DEF r
<1>4. q = r
  BY <1>1, <1>2 DEF ObjectInv, Answers
<1>5. \A t \in r.tasks : object[t] = r.after[t]
  BY <1>1, <1>2, <1>4 DEF ObjectInv, Answers, Known
<1>6. \A t \in Target \ r.tasks : object'[t] = object[t]
  BY <1>3
<1> QED BY <1>2, <1>3, <1>5, <1>6

LEMMA AnswerFields ==
  ASSUME NEW r, IsAnswer(r), NEW v
  PROVE  LET s == [r EXCEPT !.undone = v]
         IN  IsAnswer(s) /\ s.op = r.op /\ s.tasks = r.tasks /\ s.before = r.before /\ s.after = r.after /\ s.undone = v
BY DEF IsAnswer

LEMMA UndoAllAnswers ==
  ASSUME ObjectInv, NEW c, UndoAll(c)
  PROVE  Answers'
<1>1. Objects /\ Answers /\ Ages
  BY UndoAllAges DEF ObjectInv
<1>2. PICK r \in answered : answered' = (answered \ {r}) \cup {[r EXCEPT !.undone = TRUE]}
  BY UndoAllOne
<1> DEFINE s == [r EXCEPT !.undone = TRUE]
<1>3. IsAnswer(s) /\ s.op = r.op /\ s.tasks = r.tasks /\ s.before = r.before /\ s.after = r.after
  <2>1. IsAnswer(r)
    BY <1>1 DEF Answers
  <2> QED BY <2>1, AnswerFields
<1> HIDE DEF s
<1>4. \A q \in answered : \A t \in q.tasks : KnownNext(q.after[t], t)
  BY <1>1, KnownStays DEF Answers
<1>5. answered' = (answered \ {r}) \cup {s}
  BY <1>2 DEF s
<1>6. \A q \in answered : q.op = r.op => q = r
  BY <1>1 DEF Answers
<1>7. \A q \in answered' : IsAnswer(q) /\ q.tasks \subseteq Target /\ \A t \in q.tasks : KnownNext(q.after[t], t)
  BY <1>1, <1>3, <1>4, <1>5 DEF Answers
<1>8. \A p, q \in answered' : q.op = p.op => q = p
  BY <1>1, <1>3, <1>5, <1>6 DEF Answers
<1>9. \A q \in answered' : \A t \in q.tasks : q.before[t].status \in ObjectStatus
  BY <1>1, <1>3, <1>5 DEF Answers
<1> QED BY <1>7, <1>8, <1>9 DEF Answers, Known, KnownNext

\* A question closes, or a new one supersedes the member's own.
LEMMA PreparePreviews ==
  ASSUME ObjectInv, NEW c, Prepare(c)
  PROVE  Previews'
<1>1. Objects /\ Previews /\ Ages /\ object' = object
  BY SameObjects DEF Prepare, ObjectInv
<1>2. CASE preview[c.event].status # "none"
  BY <1>1, <1>2, PreviewsStay DEF Prepare
<1>3. CASE preview[c.event].status = "none"
  <2> DEFINE p == [status |-> "draft", by |-> c.by, target |-> c.target, to |-> c.to, shown |-> object[c.target]]
             old(e) == [preview[e] EXCEPT !.status = "superseded"]
  <2>1. c.target \in Target
    BY <1>3 DEF Prepare, CanPrepare, Target
  <2>2. preview' = [e \in Event |-> IF e = c.event THEN p
                                    ELSE IF preview[e].by = c.by /\ preview[e].status = "draft" THEN old(e)
                                    ELSE preview[e]]
    BY <1>3 DEF Prepare
  <2>3. /\ IsPreview(p) /\ p.status = "draft" /\ p.by = c.by /\ p.target = c.target
        /\ Known(p.shown, p.target)
    BY <1>1, <2>1 DEF IsPreview, Known, Objects, IsObject
  <2>4. \A e \in Event : IsPreview(old(e)) /\ old(e).status = "superseded"
    BY <1>1 DEF Previews, IsPreview
  <2> HIDE DEF p, old
  <2>5. DOMAIN preview' = Event
    BY <2>2
  <2>6. ASSUME NEW e \in Event
        PROVE  /\ IsPreview(preview'[e])
               /\ preview'[e].status = "draft" =>
                    \/ e = c.event /\ preview'[e] = p
                    \/ e # c.event /\ preview'[e] = preview[e] /\ Asked(e) /\ preview[e].by # c.by
    BY <1>1, <2>2, <2>3, <2>4 DEF Previews, Asked
  <2>7. ASSUME NEW e \in Event, preview'[e].status = "draft"
        PROVE  preview'[e].target \in Target /\ Known(preview'[e].shown, preview'[e].target)
    BY <1>1, <2>1, <2>3, <2>6, <2>7 DEF Previews
  <2>8. ASSUME NEW e \in Event, NEW f \in Event, preview'[e].status = "draft", preview'[f].status = "draft",
               preview'[e].by = preview'[f].by
        PROVE  e = f
    BY <1>1, <2>3, <2>6, <2>8 DEF Previews, Asked
  <2> QED BY <1>1, <2>5, <2>6, <2>7, <2>8 DEF Previews, Asked, Known
<1> QED BY <1>2, <1>3

LEMMA DecidePreviews ==
  ASSUME ObjectInv, NEW c, Decide(c)
  PROVE  Previews'
<1>1. Objects /\ Previews /\ Ages
  BY DecideAges DEF ObjectInv
<1>2. preview' = [preview EXCEPT ![c.event].status = c.decision]
  BY DEF Decide
<1>3. \A e \in Event : /\ IsPreview(preview'[e])
                       /\ preview'[e].by = preview[e].by /\ preview'[e].target = preview[e].target
                       /\ preview'[e].shown = preview[e].shown
                       /\ preview'[e].status = "draft" => Asked(e)
  <2>1. ASSUME NEW e \in Event, NEW v
        PROVE  LET p == [preview[e] EXCEPT !.status = v]
               IN  IsPreview(p) /\ p.by = preview[e].by /\ p.target = preview[e].target
                   /\ p.shown = preview[e].shown /\ p.status = v
    BY <1>1 DEF Previews, IsPreview
  <2>2. c.decision = preview[c.event].status \/ preview[c.event].status = "draft"
    BY DEF Decide, CanDecide
  <2>3. ASSUME NEW e \in Event, e # c.event PROVE preview'[e] = preview[e]
    BY <1>1, <1>2, <2>3 DEF Previews
  <2>4. c.event \in Event => preview'[c.event] = [preview[c.event] EXCEPT !.status = c.decision]
    BY <1>1, <1>2 DEF Previews
  <2> SUFFICES ASSUME NEW e \in Event
               PROVE  /\ IsPreview(preview'[e])
                      /\ preview'[e].by = preview[e].by /\ preview'[e].target = preview[e].target
                      /\ preview'[e].shown = preview[e].shown
                      /\ preview'[e].status = "draft" => Asked(e)
    OBVIOUS
  <2>5. CASE e = c.event
    <3> DEFINE p == [preview[e] EXCEPT !.status = c.decision]
    <3>1. /\ IsPreview(p) /\ p.by = preview[e].by /\ p.target = preview[e].target
          /\ p.shown = preview[e].shown /\ p.status = c.decision
      BY <2>1
    <3>2. preview'[e] = p
      BY <2>4, <2>5
    <3> HIDE DEF p
    <3> QED BY <2>2, <2>5, <3>1, <3>2 DEF Asked
  <2>6. CASE e # c.event
    BY <1>1, <2>3, <2>6 DEF Previews, Asked
  <2> QED BY <2>5, <2>6
<1>4. DOMAIN preview' = Event
  BY <1>1, <1>2 DEF Previews
<1>5. ASSUME NEW e \in Event, preview'[e].status = "draft"
      PROVE  preview'[e].target \in Target /\ Known(preview[e].shown, preview[e].target)
  BY <1>1, <1>3, <1>5 DEF Previews
<1>6. ASSUME NEW e \in Event, preview'[e].status = "draft"
      PROVE  LET o == preview'[e].shown
                 t == preview'[e].target
             IN  /\ o.revision \in Nat /\ o.revision <= object'[t].revision
                 /\ o.revision = object'[t].revision => o = object'[t]
  <2> DEFINE o == preview'[e].shown
             t == preview'[e].target
  <2>1. t \in Target /\ Known(o, t)
    BY <1>3, <1>5, <1>6
  <2> HIDE DEF o, t
  <2>2. /\ o.revision \in Nat /\ o.revision <= object'[t].revision
        /\ o.revision = object'[t].revision => o = object'[t]
    BY <1>1, <2>1 DEF Known, Ages, Objects, IsObject
  <2> QED BY <2>2 DEF o, t
<1> QED BY <1>1, <1>3, <1>4, <1>5, <1>6 DEF Previews, Asked, Known

-----------------------------------------------------------------------------
(* All steps again.                                                         *)

\* What a server call or the household's screens do to tasks and items.
Acts == \/ \E c : Perform(c) \/ AllDone(c) \/ UndoAll(c) \/ Prepare(c) \/ Decide(c)
        \/ HouseholdStep

LEMMA CallActs ==
  ASSUME NEW c, CanDo(c), Do(c)
  PROVE  Acts \/ UNCHANGED <<object, answered, preview>>
<1>1. CASE c.rpc \in OnDraft
  BY <1>1 DEF Do
<1>2. CASE c.rpc \notin OnDraft
  <2>1. DoAtOnce(c)
    BY <1>2 DEF Do
  <2>2. CASE c.rpc = "command"
    BY <2>1, <2>2 DEF DoAtOnce, Acts
  <2>3. CASE c.rpc = "all_done"
    BY <2>1, <2>3 DEF DoAtOnce, Acts
  <2>4. CASE c.rpc = "undo_all"
    BY <2>1, <2>4 DEF DoAtOnce, Acts
  <2>5. CASE c.rpc = "prepare"
    BY <2>1, <2>5 DEF DoAtOnce, Acts
  <2>6. CASE c.rpc = "decide"
    BY <2>1, <2>6 DEF DoAtOnce, Acts
  <2>7. CASE c.rpc = "reply"
    BY <2>1, <2>7 DEF DoAtOnce
  <2> QED BY <1>2, <2>2, <2>3, <2>4, <2>5, <2>6, <2>7 DEF CanDo, OnDraft
<1> QED BY <1>1, <1>2

LEMMA NextActs ==
  ASSUME Next
  PROVE  Acts \/ UNCHANGED <<object, answered, preview>>
<1>1. ASSUME NEW w \in Run, CallServer(w) PROVE Acts \/ UNCHANGED <<object, answered, preview>>
  BY <1>1, CallActs DEF CallServer, commandVars
<1>2. ASSUME NEW w \in Run, LoseAnswer(w) PROVE Acts \/ UNCHANGED <<object, answered, preview>>
  BY <1>2, CallActs DEF LoseAnswer, commandVars
<1>3. UNCHANGED commandVars => UNCHANGED <<object, answered, preview>>
  BY DEF commandVars
<1>4. ASSUME NEW e \in Event, Say(e) PROVE UNCHANGED commandVars
  BY <1>4 DEF Say
<1>5. ASSUME NEW w \in Run, Read(w) PROVE UNCHANGED commandVars
  BY <1>5 DEF Read
<1> QED BY <1>1, <1>2, <1>3, <1>4, <1>5 DEF Next, Acts

LEMMA ObjectInvInit == Init => ObjectInv
<1> SUFFICES ASSUME Init PROVE ObjectInv
  OBVIOUS
<1> USE DEF Init, CommandInit
<1>1. Objects
  <2>1. 1 <= MaxRevision
    BY TargetAssumption
  <2>2. ASSUME NEW t \in Target PROVE IsObject(object[t]) /\ object[t].revision = 1
    BY DEF IsObject, ObjectStatus
  <2> QED BY <2>1, <2>2 DEF Objects
<1>2. Answers
  BY DEF Answers
<1>3. Previews
  BY DEF Previews, IsPreview, Asked, NoPreview
<1> QED BY <1>1, <1>2, <1>3 DEF ObjectInv

LEMMA ObjectInvStep == ObjectInv /\ [Next]_vars => ObjectInv'
<1> SUFFICES ASSUME ObjectInv, [Next]_vars PROVE ObjectInv'
  OBVIOUS
<1>0. Objects /\ Answers /\ Previews
  BY DEF ObjectInv
<1>1. CASE UNCHANGED <<object, answered, preview>>
  BY <1>0, <1>1, SameObjects, AgesObjects, AnswersStay, PreviewsStay DEF ObjectInv
<1>2. ASSUME NEW c, Perform(c) PROVE ObjectInv'
  BY <1>0, <1>2, PerformAges, AgesObjects, AnswersStay, PreviewsStay DEF ObjectInv, Perform
<1>3. ASSUME NEW c, AllDone(c) PROVE ObjectInv'
  BY <1>0, <1>3, AllDoneAges, AgesObjects, AllDoneAnswers, PreviewsStay DEF ObjectInv, AllDone
<1>4. ASSUME NEW c, UndoAll(c) PROVE ObjectInv'
  BY <1>0, <1>4, UndoAllAges, AgesObjects, UndoAllAnswers, PreviewsStay DEF ObjectInv, UndoAll
<1>5. ASSUME NEW c, Prepare(c) PROVE ObjectInv'
  BY <1>0, <1>5, SameObjects, AgesObjects, AnswersStay, PreparePreviews DEF ObjectInv, Prepare
<1>6. ASSUME NEW c, Decide(c) PROVE ObjectInv'
  BY <1>0, <1>6, DecideAges, AgesObjects, AnswersStay, DecidePreviews DEF ObjectInv, Decide
<1>7. CASE HouseholdStep
  BY <1>0, <1>7, HouseholdAges, AgesObjects, AnswersStay, PreviewsStay DEF ObjectInv, HouseholdStep
<1>8. UNCHANGED vars => UNCHANGED <<object, answered, preview>>
  BY DEF vars, commandVars
<1> QED BY <1>1, <1>2, <1>3, <1>4, <1>5, <1>6, <1>7, <1>8, NextActs DEF Acts

-----------------------------------------------------------------------------
\* Taking back "all done" finds each task of the answer as the answer left it,
\* and touches no other: an equal revision means that nothing has happened to it.
THEOREM UndoSpares == Spec => UndoErasesNothing
<1>1. ASSUME ObjectInv, [Next]_vars, NEW q \in answered, ~q.undone, [q EXCEPT !.undone = TRUE] \in answered'
      PROVE  \A t \in Target : IF t \in q.tasks THEN object[t] = q.after[t] ELSE object'[t] = object[t]
  <2> DEFINE s == [q EXCEPT !.undone = TRUE]
  <2>1. IsAnswer(q)
    BY <1>1 DEF ObjectInv, Answers
  <2>2. s.op = q.op /\ s.undone = TRUE
    BY <2>1, AnswerFields
  <2> HIDE DEF s
  <2>3. s \in answered'
    BY <1>1 DEF s
  <2>4. s \notin answered
    BY <1>1, <2>2 DEF ObjectInv, Answers
  <2>5. ASSUME NEW c, AllDone(c) PROVE FALSE
    <3> DEFINE r == [op |-> c.op, by |-> c.by, tasks |-> InSession,
                     before |-> object, after |-> object', undone |-> FALSE]
    <3>1. r.undone = FALSE
      OBVIOUS
    <3>2. answered' = answered \/ answered' = answered \cup {r}
      BY <2>5 DEF AllDone
    <3> HIDE DEF r
    <3> QED BY <2>2, <2>3, <2>4, <3>1, <3>2
  <2>6. PICK c : UndoAll(c)
    BY <1>1, <2>3, <2>4, <2>5, NextActs DEF Acts, Perform, Prepare, Decide, HouseholdStep, vars, commandVars
  <2>7. PICK r \in answered :
          /\ answered' = (answered \ {r}) \cup {[r EXCEPT !.undone = TRUE]}
          /\ \A t \in r.tasks : object[t] = r.after[t]
          /\ \A t \in Target \ r.tasks : object'[t] = object[t]
    BY <1>1, <2>6, UndoAllOne
  <2>8. s = [r EXCEPT !.undone = TRUE] /\ IsAnswer(r)
    BY <1>1, <2>3, <2>4, <2>7 DEF ObjectInv, Answers
  <2>9. s.op = r.op
    BY <2>8, AnswerFields
  <2>10. q = r
    BY <1>1, <2>2, <2>9 DEF ObjectInv, Answers
  <2> QED BY <2>7, <2>10
<1>2. ObjectInv /\ [Next]_vars =>
        [\A r \in answered : ~r.undone /\ [r EXCEPT !.undone = TRUE] \in answered' =>
           \A t \in Target : IF t \in r.tasks THEN object[t] = r.after[t] ELSE object'[t] = object[t]]_vars
  BY <1>1
<1> QED BY <1>2, ObjectInvInit, ObjectInvStep, PTL DEF Spec, UndoErasesNothing

\* The driver of a day changes by the agreement to the one open question of the
\* member, and the task is then as it was described in it.
THEOREM AgreesToWhatWasShown == Spec => AgreedAsShown
<1>1. ASSUME ObjectInv, [Next]_vars, NEW e \in Event, preview[e].status = "draft", preview'[e].status = "succeeded"
      PROVE  /\ object[preview[e].target] = preview[e].shown
             /\ \A f \in Event : preview[f].by = preview[e].by /\ preview[f].status = "draft" => f = e
  <2>1. DOMAIN preview = Event /\ \A f \in Event : IsPreview(preview[f])
    BY <1>1 DEF ObjectInv, Previews
  <2>2. ASSUME NEW c, Prepare(c) PROVE FALSE
    <3>1. preview'[e] \in {preview[e], [preview[e] EXCEPT !.status = "superseded"],
                           [status |-> "draft", by |-> c.by, target |-> c.target, to |-> c.to, shown |-> object[c.target]]}
      BY <2>2 DEF Prepare
    <3> QED BY <1>1, <2>1, <3>1 DEF IsPreview
  <2>3. PICK c : Decide(c)
    BY <1>1, <2>2, NextActs DEF Acts, Perform, AllDone, UndoAll, HouseholdStep, vars, commandVars
  <2>4. preview' = [preview EXCEPT ![c.event].status = c.decision]
    BY <2>3 DEF Decide
  <2>5. c.event = e /\ c.decision = "succeeded"
    BY <1>1, <2>1, <2>4 DEF IsPreview
  <2>6. object[preview[e].target].revision = preview[e].shown.revision
    BY <1>1, <2>3, <2>5 DEF Decide, CanDecide
  <2> QED BY <1>1, <2>6 DEF ObjectInv, Previews, Asked, Known
<1>2. ObjectInv /\ [Next]_vars =>
        [\A e \in Event : preview[e].status = "draft" /\ preview'[e].status = "succeeded" =>
           /\ object[preview[e].target] = preview[e].shown
           /\ \A f \in Event : preview[f].by = preview[e].by /\ preview[f].status = "draft" => f = e]_vars
  BY <1>1
<1> QED BY <1>2, ObjectInvInit, ObjectInvStep, PTL DEF Spec, AgreedAsShown

-----------------------------------------------------------------------------
(* The runs and the events they hold.                                       *)

Queued == [event : Event, token : Nat]
RunPc  == {"idle", "read", "fallback", "calls", "failing"}
IsRun(r) == /\ r = [queue |-> r.queue, pc |-> r.pc, plan |-> r.plan]
            /\ r.pc \in RunPc /\ r.queue \in Seq(Queued) /\ (r.pc = "idle") = (r.queue = <<>>)

\* An event in a batch was delivered, and its token is no newer than the event's own.
Stamped(r) == \A i \in 1 .. Len(r.queue) :
                /\ inbox[r.queue[i].event].status # "absent"
                /\ r.queue[i].token <= inbox[r.queue[i].event].attempts
Runs    == DOMAIN run = Run /\ \A w \in Run : IsRun(run[w]) /\ Stamped(run[w])
Budgets == \A k \in DOMAIN left : left[k] \in Nat /\ story[k] \in Nat /\ left[k] <= story[k]
InboxInv == inbox \in [Event -> Row] /\ Runs /\ Budgets

\* An event is given to a run under a new token, or keeps what it had or less.
InboxAges == /\ inbox' \in [Event -> Row]
             /\ \A e \in Event :
                  /\ inbox[e].status # "absent" => inbox'[e].status # "absent"
                  /\ inbox[e].attempts <= inbox'[e].attempts
                  /\ inbox'[e].attempts = inbox[e].attempts
                       => (inbox'[e].status = "processing" /\ ~inbox'[e].lapsed => Live(e))

\* What a run becomes: of its batch, or of a new one.
Turns(w, r) == /\ run' = [run EXCEPT ![w] = r] /\ IsRun(r)
               /\ \A i \in 1 .. Len(r.queue) :
                    /\ inbox'[r.queue[i].event].status # "absent"
                    /\ r.queue[i].token <= inbox'[r.queue[i].event].attempts

LEMMA InboxSame == ASSUME InboxInv, UNCHANGED inbox PROVE InboxAges
BY DEF InboxInv, InboxAges, Live, Row

LEMMA ItemQueued ==
  ASSUME InboxInv, NEW w \in Run, run[w].pc # "idle"
  PROVE  /\ Item(w) \in Queued /\ Item(w).event \in Event
         /\ inbox[Item(w).event].status # "absent" /\ Item(w).token <= inbox[Item(w).event].attempts
<1>1. IsRun(run[w]) /\ Stamped(run[w])
  BY DEF InboxInv, Runs
<1>2. run[w].queue \in Seq(Queued) /\ run[w].queue # <<>>
  BY <1>1 DEF IsRun
<1> DEFINE q == run[w].queue
<1>3. Len(q) \in Nat \ {0} /\ Head(q) = q[1] /\ q[1] \in Queued
  BY <1>2, EmptySeq, ElementOfSeq
<1> QED BY <1>1, <1>3 DEF Item, Stamped, Queued

LEMMA RowFields ==
  ASSUME NEW r \in Row
  PROVE  /\ r.status \in InboxStatus /\ r.attempts \in Nat /\ r.lapsed \in BOOLEAN /\ r.wait \in BOOLEAN
         /\ r = [status |-> r.status, attempts |-> r.attempts, lapsed |-> r.lapsed, wait |-> r.wait]
BY DEF Row

\* One event: its row changes, under the attempt it is at.
LEMMA OneEventAges ==
  ASSUME InboxInv, NEW e, NEW r, e \in Event => r \in Row /\ r.attempts = inbox[e].attempts /\ r.status # "absent"
                              /\ (r.status = "processing" /\ ~r.lapsed => Live(e)),
         inbox' = [inbox EXCEPT ![e] = r]
  PROVE  InboxAges
<1>1. inbox \in [Event -> Row]
  BY DEF InboxInv
<1>2. inbox' \in [Event -> Row] /\ \A f \in Event : inbox'[f] = IF f = e THEN r ELSE inbox[f]
  BY <1>1
<1>3. \A f \in Event : inbox[f] \in Row /\ inbox[f].attempts \in Nat
  BY <1>1 DEF Row
<1> QED BY <1>2, <1>3 DEF InboxAges, Live

\* The steps of the inbox.
LEMMA ReceiveAges == ASSUME InboxInv, NEW e \in Event, Receive(e) PROVE InboxAges
<1>1. [inbox[e] EXCEPT !.status = "received"] \in Row
  BY DEF InboxInv, Row, InboxStatus
<1> QED BY <1>1, OneEventAges DEF Receive, InboxInv, Row

LEMMA LapseAges == ASSUME InboxInv, NEW e \in Event, LeaseLapses(e) PROVE InboxAges
<1>1. inbox[e] \in Row
  BY DEF InboxInv
<1>2. [inbox[e] EXCEPT !.lapsed = TRUE] \in Row
  BY <1>1 DEF Row, InboxStatus
<1> QED BY <1>1, <1>2, OneEventAges DEF LeaseLapses, Row, Live

LEMMA DueAges == ASSUME InboxInv, NEW e \in Event, RetryDue(e) PROVE InboxAges
<1>1. inbox[e] \in Row
  BY DEF InboxInv
<1>2. [inbox[e] EXCEPT !.wait = FALSE] \in Row
  BY <1>1 DEF Row, InboxStatus
<1> QED BY <1>1, <1>2, OneEventAges DEF RetryDue, Row

LEMMA CompleteAges == ASSUME InboxInv, NEW w \in Run, Complete(w) PROVE InboxAges
<1> DEFINE e == Item(w).event
           r == [[inbox[e] EXCEPT !.status = "done"] EXCEPT !.lapsed = FALSE]
<1>1. e \in Event /\ inbox[e] \in Row
  BY ItemQueued DEF Complete, InboxInv
<1>2. r \in Row /\ r.status = "done" /\ r.attempts = inbox[e].attempts
  BY <1>1 DEF Row, InboxStatus
<1>3. inbox' = inbox \/ inbox' = [inbox EXCEPT ![e] = r]
  BY <1>1 DEF Complete, InboxInv
<1> HIDE DEF e, r
<1>4. CASE inbox' = [inbox EXCEPT ![e] = r]
  BY <1>1, <1>2, <1>4, OneEventAges
<1> QED BY <1>3, <1>4, InboxSame

LEMMA FailAges == ASSUME InboxInv, NEW w \in Run, Fail(w) PROVE InboxAges
<1> DEFINE e == Item(w).event
           last == inbox[e].attempts >= MaxAttempts
           r == [[[inbox[e] EXCEPT !.status = IF last THEN "dead" ELSE "received"] EXCEPT !.lapsed = FALSE]
                    EXCEPT !.wait = ~last]
<1>1. e \in Event /\ inbox[e] \in Row
  BY ItemQueued DEF Fail, InboxInv
<1>2. last \in BOOLEAN
  OBVIOUS
<1>3. inbox' = inbox \/ inbox' = [inbox EXCEPT ![e] = r]
  BY <1>1 DEF Fail, InboxInv
<1> HIDE DEF last
<1>4. r \in Row /\ r.status \in {"dead", "received"} /\ r.attempts = inbox[e].attempts
  BY <1>1, <1>2 DEF Row, InboxStatus
<1> HIDE DEF e, r
<1>5. CASE inbox' = [inbox EXCEPT ![e] = r]
  BY <1>1, <1>4, <1>5, OneEventAges
<1> QED BY <1>3, <1>5, InboxSame

LEMMA RowClaimed ==
  ASSUME NEW x \in Row
  PROVE  LET y == [x EXCEPT !.status = "processing", !.lapsed = FALSE, !.wait = FALSE, !.attempts = @ + 1]
         IN  y \in Row /\ y.status = "processing" /\ y.attempts = x.attempts + 1
<1> DEFINE z == [[[x EXCEPT !.status = "processing"] EXCEPT !.lapsed = FALSE] EXCEPT !.wait = FALSE]
           y == [z EXCEPT !.attempts = @ + 1]
<1>1. z \in Row /\ z.status = "processing" /\ z.attempts = x.attempts /\ x.attempts \in Nat
  BY DEF Row, InboxStatus
<1> HIDE DEF z
<1>2. y \in Row /\ y.status = "processing" /\ y.attempts = x.attempts + 1
  BY <1>1 DEF Row
<1> QED BY <1>2 DEF z

LEMMA ClaimAges ==
  ASSUME InboxInv, NEW w \in Run, ClaimBatch(w)
  PROVE  InboxAges /\ \A e \in Batch : inbox'[e].status = "processing" /\ inbox'[e].attempts = inbox[e].attempts + 1
<1> DEFINE r(e) == [inbox[e] EXCEPT !.status = "processing", !.lapsed = FALSE, !.wait = FALSE, !.attempts = @ + 1]
<1>1. \A e \in Event : inbox[e] \in Row /\ inbox[e].attempts \in Nat
  BY DEF InboxInv, Row
<1>2. \A e \in Event : r(e) \in Row /\ r(e).status = "processing" /\ r(e).attempts = inbox[e].attempts + 1
  BY <1>1, RowClaimed
<1>3. inbox' = [e \in Event |-> IF e \in Batch THEN r(e) ELSE inbox[e]] /\ Batch \subseteq Event
  BY DEF ClaimBatch, Batch
<1> HIDE DEF r
<1>4. inbox' \in [Event -> Row]
  BY <1>1, <1>2, <1>3
<1> QED BY <1>1, <1>2, <1>3, <1>4 DEF InboxAges, Live

-----------------------------------------------------------------------------
LEMMA StampsStay ==
  ASSUME InboxInv, InboxAges, NEW w \in Run, NEW i \in 1 .. Len(run[w].queue)
  PROVE  LET x == run[w].queue[i]
         IN  inbox'[x.event].status # "absent" /\ x.token <= inbox'[x.event].attempts
<1> DEFINE x == run[w].queue[i]
<1>1. IsRun(run[w]) /\ Stamped(run[w]) /\ inbox \in [Event -> Row] /\ inbox' \in [Event -> Row]
  BY DEF InboxInv, Runs, InboxAges
<1>2. x \in Queued
  BY <1>1, ElementOfSeq DEF IsRun
<1>3. x.event \in Event /\ x.token \in Nat /\ inbox[x.event].status # "absent" /\ x.token <= inbox[x.event].attempts
  BY <1>1, <1>2 DEF Stamped, Queued
<1> HIDE DEF x
<1>4. inbox[x.event].attempts \in Nat /\ inbox'[x.event].attempts \in Nat
  BY <1>1, <1>3 DEF Row
<1> QED BY <1>3, <1>4 DEF InboxAges, x

\* What is left of a batch.
LEMMA NextItemTurns ==
  ASSUME InboxInv, InboxAges, NEW w \in Run, run[w].pc # "idle", run' = [run EXCEPT ![w] = NextItem(w)]
  PROVE  Turns(w, NextItem(w))
<1> DEFINE q == run[w].queue
<1>1. IsRun(run[w]) /\ Stamped(run[w]) /\ inbox \in [Event -> Row] /\ inbox' \in [Event -> Row]
  BY DEF InboxInv, Runs, InboxAges
<1>2. q \in Seq(Queued) /\ q # <<>>
  BY <1>1 DEF IsRun
<1>3. CASE Len(q) = 1
  BY <1>3, EmptySeq DEF NextItem, Idle, Turns, IsRun, RunPc
<1>4. CASE Len(q) # 1
  <2> DEFINE t == Tail(q)
  <2>1. t \in Seq(Queued) /\ Len(t) = Len(q) - 1 /\ \A i \in 1 .. Len(t) : t[i] = q[i + 1]
    BY <1>2, HeadTailProperties
  <2>2. Len(q) \in Nat \ {0, 1}
    BY <1>2, <1>4, EmptySeq
  <2>3. NextItem(w) = [queue |-> t, pc |-> "read", plan |-> <<>>]
    BY <1>4 DEF NextItem
  <2>4. \A i \in 1 .. Len(t) : i + 1 \in 1 .. Len(q)
    BY <2>1, <2>2
  <2>5. \A i \in 1 .. Len(t) : /\ inbox'[t[i].event].status # "absent"
                              /\ t[i].token <= inbox'[t[i].event].attempts
    BY <2>1, <2>4, StampsStay
  <2> HIDE DEF t
  <2>6. IsRun([queue |-> t, pc |-> "read", plan |-> <<>>])
    <3>1. t \in Seq(Queued) /\ Len(t) \in Nat \ {0}
      BY <2>1, <2>2 DEF t
    <3>2. t # <<>>
      BY <3>1, EmptySeq
    <3> QED BY <3>1, <3>2 DEF IsRun, RunPc
  <2> QED BY <2>3, <2>5, <2>6 DEF Turns
<1> QED BY <1>3, <1>4

\* A run keeps its batch.
LEMMA SameBatchTurns ==
  ASSUME InboxInv, InboxAges, NEW w \in Run, run[w].pc # "idle", NEW pc \in RunPc \ {"idle"}, NEW plan,
         run' = [run EXCEPT ![w] = [queue |-> run[w].queue, pc |-> pc, plan |-> plan]]
  PROVE  Turns(w, [queue |-> run[w].queue, pc |-> pc, plan |-> plan])
<1> DEFINE q == run[w].queue
           r == [queue |-> q, pc |-> pc, plan |-> plan]
<1>1. IsRun(run[w]) /\ Stamped(run[w]) /\ inbox \in [Event -> Row] /\ inbox' \in [Event -> Row]
  BY DEF InboxInv, Runs, InboxAges
<1>2. q \in Seq(Queued) /\ q # <<>>
  BY <1>1 DEF IsRun
<1>3. IsRun(r)
  BY <1>2 DEF IsRun
<1> QED BY <1>3, StampsStay DEF Turns

\* A new batch.
LEMMA BatchTurns ==
  ASSUME InboxInv, NEW w \in Run, ClaimBatch(w)
  PROVE  \E r : Turns(w, r) /\ r.plan = <<>> /\ r.pc = "read"
<1>1. InboxAges /\ \A e \in Batch : inbox'[e].status = "processing" /\ inbox'[e].attempts = inbox[e].attempts + 1
  BY ClaimAges
<1>2. PICK order \in Orders(Batch) :
        run' = [run EXCEPT ![w] = [queue |-> [i \in DOMAIN order |-> [event |-> order[i],
                                                                     token |-> inbox[order[i]].attempts + 1]],
                                  pc |-> "read", plan |-> <<>>]]
  BY DEF ClaimBatch
<1> DEFINE n == Cardinality(Batch)
           q == [i \in 1 .. n |-> [event |-> order[i], token |-> inbox[order[i]].attempts + 1]]
           r == [queue |-> q, pc |-> "read", plan |-> <<>>]
<1>3. Batch \subseteq Event /\ IsFiniteSet(Batch) /\ Batch # {}
  BY FS_Subset, EventAssumption DEF ClaimBatch, Batch
<1>4. n \in Nat \ {0}
  BY <1>3, FS_CardinalityType, FS_EmptySet
<1>5. order \in [1 .. n -> Batch] /\ DOMAIN order = 1 .. n
  BY DEF Orders
<1> HIDE DEF n
<1>6. ASSUME NEW i \in 1 .. n
      PROVE  order[i] \in Event /\ inbox[order[i]].attempts \in Nat
  BY <1>3, <1>5 DEF InboxInv, Row
<1>7. q \in [1 .. n -> Queued] /\ Len(q) = n
  BY <1>4, <1>6 DEF Queued
<1>8. q \in Seq(Queued) /\ q # <<>>
  BY <1>4, <1>7, EmptySeq
<1>9. ASSUME NEW i \in 1 .. Len(q)
      PROVE  /\ inbox'[q[i].event].status # "absent"
             /\ q[i].token <= inbox'[q[i].event].attempts
  <2>1. q[i].event = order[i] /\ q[i].token = inbox[order[i]].attempts + 1 /\ order[i] \in Batch /\ i \in 1 .. n
    BY <1>5, <1>7
  <2> QED BY <1>1, <1>6, <2>1
<1>10. IsRun(r)
  BY <1>8 DEF IsRun, RunPc
<1> HIDE DEF q
<1>11. run' = [run EXCEPT ![w] = r]
  BY <1>2, <1>5 DEF q
<1>12. Turns(w, r)
  BY <1>9, <1>10, <1>11 DEF Turns
<1> QED BY <1>12

LEMMA TurnsRuns ==
  ASSUME InboxInv, InboxAges, NEW w \in Run, NEW r, Turns(w, r)
  PROVE  Runs'
BY StampsStay DEF InboxInv, Runs, Stamped, Turns

LEMMA SameRuns == ASSUME InboxInv, InboxAges, run' = run PROVE Runs'
BY StampsStay DEF InboxInv, Runs, Stamped

LEMMA SpendBudgets == ASSUME Budgets, UNCHANGED story, UNCHANGED left \/ \E k : Spend(k) PROVE Budgets'
BY DEF Budgets, Spend

\* A run with another plan for the event it is at.
Replanned(w, pc, plan) == [run EXCEPT ![w] = [queue |-> run[w].queue, pc |-> pc, plan |-> plan]]
Rewritten(w, pc, plan) == [run EXCEPT ![w] = [@ EXCEPT !.pc = pc, !.plan = plan]]
WithPlan(w, plan)      == [run EXCEPT ![w].plan = plan]
At(w, pc)              == [run EXCEPT ![w].pc = pc]

LEMMA RunFields ==
  ASSUME InboxInv, NEW w \in Run, NEW pc, NEW plan
  PROVE  /\ Rewritten(w, pc, plan) = Replanned(w, pc, plan)
         /\ WithPlan(w, plan) = Replanned(w, run[w].pc, plan)
         /\ At(w, pc) = Replanned(w, pc, run[w].plan)
<1> DEFINE q == run[w].queue
           p == run[w].pc
           l == run[w].plan
           x == [queue |-> q, pc |-> p, plan |-> l]
<1>1. DOMAIN run = Run /\ run[w] = x
  BY DEF InboxInv, Runs, IsRun
<1> HIDE DEF q, p, l
<1>2. [x EXCEPT !.pc = pc] = [queue |-> q, pc |-> pc, plan |-> l]
  OBVIOUS
<1>3. [x EXCEPT !.plan = plan] = [queue |-> q, pc |-> p, plan |-> plan]
  OBVIOUS
<1>4. [[queue |-> q, pc |-> pc, plan |-> l] EXCEPT !.plan = plan] = [queue |-> q, pc |-> pc, plan |-> plan]
  OBVIOUS
<1> HIDE DEF x
<1> DEFINE s(a) == [run EXCEPT ![w] = a]
<1>6. [run EXCEPT ![w].pc = pc] = s([queue |-> q, pc |-> pc, plan |-> l])
  BY <1>1, <1>2
<1>7. [run EXCEPT ![w].plan = plan] = s([queue |-> q, pc |-> p, plan |-> plan])
  BY <1>1, <1>3
<1>8. [run EXCEPT ![w] = [@ EXCEPT !.pc = pc, !.plan = plan]] = s([queue |-> q, pc |-> pc, plan |-> plan])
  <2>1. [run EXCEPT ![w] = [@ EXCEPT !.pc = pc, !.plan = plan]] = s([[x EXCEPT !.pc = pc] EXCEPT !.plan = plan])
    BY <1>1
  <2> QED BY <1>2, <1>4, <2>1
<1> QED BY <1>6, <1>7, <1>8 DEF q, p, l, Replanned, Rewritten, WithPlan, At

\* A handler's step: its run keeps the batch.
Handles(w, pc, plan) == /\ run[w].pc # "idle" /\ inbox' = inbox /\ pc \in RunPc \ {"idle"}
                        /\ run' = Replanned(w, pc, plan)

LEMMA RefusedHandles ==
  ASSUME InboxInv, NEW w \in Run, run[w].pc = "calls", Refused(w)
  PROVE  \E pc \in {"calls", "fallback"}, plan \in {<<>>, Tail(run[w].plan)} :
           run' = Replanned(w, pc, plan)
<1>1. \/ run' = WithPlan(w, <<>>)
      \/ run' = WithPlan(w, Tail(run[w].plan))
      \/ run' = Rewritten(w, "fallback", <<>>)
  BY DEF Refused, WithPlan, Rewritten
<1> QED BY <1>1, RunFields

LEMMA HandlerHandles ==
  ASSUME InboxInv, NEW w \in Run, Read(w) \/ CallServer(w) \/ LoseAnswer(w)
  PROVE  \E pc, plan : Handles(w, pc, plan)
<1>1. CASE Read(w)
  <2>1. PICK plan : run' = Rewritten(w, "calls", plan)
    BY <1>1 DEF Read, Rewritten
  <2>2. run' = Replanned(w, "calls", plan)
    BY <2>1, RunFields
  <2>3. Handles(w, "calls", plan)
    BY <1>1, <2>2 DEF Read, Handles, RunPc
  <2> QED BY <2>3
<1>2. ASSUME Refused(w), run[w].pc = "calls", inbox' = inbox PROVE \E pc, plan : Handles(w, pc, plan)
  BY <1>2, RefusedHandles DEF Handles, RunPc
<1>3. CASE CallServer(w)
  <2>1. run[w].pc = "calls" /\ inbox' = inbox
    BY <1>3 DEF CallServer
  <2>2. CASE run' = [run EXCEPT ![w].plan = Tail(@)]
    <3>1. run' = Replanned(w, run[w].pc, Tail(run[w].plan))
      BY <2>2, RunFields DEF WithPlan
    <3>2. Handles(w, "calls", Tail(run[w].plan))
      BY <2>1, <3>1 DEF Handles, RunPc
    <3> QED BY <3>2
  <2> QED BY <1>2, <1>3, <2>1, <2>2 DEF CallServer
<1>4. CASE LoseAnswer(w)
  BY <1>2, <1>4 DEF LoseAnswer
<1> QED BY <1>1, <1>3, <1>4

LEMMA HandlesTurns ==
  ASSUME InboxInv, NEW w \in Run, NEW pc, NEW plan, Handles(w, pc, plan)
  PROVE  InboxAges /\ Runs'
BY InboxSame, SameBatchTurns, TurnsRuns DEF Handles, Replanned

LEMMA InboxStepInv == ASSUME InboxInv, InboxStep PROVE InboxInv' /\ InboxAges
<1>1. ASSUME InboxAges, Runs', UNCHANGED story, UNCHANGED left \/ \E k : Spend(k) PROVE InboxInv' /\ InboxAges
  BY <1>1, SpendBudgets DEF InboxInv, InboxAges
<1>2. ASSUME NEW e \in Event, Receive(e) \/ LeaseLapses(e) \/ RetryDue(e) PROVE InboxInv' /\ InboxAges
  BY <1>1, <1>2, ReceiveAges, LapseAges, DueAges, SameRuns DEF Receive, LeaseLapses, RetryDue
<1>3. ASSUME NEW w \in Run, ClaimBatch(w) PROVE InboxInv' /\ InboxAges
  BY <1>1, <1>3, ClaimAges, BatchTurns, TurnsRuns DEF ClaimBatch
<1>4. ASSUME NEW w \in Run, Complete(w) PROVE InboxInv' /\ InboxAges
  BY <1>1, <1>4, CompleteAges, NextItemTurns, TurnsRuns DEF Complete
<1>5. ASSUME NEW w \in Run, Fail(w) PROVE InboxInv' /\ InboxAges
  BY <1>1, <1>5, FailAges, NextItemTurns, TurnsRuns DEF Fail
<1>6. ASSUME NEW w \in Run, Throw(w) PROVE InboxInv' /\ InboxAges
  <2>1. Handles(w, "failing", run[w].plan)
    <3>1. run' = At(w, "failing")
      BY <1>6 DEF Throw, At
    <3> QED BY <1>6, <3>1, RunFields DEF Throw, Handles, RunPc
  <2> QED BY <1>1, <1>6, <2>1, HandlesTurns DEF Throw
<1>7. ASSUME NEW w \in Run, Crash(w) PROVE InboxInv' /\ InboxAges
  <2>1. IsRun(Idle) /\ Len(Idle.queue) = 0
    BY EmptySeq DEF IsRun, Idle, RunPc
  <2>2. Turns(w, Idle)
    BY <1>7, <2>1 DEF Crash, Turns
  <2> QED BY <1>1, <1>7, <2>2, InboxSame, TurnsRuns DEF Crash
<1> QED BY <1>2, <1>3, <1>4, <1>5, <1>6, <1>7 DEF InboxStep

\* The other steps leave the inbox and the runs alone.
Aside == UNCHANGED <<inbox, run, story>> /\ (UNCHANGED left \/ \E k : Spend(k))

LEMMA PendingAside == ASSUME PendingStep PROVE Aside /\ message' = message
BY DEF PendingStep, Aside, inboxVars, AppStep, ClaimDraft, PrepareDraft, MarkPreviewed, LoseDraftRun, DraftLeaseLapses,
       ExecutionDue, TimePasses, ClaimConfirmed, StartExecution, ExecuteOp, FailOp, CompleteJob, FailJob, CrashJob,
       SweepOverdue

LEMMA InboxInvStep == InboxInv /\ [Next]_vars => InboxInv' /\ InboxAges
<1> SUFFICES ASSUME InboxInv, [Next]_vars PROVE InboxInv' /\ InboxAges
  OBVIOUS
<1>1. ASSUME Aside PROVE InboxInv' /\ InboxAges
  BY <1>1, InboxSame, SameRuns, SpendBudgets DEF Aside, InboxInv
<1>2. ASSUME NEW e \in Event, Say(e) PROVE InboxInv' /\ InboxAges
  BY <1>1, <1>2 DEF Say, Aside
<1>3. CASE InboxStep
  BY <1>3, InboxStepInv
<1>4. ASSUME NEW w \in Run, Read(w) \/ CallServer(w) \/ LoseAnswer(w) PROVE InboxInv' /\ InboxAges
  <2>1. InboxAges /\ Runs'
    BY <1>4, HandlerHandles, HandlesTurns
  <2>2. UNCHANGED story /\ (UNCHANGED left \/ \E k : Spend(k))
    BY <1>4 DEF Read, CallServer, LoseAnswer
  <2> QED BY <2>1, <2>2, SpendBudgets DEF InboxInv, InboxAges
<1>5. CASE PendingStep
  BY <1>1, <1>5, PendingAside
<1>6. CASE HouseholdStep
  BY <1>1, <1>6 DEF HouseholdStep, Aside
<1>7. CASE UNCHANGED vars
  BY <1>1, <1>7 DEF vars, inboxVars, Aside
<1> QED BY <1>2, <1>3, <1>4, <1>5, <1>6, <1>7 DEF Next

LEMMA InboxInvInit == Init => InboxInv
<1> SUFFICES ASSUME Init PROVE InboxInv
  OBVIOUS
<1>1. inbox \in [Event -> Row]
  BY DEF Init, InboxInit, NoRow, Row, InboxStatus
<1>2. Runs
  <2>1. IsRun(Idle) /\ Len(Idle.queue) = 0
    BY EmptySeq DEF IsRun, Idle, RunPc
  <2> QED BY <2>1 DEF Init, InboxInit, Runs, Stamped
<1>3. Budgets
  <2>1. story \in Story(Words, [Target -> Owner0])
    BY StoriesAssumption DEF Init, InboxInit
  <2>2. story.trouble \in Nat /\ story.app \in Nat /\ story.household \in Nat
    BY <2>1 DEF Story
  <2> QED BY <2>2 DEF Init, InboxInit, Budgets
<1> QED BY <1>1, <1>2, <1>3 DEF InboxInv

-----------------------------------------------------------------------------
(* What is written in a row, and by whom.                                   *)

RowStatus == {"absent", "draft", "executing", "confirmed"} \cup Closed
IsContent(c) == c = [kind |-> c.kind, by |-> c.by, cand |-> c.cand] /\ c.by \in Int
RowTypes == /\ \A d \in DraftId : draft[d].status \in RowStatus /\ draft[d].mark \in Event \cup {0}
            /\ \A x \in Job : job[x].pc \in {"idle", "check", "execute", "failing"}

\* The row is not written; it is new; it is edited, in the name of the one event of
\* its owner that is under way; it is prepared.
Unwritten(d) == /\ draft'[d].content = draft[d].content /\ draft'[d].mark = draft[d].mark
                /\ draft'[d].status \in RowStatus /\ (draft'[d].status = "absent" <=> Is(d, {"absent"}))
Created(d, c) == /\ Is(d, {"absent"})
                 /\ draft'[d].content = c /\ draft'[d].mark = 0 /\ draft'[d].status = "draft"
Stamp(d, e) == e \in Event /\ Live(e) /\ \A f \in Event : Live(f) /\ From(f) = Owner(d) => f = e
Edited(d, c) == /\ ~Is(d, {"absent"}) /\ draft'[d].status = draft[d].status
                /\ draft'[d].content = c /\ draft'[d].mark \in Event /\ draft'[d].mark > draft[d].mark
                /\ Stamp(d, draft'[d].mark)
Prepared(d) == /\ ~Is(d, {"absent"}) /\ draft'[d].status = draft[d].status /\ draft'[d].mark = draft[d].mark
               /\ \E k \in Simple : draft'[d].content = [kind |-> k, by |-> Worker, cand |-> NoCandidates]

RowsInv == DraftInv /\ RowTypes

LEMMA UnwrittenSame == ASSUME RowsInv, draft' = draft PROVE \A d \in DraftId : Unwritten(d)
BY DEF RowsInv, RowTypes, Unwritten, Is

LEMMA OneRow ==
  ASSUME RowsInv, NEW d, NEW r, draft' = [draft EXCEPT ![d] = r],
         d \in DraftId => r.content = draft[d].content /\ r.mark = draft[d].mark
                          /\ r.status \in RowStatus /\ (r.status = "absent" <=> Is(d, {"absent"}))
  PROVE  \A f \in DraftId : Unwritten(f)
BY DEF RowsInv, DraftInv, Shapes, RowTypes, Unwritten, Is

LEMMA CallUnwritten ==
  ASSUME RowsInv, NEW d,
         ConfirmPending(d) \/ CancelPending(d) \/ UndoQuickShopping(d) \/ \E v : ChooseCalendar(d, v)
  PROVE  \A f \in DraftId : Unwritten(f)
<1>1. ASSUME NEW v \in {"confirmed", "cancelled"}, draft' = [draft EXCEPT ![d].status = v], ~Is(d, {"absent"})
      PROVE  \A f \in DraftId : Unwritten(f)
  <2>1. ASSUME d \in DraftId
        PROVE  LET r == [draft[d] EXCEPT !.status = v]
               IN  r.content = draft[d].content /\ r.mark = draft[d].mark /\ r.status = v
    BY <2>1 DEF RowsInv, DraftInv, Shapes, IsDraft
  <2> QED BY <1>1, <2>1, OneRow DEF RowStatus, Closed, Is
<1>2. draft' = draft => \A f \in DraftId : Unwritten(f)
  BY UnwrittenSame
<1>3. ASSUME NEW s \in RowStatus \ {"absent"}, NEW k, NEW v, NEW w, ~Is(d, {"absent"}),
             \/ draft' = [draft EXCEPT ![d] = [@ EXCEPT !.status = s, !.chosen = w]]
             \/ draft' = [draft EXCEPT ![d] = [@ EXCEPT !.calendar = k, !.chosen = w]]
      PROVE  \A f \in DraftId : Unwritten(f)
  <2> DEFINE q == draft[d]
  <2>1. PICK r \in {[[q EXCEPT !.status = s] EXCEPT !.chosen = w], [[q EXCEPT !.calendar = k] EXCEPT !.chosen = w]} :
          draft' = [draft EXCEPT ![d] = r]
    BY <1>3
  <2>2. d \in DraftId => IsDraft(q) /\ q.status \in RowStatus
    BY DEF RowsInv, DraftInv, Shapes, RowTypes
  <2>3. d \in DraftId => r.content = q.content /\ r.mark = q.mark /\ r.status \in {q.status, s}
    BY <2>1, <2>2 DEF IsDraft
  <2> QED BY <1>3, <2>1, <2>2, <2>3, OneRow DEF Is
<1>4. CASE ConfirmPending(d) /\ Open(d)
  <2>1. ~Is(d, {"absent"})
    BY <1>4 DEF Open, Is
  <2> QED BY <1>3, <1>4, <2>1 DEF ConfirmPending, RowStatus
<1>5. ASSUME NEW v, ChooseCalendar(d, v) PROVE \A f \in DraftId : Unwritten(f)
  <2>1. ~Is(d, {"absent"})
    BY <1>5 DEF ChooseCalendar, CanChoose
  <2>2. "confirmed" \in RowStatus \ {"absent"}
    BY DEF RowStatus
  <2> QED BY <1>3, <1>5, <2>1, <2>2 DEF ChooseCalendar
<1> QED
  BY <1>1, <1>2, <1>4, <1>5 DEF ConfirmPending, CancelPending, UndoQuickShopping, CanCancel, CanUndo, Is

LEMMA ExpireUnwritten ==
  ASSUME RowsInv, NEW s, ExpireDrafts(s) \/ SweepOverdue
  PROVE  \A f \in DraftId : Unwritten(f)
<1>1. \A d \in DraftId : draft'[d] \in {draft[d], [draft[d] EXCEPT !.status = "expired"]}
        /\ (draft'[d] # draft[d] => ~Is(d, {"absent"}))
  BY DEF ExpireDrafts, SweepOverdue, Swept, Is
<1> QED BY <1>1 DEF RowsInv, DraftInv, Shapes, IsDraft, RowTypes, Unwritten, RowStatus, Closed, Is

LEMMA WorkUnwritten ==
  ASSUME RowsInv, NEW d \in DraftId,
         \/ ClaimDraft(d) \/ MarkPreviewed(d) \/ LoseDraftRun(d) \/ DraftLeaseLapses(d) \/ ExecutionDue(d)
         \/ TimePasses(d)
  PROVE  \A f \in DraftId : Unwritten(f)
<1>1. IsDraft(draft[d]) /\ draft[d].status \in RowStatus
  BY DEF RowsInv, DraftInv, Shapes, RowTypes
<1>2. ASSUME NEW v, \/ draft' = [draft EXCEPT ![d].prep = v] \/ draft' = [draft EXCEPT ![d].lapsed = v]
                    \/ draft' = [draft EXCEPT ![d].wait = v] \/ draft' = [draft EXCEPT ![d].overdue = v]
      PROVE  \A f \in DraftId : Unwritten(f)
  <2> DEFINE q == draft[d]
  <2>1. PICK r \in {[q EXCEPT !.prep = v], [q EXCEPT !.lapsed = v], [q EXCEPT !.wait = v], [q EXCEPT !.overdue = v]} :
          draft' = [draft EXCEPT ![d] = r]
    BY <1>2
  <2>2. r.content = q.content /\ r.mark = q.mark /\ r.status = q.status
    BY <1>1, <2>1 DEF IsDraft
  <2> QED BY <1>1, <2>1, <2>2, OneRow DEF Is
<1> QED
  BY <1>2, UnwrittenSame DEF ClaimDraft, MarkPreviewed, LoseDraftRun, DraftLeaseLapses, ExecutionDue, TimePasses

LEMMA JobUnwritten ==
  ASSUME RowsInv, NEW x \in Job,
         \/ \E d \in DraftId : ClaimConfirmed(x, d)
         \/ StartExecution(x) \/ ExecuteOp(x) \/ FailOp(x) \/ CompleteJob(x) \/ FailJob(x) \/ CrashJob(x)
  PROVE  \A f \in DraftId : Unwritten(f)
<1>1. \A d \in DraftId : IsDraft(draft[d]) /\ draft[d].status \in RowStatus
  BY DEF RowsInv, DraftInv, Shapes, RowTypes
<1>2. DOMAIN draft = DraftId
  BY DEF RowsInv, DraftInv, Shapes
<1>3. ASSUME NEW d \in DraftId, ClaimConfirmed(x, d) PROVE \A f \in DraftId : Unwritten(f)
  <2>1. DOMAIN Swept = DraftId
    BY DEF Swept
  <2>2. ~Is(d, {"absent"})
    BY <1>3 DEF ClaimConfirmed, Due, DueOnce, Is
  <2>3. ASSUME NEW f \in DraftId
        PROVE  /\ IsDraft(Swept[f]) /\ Swept[f].content = draft[f].content /\ Swept[f].mark = draft[f].mark
               /\ Swept[f].status \in RowStatus /\ (Swept[f].status = "absent" <=> Is(f, {"absent"}))
    <3>1. Swept[f] \in {draft[f], [draft[f] EXCEPT !.status = "expired"]}
            /\ (Swept[f] # draft[f] => ~Is(f, {"absent"}))
      BY DEF Swept, Is
    <3> QED BY <1>1, <3>1 DEF IsDraft, RowStatus, Closed, Is
  <2> DEFINE s == Swept[d]
             r == [[[[s EXCEPT !.status = "executing"] EXCEPT !.lapsed = FALSE] EXCEPT !.wait = FALSE]
                     EXCEPT !.attempts = @ + 1]
  <2>4. draft' = [Swept EXCEPT ![d] = [Swept[d] EXCEPT !.status = "executing", !.lapsed = FALSE,
                                                       !.wait = FALSE, !.attempts = @ + 1]]
    BY <1>3 DEF ClaimConfirmed
  <2>5. draft' = [Swept EXCEPT ![d] = r]
    BY <2>1, <2>4
  <2>6. IsDraft(s)
    BY <2>3
  <2> HIDE DEF s
  <2>7. r.content = s.content /\ r.mark = s.mark /\ r.status = "executing"
    BY <2>6 DEF IsDraft
  <2> HIDE DEF r
  <2>8. \A f \in DraftId : draft'[f] = IF f = d THEN r ELSE Swept[f]
    BY <2>1, <2>5
  <2> QED BY <2>2, <2>3, <2>7, <2>8 DEF s, Unwritten, RowStatus, Is
<1>4. StartExecution(x) \/ ExecuteOp(x) \/ FailOp(x) \/ CrashJob(x) => draft' = draft
  BY DEF StartExecution, ExecuteOp, FailOp, CrashJob
<1>5. ASSUME CompleteJob(x) \/ FailJob(x), draft' # draft
      PROVE  \A f \in DraftId : Unwritten(f)
  <2> DEFINE d == job[x].draft
             q == draft[d]
  <2>1. ~Is(d, {"absent"})
    BY <1>5 DEF CompleteJob, FailJob, HoldsDraft, Is
  <2>2. CASE CompleteJob(x)
    <3> DEFINE r == [[q EXCEPT !.status = "succeeded"] EXCEPT !.lapsed = FALSE]
    <3>1. draft' = [draft EXCEPT ![d] = r]
      BY <1>2, <1>5, <2>2 DEF CompleteJob
    <3>2. d \in DraftId => r.content = q.content /\ r.mark = q.mark /\ r.status = "succeeded"
      BY <1>1 DEF IsDraft
    <3> QED BY <2>1, <3>1, <3>2, OneRow DEF RowStatus, Closed, Is
  <2>3. CASE FailJob(x)
    <3> DEFINE last == q.attempts >= MaxExecutions
               v == IF last THEN "dead" ELSE "confirmed"
               r == [[[q EXCEPT !.status = v] EXCEPT !.lapsed = FALSE] EXCEPT !.wait = ~last]
    <3>1. draft' = [draft EXCEPT ![d] = r]
      BY <1>2, <1>5, <2>3 DEF FailJob
    <3> HIDE DEF last
    <3>2. v \in {"dead", "confirmed"}
      OBVIOUS
    <3> HIDE DEF v
    <3>3. d \in DraftId => r.content = q.content /\ r.mark = q.mark /\ r.status = v
      BY <1>1 DEF IsDraft
    <3> HIDE DEF r
    <3> QED BY <2>1, <3>1, <3>2, <3>3, OneRow DEF RowStatus, Closed, Is
  <2> QED BY <1>5, <2>2, <2>3
<1> QED BY <1>3, <1>4, <1>5, UnwrittenSame

LEMMA CreateWrites ==
  ASSUME RowsInv, NEW d, NEW c, CreatePending(d, c)
  PROVE  \A f \in DraftId : Unwritten(f) \/ (f = d /\ Created(f, c))
<1>1. CASE ~Is(d, {"absent"})
  BY <1>1, UnwrittenSame DEF CreatePending
<1>2. CASE Is(d, {"absent"})
  <2> DEFINE n == Cardinality({f \in DraftId : ~Is(f, {"absent"})}) + 1
             r == [NoDraft EXCEPT !.status = "draft", !.content = c, !.born = n]
  <2>1. draft' = [draft EXCEPT ![d] = r]
    BY <1>2 DEF CreatePending
  <2> HIDE DEF n
  <2>2. r.content = c /\ r.mark = 0 /\ r.status = "draft"
    BY DEF NoDraft
  <2> HIDE DEF r
  <2>3. \A f \in DraftId : draft'[f] = IF f = d THEN r ELSE draft[f]
    BY <2>1 DEF RowsInv, DraftInv, Shapes
  <2> QED BY <1>2, <2>2, <2>3 DEF RowsInv, RowTypes, Unwritten, Created, Is
<1> QED BY <1>1, <1>2

LEMMA UpdateWrites ==
  ASSUME RowsInv, NEW d, NEW c, NEW editing, UpdatePending(d, c, editing)
  PROVE  \A f \in DraftId : Unwritten(f) \/ (f = d /\ Edited(f, c))
<1> DEFINE S == {f \in Event : Live(f) /\ From(f) = Owner(d)}
           e == CHOOSE f \in Event : Live(f) /\ From(f) = Owner(d)
           new == [draft EXCEPT ![d] = [@ EXCEPT !.content = c, !.mark = e, !.editing = editing]]
<1>1. Cardinality(S) = 1 /\ Open(d)
  BY DEF UpdatePending, CanUpdate
<1>2. IsFiniteSet(S)
  BY EventAssumption, FS_Subset
<1>3. PICK g : S = {g}
  BY <1>1, <1>2, FS_Singleton
<1>4. e = g /\ Stamp(d, g)
  BY <1>3 DEF Stamp
<1> HIDE DEF e
<1>5. draft' = draft \/ (draft' = new /\ g > draft[d].mark)
  BY <1>4 DEF UpdatePending, LaterEdit, e
<1>6. CASE draft' = new /\ g > draft[d].mark
  <2>1. ASSUME d \in DraftId
        PROVE  new[d].content = c /\ new[d].mark = g /\ new[d].status = draft[d].status
    <3>1. new[d] = [[[draft[d] EXCEPT !.content = c] EXCEPT !.mark = e] EXCEPT !.editing = editing]
      BY <2>1 DEF RowsInv, DraftInv, Shapes
    <3>2. IsDraft(draft[d])
      BY <2>1 DEF RowsInv, DraftInv, Shapes
    <3> HIDE DEF new
    <3> QED BY <1>4, <3>1, <3>2 DEF IsDraft
  <2>2. \A f \in DraftId : f # d => new[f] = draft[f]
    BY DEF RowsInv, DraftInv, Shapes
  <2> HIDE DEF new
  <2> QED BY <1>1, <1>4, <1>6, <2>1, <2>2 DEF RowsInv, RowTypes, Unwritten, Edited, Open, Is, Stamp
<1> QED BY <1>5, <1>6, UnwrittenSame

LEMMA PrepareWrites ==
  ASSUME RowsInv, NEW d \in DraftId, PrepareDraft(d)
  PROVE  \A f \in DraftId : Unwritten(f) \/ Prepared(f)
<1>0. IsDraft(draft[d]) /\ DOMAIN draft = DraftId
  BY DEF RowsInv, DraftInv, Shapes
<1>1. ASSUME NEW k \in Simple, Open(d),
             draft' = [draft EXCEPT ![d] = [@ EXCEPT !.content = [kind |-> k, by |-> Worker, cand |-> NoCandidates],
                                                     !.prep = "ready", !.editing = FALSE]]
      PROVE  \A f \in DraftId : Unwritten(f) \/ Prepared(f)
  <2> DEFINE c == [kind |-> k, by |-> Worker, cand |-> NoCandidates]
             r == [[[draft[d] EXCEPT !.content = c] EXCEPT !.prep = "ready"] EXCEPT !.editing = FALSE]
  <2>1. draft' = [draft EXCEPT ![d] = r]
    BY <1>0, <1>1
  <2> HIDE DEF c
  <2>2. r.content = c /\ r.mark = draft[d].mark /\ r.status = draft[d].status
    BY <1>0 DEF IsDraft
  <2> HIDE DEF r
  <2>3. \A f \in DraftId : draft'[f] = IF f = d THEN r ELSE draft[f]
    BY <1>0, <2>1
  <2> QED BY <1>1, <2>2, <2>3 DEF RowsInv, RowTypes, Unwritten, Prepared, Open, Is, c
<1>2. ASSUME draft' = [draft EXCEPT ![d].prep = "parse_failed"] PROVE \A f \in DraftId : Unwritten(f)
  <2> DEFINE r == [draft[d] EXCEPT !.prep = "parse_failed"]
  <2>1. draft' = [draft EXCEPT ![d] = r]
    BY <1>2
  <2>2. r.content = draft[d].content /\ r.mark = draft[d].mark /\ r.status = draft[d].status
    BY <1>0 DEF IsDraft
  <2> QED BY <2>1, <2>2, OneRow DEF RowsInv, RowTypes, Is
<1> QED BY <1>1, <1>2, UnwrittenSame DEF PrepareDraft

-----------------------------------------------------------------------------
(* What a handler plans when it has read the state.                         *)

\* Rows of the event's own, with what it says; other rows of the sender, with
\* what the event says of them or what they said when they were read.
About(d, e)  == d \in DraftId /\ Sent(d[1]) /\ Owner(d) = From(e)
FirstCall(c, e) ==
  /\ c.rpc = "create" => c.d \in DraftId /\ c.d[1] = e /\ IsContent(c.content)
  /\ c.rpc = "update" => /\ About(c.d, e) /\ IsContent(c.content)
                         /\ \/ c.content.by = e
                            \/ ~Is(c.d, {"absent"}) /\ c.content.by = draft[c.d].content.by
IsSeq(p)        == p \in Seq({p[i] : i \in DOMAIN p})
FirstPlan(p, e) == IsSeq(p) /\ \A i \in DOMAIN p : FirstCall(p[i], e)

LEMMA SeqIsSeq == ASSUME NEW S, NEW p \in Seq(S) PROVE IsSeq(p)
<1> DEFINE T == {p[i] : i \in DOMAIN p}
<1>1. p = [i \in 1 .. Len(p) |-> p[i]] /\ Len(p) \in Nat /\ DOMAIN p = 1 .. Len(p)
  BY LenProperties, ElementOfSeq
<1>2. p \in [1 .. Len(p) -> T]
  BY <1>1
<1> HIDE DEF T
<1>3. p \in Seq(T)
  BY <1>1, <1>2, SeqDef
<1> QED BY <1>3 DEF IsSeq, T

LEMMA EmptyPlan == ASSUME NEW e PROVE FirstPlan(<<>>, e)
<1>1. IsSeq(<<>>)
  BY EmptySeq, SeqIsSeq
<1> QED BY <1>1 DEF FirstPlan

LEMMA OneCallPlan == ASSUME NEW e, NEW c, FirstCall(c, e) PROVE FirstPlan(<<c>>, e)
<1>1. <<c>> \in Seq({c})
  OBVIOUS
<1>2. IsSeq(<<c>>)
  BY <1>1, SeqIsSeq
<1> QED BY <1>2 DEF FirstPlan

LEMMA TwoCallPlan == ASSUME NEW e, NEW c, NEW b, FirstCall(c, e), FirstCall(b, e) PROVE FirstPlan(<<c, b>>, e)
<1>1. <<c, b>> \in Seq({c, b})
  OBVIOUS
<1>2. IsSeq(<<c, b>>)
  BY <1>1, SeqIsSeq
<1> QED BY <1>2 DEF FirstPlan

LEMMA JoinedPlan ==
  ASSUME NEW e, NEW p, NEW q, FirstPlan(p, e), FirstPlan(q, e)
  PROVE  FirstPlan(p \o q, e)
<1> DEFINE S == {p[i] : i \in DOMAIN p} \cup {q[i] : i \in DOMAIN q}
<1>1. p \in Seq(S) /\ q \in Seq(S)
  <2>1. /\ p \in Seq({p[i] : i \in DOMAIN p})
        /\ q \in Seq({q[i] : i \in DOMAIN q})
    BY DEF FirstPlan, IsSeq
  <2> QED BY <2>1, SeqMonotonic
<1>2. DOMAIN p = 1 .. Len(p) /\ DOMAIN q = 1 .. Len(q)
  BY <1>1, LenProperties
<1>3. \A x \in S : FirstCall(x, e)
  BY DEF FirstPlan
<1> HIDE DEF S
<1>4. p \o q \in Seq(S)
  BY <1>1
<1>5. \A i \in DOMAIN (p \o q) : (p \o q)[i] \in S
  BY <1>4, ElementOfSeq, LenProperties
<1> QED BY <1>3, <1>4, <1>5, SeqIsSeq DEF FirstPlan

\* The rows as they are found, and the messages a handler is called for.
RowTaps == {"confirm", "edit", "change", "kind", "cancel_candidate", "resolve"}
Contents == \A d \in DraftId : /\ IsContent(draft[d].content)
                                /\ IF Is(d, {"absent"}) THEN draft[d].mark = 0 ELSE Sent(d[1])
MessageInv ==
  /\ DOMAIN message = Event
  /\ \A e \in Event : /\ inbox[e].status # "absent" => Sent(e)
                      /\ message[e].word \in RowTaps => About(message[e].target, e)

\* No draft is made or edited.
PlainCall(c) == c.rpc \notin {"create", "update"}
LEMMA PlainFirst == ASSUME NEW e, NEW c, PlainCall(c) PROVE FirstCall(c, e)
BY DEF PlainCall, FirstCall

LEMMA PlainPlan == ASSUME NEW e, NEW c, PlainCall(c) PROVE FirstPlan(<<c>>, e)
BY PlainFirst, OneCallPlan

LEMMA CreateFirst ==
  ASSUME NEW e \in Event, NEW x \in {"understood", "text", "c1"}, NEW c, IsContent(c)
  PROVE  FirstCall(Create(<<e, x>>, c), e)
BY DEF FirstCall, Create, DraftCall, DraftId

LEMMA UpdateFirst ==
  ASSUME NEW e, NEW d, NEW c, NEW editing, About(d, e), IsContent(c),
         c.by = e \/ (~Is(d, {"absent"}) /\ c.by = draft[d].content.by)
  PROVE  /\ FirstCall(Update(d, c, editing), e)
         /\ FirstCall([Update(d, c, editing) EXCEPT !.otherwise = "fallback"], e)
BY DEF FirstCall, Update, DraftCall

LEMMA ContentIs ==
  ASSUME NEW e \in Event, NEW k, NEW c
  PROVE  /\ IsContent(Content(k, e)) /\ Content(k, e).by = e
         /\ IsContent(ReviewOf(k, e, c)) /\ ReviewOf(k, e, c).by = e
BY EventAssumption DEF IsContent, Content, ReviewOf

\* A new row, confirmed at once or not.
LEMMA DraftPlan ==
  ASSUME NEW e \in Event, NEW x \in {"understood", "text", "c1"}, NEW c, IsContent(c)
  PROVE  /\ FirstPlan(<<Create(<<e, x>>, c)>> \o QuickAdd(<<e, x>>), e)
         /\ FirstPlan(<<Create(<<e, x>>, c)>> \o <<>>, e)
<1>1. FirstPlan(QuickAdd(<<e, x>>), e)
  BY PlainPlan DEF QuickAdd, Confirm, DraftCall, PlainCall
<1> QED BY <1>1, CreateFirst, OneCallPlan, EmptyPlan, JoinedPlan

LEMMA UnderstoodDraftFirst ==
  ASSUME NEW e \in Event, NEW kinds, NEW p \in UnderstoodDraft(e, kinds)
  PROVE  FirstPlan(p, e)
<1>1. PICK k \in kinds : p = <<Create(<<e, "understood">>, Content(k, e))>>
                               \o (IF k = "shopping" THEN QuickAdd(<<e, "understood">>) ELSE <<>>)
  BY DEF UnderstoodDraft, AndQuickAdd
<1>2. IsContent(Content(k, e))
  BY ContentIs
<1> QED BY <1>1, <1>2, DraftPlan

LEMMA MultiIntentFirst ==
  ASSUME NEW e \in Event, NEW readings, NEW p \in MultiIntentReview(e, readings)
  PROVE  FirstPlan(p, e)
<1> DEFINE plan(k, c) == <<Create(<<e, "text">>, ReviewOf(k, e, c))>>
                           \o AndQuickAdd(<<e, "text">>, k = "list" /\ Complete2(c))
<1>1. MultiIntentReview(e, readings) = {plan(k, c) : k \in Review, c \in readings}
  BY DEF MultiIntentReview
<1>2. ASSUME NEW k \in Review, NEW c \in readings PROVE FirstPlan(plan(k, c), e)
  <2>1. IsContent(ReviewOf(k, e, c))
    BY ContentIs
  <2>2. CASE k = "list" /\ Complete2(c)
    <3>1. plan(k, c) = <<Create(<<e, "text">>, ReviewOf(k, e, c))>> \o QuickAdd(<<e, "text">>)
      BY <2>2 DEF AndQuickAdd
    <3> HIDE DEF plan
    <3> QED BY <2>1, <3>1, DraftPlan
  <2>3. CASE ~(k = "list" /\ Complete2(c))
    <3>1. plan(k, c) = <<Create(<<e, "text">>, ReviewOf(k, e, c))>> \o <<>>
      BY <2>3 DEF AndQuickAdd
    <3> HIDE DEF plan
    <3> QED BY <2>1, <3>1, DraftPlan
  <2> QED BY <2>2, <2>3
<1> HIDE DEF plan
<1> QED BY <1>1, <1>2

LEMMA SingleFirst ==
  ASSUME NEW e \in Event, NEW kinds, NEW p \in SingleCandidate(e, kinds)
  PROVE  FirstPlan(p, e)
<1>1. CASE p \in {<<Create(<<e, "c1">>, Content(k, e))>> \o AndQuickAdd(<<e, "c1">>, k = "shopping") : k \in kinds}
  <2>1. PICK k \in kinds : p = <<Create(<<e, "c1">>, Content(k, e))>>
                                 \o (IF k = "shopping" THEN QuickAdd(<<e, "c1">>) ELSE <<>>)
    BY <1>1 DEF AndQuickAdd
  <2>2. IsContent(Content(k, e))
    BY ContentIs
  <2> QED BY <2>1, <2>2, DraftPlan
<1> QED BY <1>1, MultiIntentFirst DEF SingleCandidate

LEMMA StarterFirst ==
  ASSUME NEW e \in Event, Sent(e), NEW p \in Starter(e)
  PROVE  FirstPlan(p, e)
<1> DEFINE d == <<e, "text">>
<1>1. About(d, e)
  BY DEF About, DraftId, Owner
<1>2. PICK k \in Simple : p = <<Create(d, Content("unclear", e)), Update(d, Content(k, e), TRUE)>>
  BY DEF Starter, BeginClarification
<1>3. FirstCall(Create(d, Content("unclear", e)), e)
  BY CreateFirst, ContentIs
<1>4. FirstCall(Update(d, Content(k, e), TRUE), e)
  BY <1>1, UpdateFirst, ContentIs
<1> QED BY <1>2, <1>3, <1>4, TwoCallPlan

-----------------------------------------------------------------------------
\* About a row that is there.
LEMMA MineAbout ==
  ASSUME Contents, NEW e, NEW d \in Mine(From(e))
  PROVE  About(d, e) /\ ~Is(d, {"absent"}) /\ IsContent(draft[d].content)
BY DEF Contents, Mine, About

LEMMA RewrittenFirst ==
  ASSUME NEW e \in Event, NEW d, About(d, e), NEW k, NEW editing
  PROVE  FirstPlan(<<Update(d, Content(k, e), editing)>>, e)
BY UpdateFirst, ContentIs, OneCallPlan

\* The row as it was, but for a candidate or its state.
LEMMA RetainedFirst ==
  ASSUME NEW e, NEW d, About(d, e), ~Is(d, {"absent"}), NEW c, IsContent(c),
         c.by = draft[d].content.by, NEW editing
  PROVE  FirstPlan(<<Update(d, c, editing)>>, e)
BY UpdateFirst, OneCallPlan

LEMMA CandidateContent ==
  ASSUME NEW c, IsContent(c), NEW k, NEW v
  PROVE  LET x == [c EXCEPT !.cand[k] = v] IN IsContent(x) /\ x.by = c.by
BY DEF IsContent

LEMMA CancelPlan == ASSUME NEW e, NEW d PROVE FirstPlan(<<Cancel(d)>>, e)
BY PlainPlan DEF Cancel, DraftCall, PlainCall

LEMMA CancelCandidateFirst ==
  ASSUME NEW e, NEW d, About(d, e), ~Is(d, {"absent"}), IsContent(draft[d].content), NEW k
  PROVE  FirstPlan(CancelCandidate(d, k), e)
<1> DEFINE c == [draft[d].content EXCEPT !.cand[k] = "cancelled"]
<1>1. IsContent(c) /\ c.by = draft[d].content.by
  BY CandidateContent
<1> HIDE DEF c
<1>2. FirstPlan(<<Update(d, c, draft[d].editing)>>, e)
  BY <1>1, RetainedFirst
<1>3. FirstPlan(IF Active(c) = {} THEN <<Cancel(d)>> ELSE <<>>, e)
  BY CancelPlan, EmptyPlan
<1>4. FirstPlan(<<Update(d, c, draft[d].editing)>> \o (IF Active(c) = {} THEN <<Cancel(d)>> ELSE <<>>), e)
  BY <1>2, <1>3, JoinedPlan
<1> QED BY <1>4 DEF CancelCandidate, c

LEMMA AboutRowFirst ==
  ASSUME Contents, NEW e \in Event, NEW drop, NEW d \in Mine(From(e)), NEW p \in AboutRow(e, drop, d)
  PROVE  FirstPlan(p, e)
<1>1. About(d, e) /\ ~Is(d, {"absent"}) /\ IsContent(draft[d].content)
  BY MineAbout
<1>2. \/ p = <<>> \/ p = <<Cancel(d)>> \/ \E k : p = CancelCandidate(d, k)
      \/ p = <<Update(d, [draft[d].content EXCEPT !.by = e], FALSE)>>
  BY DEF AboutRow
<1>3. CASE p = <<Update(d, [draft[d].content EXCEPT !.by = e], FALSE)>>
  <2> DEFINE c == [draft[d].content EXCEPT !.by = e]
  <2>1. IsContent(c) /\ c.by = e
    BY <1>1, EventAssumption DEF IsContent
  <2> HIDE DEF c
  <2>2. FirstPlan(<<Update(d, c, FALSE)>>, e)
    BY <1>1, <2>1, UpdateFirst, OneCallPlan
  <2> QED BY <1>3, <2>2 DEF c
<1> QED BY <1>1, <1>2, <1>3, EmptyPlan, CancelPlan, CancelCandidateFirst

LEMMA ReferentFirst ==
  ASSUME Contents, NEW e \in Event, NEW drop, NEW p \in PendingReferent(e, drop)
  PROVE  FirstPlan(p, e)
BY AboutRowFirst DEF PendingReferent, Newest

LEMMA TextEditFirst ==
  ASSUME Contents, NEW e \in Event, NEW p \in ApplyTextEdit(e)
  PROVE  FirstPlan(p, e)
<1>1. CASE p = <<>>
  BY <1>1, EmptyPlan
<1>2. CASE p # <<>>
  <2>1. PICK d \in Editing(From(e)), k \in Simple : p = <<Update(d, Content(k, e), FALSE)>>
    BY <1>2 DEF ApplyTextEdit, Update, DraftCall, Content
  <2>2. About(d, e)
    BY MineAbout DEF Editing
  <2> QED BY <2>1, <2>2, RewrittenFirst
<1> QED BY <1>1, <1>2

LEMMA UnderstoodEditFirst ==
  ASSUME Contents, NEW e \in Event, NEW p \in UnderstoodEdit(e)
  PROVE  FirstPlan(p, e)
<1>1. PICK d \in {f \in OpenNewest(From(e)) : draft[f].content.kind \notin Review}, k \in Simple :
        p = <<[Update(d, Content(k, e), FALSE) EXCEPT !.otherwise = "fallback"]>>
  BY DEF UnderstoodEdit, Update, DraftCall, Content
<1>2. About(d, e)
  BY MineAbout DEF OpenNewest, Newest
<1>3. FirstCall([Update(d, Content(k, e), FALSE) EXCEPT !.otherwise = "fallback"], e)
  BY <1>2, UpdateFirst, ContentIs
<1> QED BY <1>1, <1>3, OneCallPlan

LEMMA UnderstoodCancelFirst ==
  ASSUME NEW e, NEW p \in UnderstoodCancel(e)
  PROVE  FirstPlan(p, e)
BY CancelPlan DEF UnderstoodCancel

-----------------------------------------------------------------------------
\* The buttons on a card.
LEMMA TargetOpen ==
  ASSUME Contents, NEW e, NEW d, About(d, e), Open(d)
  PROVE  ~Is(d, {"absent"}) /\ IsContent(draft[d].content)
BY DEF Contents, About, Open, Is

LEMMA ClarifyFirst ==
  ASSUME NEW e \in Event, NEW d, About(d, e), NEW p \in ClarifyKind(e, d)
  PROVE  FirstPlan(p, e)
<1>1. PICK k \in Simple : p = <<Update(d, Content(k, e), TRUE)>>
  BY DEF ClarifyKind, BeginClarification
<1> QED BY <1>1, RewrittenFirst

LEMMA EditFirst ==
  ASSUME Contents, NEW e, NEW d, About(d, e), Open(d), NEW p \in EditPending(e, d)
  PROVE  FirstPlan(p, e)
BY TargetOpen, RetainedFirst DEF EditPending

LEMMA ChangeFirst ==
  ASSUME NEW e \in Event, NEW d, About(d, e), NEW p \in ChangePending(e, d)
  PROVE  FirstPlan(p, e)
<1>1. CASE p = <<>>
  BY <1>1, EmptyPlan
<1>2. CASE p # <<>>
  <2>1. PICK k \in Simple : p = <<Update(d, Content(k, e), FALSE)>>
    BY <1>2 DEF ChangePending
  <2> QED BY <2>1, RewrittenFirst
<1> QED BY <1>1, <1>2

LEMMA CancelOneFirst ==
  ASSUME Contents, NEW e, NEW d, About(d, e), Open(d), NEW p \in CancelOne(e, d)
  PROVE  FirstPlan(p, e)
<1>1. p = <<>> \/ \E k \in Candidate : p = CancelCandidate(d, k)
  BY DEF CancelOne
<1> QED BY <1>1, TargetOpen, EmptyPlan, CancelCandidateFirst

LEMMA ResolveFirst ==
  ASSUME Contents, NEW e, NEW d, About(d, e), Open(d), NEW p \in ResolveDuplicate(e, d)
  PROVE  FirstPlan(p, e)
<1>1. CASE p = <<>>
  BY <1>1, EmptyPlan
<1>2. CASE p # <<>>
  <2> DEFINE c(k, v) == [draft[d].content EXCEPT !.cand[k] = v]
  <2>1. PICK k \in Candidate, v \in {"existing", "update", "separate"} : p = <<Update(d, c(k, v), draft[d].editing)>>
    BY <1>2 DEF ResolveDuplicate, Update, DraftCall
  <2>2. IsContent(c(k, v)) /\ c(k, v).by = draft[d].content.by
    BY TargetOpen, CandidateContent
  <2> HIDE DEF c
  <2> QED BY <2>1, <2>2, TargetOpen, RetainedFirst
<1> QED BY <1>1, <1>2

-----------------------------------------------------------------------------
\* Commands and answers.
LEMMA SetSeqDomain ==
  ASSUME NEW S, IsFiniteSet(S)
  PROVE  DOMAIN SetToSeq(S) = 1 .. Cardinality(S) /\ Cardinality(S) \in Nat
<1>1. Cardinality(S) \in Nat /\ ExistsBijection(1 .. Cardinality(S), S)
  BY FS_CardinalityType
<1>2. \E f \in [1 .. Cardinality(S) -> S] : IsInjective(f)
  BY <1>1 DEF ExistsBijection, Bijection, Injection
<1>3. SetToSeq(S) \in [1 .. Cardinality(S) -> S]
  BY <1>2 DEF SetToSeq
<1> QED BY <1>1, <1>3

LEMMA EachPlan ==
  ASSUME NEW S, IsFiniteSet(S), NEW e, NEW p, p = [i \in DOMAIN SetToSeq(S) |-> p[i]],
         \A i \in DOMAIN SetToSeq(S) : PlainCall(p[i])
  PROVE  FirstPlan(p, e)
<1> DEFINE n == Cardinality(S)
           T == {p[i] : i \in 1 .. n}
<1>1. n \in Nat /\ DOMAIN SetToSeq(S) = 1 .. n
  BY SetSeqDomain
<1> HIDE DEF n
<1>2. p \in [1 .. n -> T] /\ DOMAIN p = 1 .. n
  BY <1>1
<1> HIDE DEF T
<1>3. p \in Seq(T)
  BY <1>1, <1>2, SeqDef
<1>4. IsSeq(p)
  BY <1>3, SeqIsSeq
<1>5. \A i \in DOMAIN p : FirstCall(p[i], e)
  BY <1>1, <1>2, PlainFirst
<1> QED BY <1>4, <1>5 DEF FirstPlan

LEMMA TargetsFinite ==
  /\ \A S \in SUBSET Task : IsFiniteSet(S)
  /\ \A S \in SUBSET ShoppingItem : IsFiniteSet(S)
BY TargetAssumption, FS_Subset

LEMMA CommandPlain ==
  /\ \A s, op, action, t, revision, quiet : PlainCall(Command(s, op, action, t, revision, quiet))
  /\ \A e, route, t : PlainCall(CompleteTask(e, route, t))
  /\ \A e, t : PlainCall(CouldNotDo(e, t)) /\ PlainCall([CompleteTask(e, "day", t) EXCEPT !.op = <<"day", 0, t>>])
  /\ \A e, route, i : PlainCall(Purchase(e, route, i, FALSE)) /\ PlainCall(Purchase(e, route, i, TRUE))
  /\ \A buttons : PlainCall(Reply(buttons))
BY DEF PlainCall, Command, CompleteTask, CouldNotDo, Purchase, Reply

LEMMA CommandPlan ==
  /\ \A f, s, op, action, t, revision, quiet : FirstPlan(<<Command(s, op, action, t, revision, quiet)>>, f)
  /\ \A f, e, route, t : FirstPlan(<<CompleteTask(e, route, t)>>, f)
  /\ \A f, e, t : FirstPlan(<<CouldNotDo(e, t)>>, f)
  /\ \A f, e, route, i : FirstPlan(<<Purchase(e, route, i, FALSE)>>, f)
  /\ \A f, buttons : FirstPlan(<<Reply(buttons)>>, f)
BY CommandPlain, PlainPlan

LEMMA PurchaseAllFirst ==
  ASSUME NEW e, NEW S \in SUBSET ShoppingItem
  PROVE  FirstPlan(PurchaseAll(e, S), e)
<1> DEFINE order == SetToSeq(S)
           p == PurchaseAll(e, S)
<1>1. p = [i \in DOMAIN order |-> Purchase(e, "shopping", order[i], TRUE)]
  BY DEF PurchaseAll, Each
<1> HIDE DEF p
<1>2. p = [i \in DOMAIN order |-> p[i]] /\ \A i \in DOMAIN order : p[i] = Purchase(e, "shopping", order[i], TRUE)
  BY <1>1 DEF Purchase, Command
<1>3. \A i \in DOMAIN order : PlainCall(p[i])
  BY <1>2 DEF Purchase, Command, PlainCall
<1> QED BY <1>2, <1>3, TargetsFinite, EachPlan DEF p

LEMMA DayFirst ==
  ASSUME NEW e, NEW p \in DayCompletion(e)
  PROVE  FirstPlan(p, e)
<1>1. PICK S \in SUBSET Task : p = Each(S, LAMBDA t : [CompleteTask(e, "day", t) EXCEPT !.op = <<"day", 0, t>>])
  BY DEF DayCompletion, OpenTasks
<1> DEFINE order == SetToSeq(S)
<1>2. p = [i \in DOMAIN order |-> [CompleteTask(e, "day", order[i]) EXCEPT !.op = <<"day", 0, order[i]>>]]
  BY <1>1 DEF Each
<1>3. p = [i \in DOMAIN order |-> p[i]] /\ \A i \in DOMAIN order : PlainCall(p[i])
  BY <1>2, CommandPlain
<1> QED BY <1>3, TargetsFinite, EachPlan

\* Messages and buttons that act at once.
LEMMA MenuFirst ==
  ASSUME NEW e \in Event, message[e].word \in Fixed, NEW p \in MenuWord(e)
  PROVE  FirstPlan(p, e)
<1>1. CASE p = <<>>
  BY <1>1, EmptyPlan
<1>2. CASE \E buttons : p = <<Reply(buttons)>>
  BY <1>2, CommandPlan
<1>3. CASE p \in OpenTransportPreview(e)
  BY <1>3, PlainPlan DEF OpenTransportPreview, PlainCall
<1>4. p = <<>> \/ (\E buttons : p = <<Reply(buttons)>>) \/ p \in OpenTransportPreview(e)
  BY DEF MenuWord, Fixed, OpenWaiting, OpenShopping, OpenAnyoneTasks, OpenReconciliation, OpenAssignmentDecision, Cards
<1> QED BY <1>1, <1>2, <1>3, <1>4

LEMMA ReportFirst ==
  ASSUME NEW e, NEW p, \/ p \in CompletionReport(e) \/ p \in MarkBought(e)
                       \/ p \in {<<CompleteTask(e, "understand", t)>> : t \in OpenTasks}
                       \/ p \in {<<CouldNotDo(e, t)>> : t \in OpenTasks}
                       \/ p \in PurchaseReport(e) \/ p \in PurchaseById(e)
  PROVE  FirstPlan(p, e)
<1>1. \/ p = <<>>
      \/ \E route, t : p = <<CompleteTask(e, route, t)>>
      \/ \E t : p = <<CouldNotDo(e, t)>>
      \/ \E route, i : p = <<Purchase(e, route, i, FALSE)>>
      \/ p = PurchaseAll(e, OpenItems)
  BY DEF CompletionReport, MarkBought, PurchaseReport, PurchaseById
<1>2. OpenItems \in SUBSET ShoppingItem
  BY DEF OpenItems
<1> QED BY <1>1, <1>2, EmptyPlan, CommandPlan, PurchaseAllFirst

LEMMA TapFirst ==
  ASSUME NEW e, NEW p, \/ p \in SetWaiting(e) \/ p \in AssignUnassigned(e) \/ p \in MutateClaim(e) \/ p \in TakeBack(e)
                       \/ p \in PromptTakeover(e) \/ p \in AnswerAll(e) \/ p \in UndoAnswer(e) \/ p \in DecideTransport(e)
  PROVE  FirstPlan(p, e)
<1>1. CASE \E route : p \in Tap(e, route)
  BY <1>1, CommandPlan DEF Tap
<1>2. CASE p \in PromptTakeover(e)
  BY <1>2, EmptyPlan, CommandPlan DEF PromptTakeover
<1>3. CASE p \in AnswerAll(e) \/ p \in UndoAnswer(e) \/ p \in DecideTransport(e)
  BY <1>3, PlainPlan DEF AnswerAll, UndoAnswer, DecideTransport, PlainCall
<1> QED BY <1>1, <1>2, <1>3 DEF SetWaiting, AssignUnassigned, MutateClaim, TakeBack

\* handlePostback.
LEMMA PostbackFirst ==
  ASSUME Contents, MessageInv, NEW e \in Event, NEW p \in Postback(e)
  PROVE  FirstPlan(p, e)
<1> DEFINE d == message[e].target
           word == message[e].word
<1>1. word \in RowTaps => About(d, e)
  BY DEF MessageInv
<1>2. CASE word \in RowTaps /\ ~Open(d)
  BY <1>2, EmptyPlan DEF Postback, RowTaps, Tapped
<1>3. CASE word \in RowTaps /\ Open(d)
  <2>1. About(d, e) /\ Open(d)
    BY <1>1, <1>3
  <2>2. CASE word = "confirm"
    <3>1. p = <<Confirm(d)>>
      BY <1>3, <2>2 DEF Postback, Tapped
    <3> QED BY <3>1, PlainPlan DEF Confirm, DraftCall, PlainCall
  <2>3. CASE word = "edit"
    BY <2>1, <2>3, EditFirst DEF Postback, Tapped
  <2>4. CASE word = "change"
    BY <2>1, <2>4, ChangeFirst DEF Postback, Tapped
  <2>5. CASE word = "kind"
    BY <2>1, <2>5, ClarifyFirst DEF Postback, Tapped
  <2>6. CASE word = "cancel_candidate"
    BY <2>1, <2>6, CancelOneFirst DEF Postback, Tapped
  <2>7. CASE word = "resolve"
    BY <2>1, <2>7, ResolveFirst DEF Postback, Tapped
  <2> QED BY <1>3, <2>2, <2>3, <2>4, <2>5, <2>6, <2>7 DEF RowTaps
<1>4. CASE word \notin RowTaps
  <2>1. CASE p \in {<<Cancel(d)>>, <<UndoAdd(d)>>}
    BY <2>1, PlainPlan DEF Cancel, UndoAdd, DraftCall, PlainCall
  <2>2. CASE p \in {<<CompleteTask(e, "postback", Tapped1(e))>>}
    BY <2>2, CommandPlan
  <2>3. CASE p \in {PurchaseAll(e, OpenItems)}
    BY <2>3, PurchaseAllFirst DEF OpenItems
  <2>4. \/ p \in {<<Cancel(d)>>, <<UndoAdd(d)>>} \/ p \in {<<CompleteTask(e, "postback", Tapped1(e))>>}
        \/ p \in {PurchaseAll(e, OpenItems)} \/ p \in PurchaseById(e)
        \/ p \in SetWaiting(e) \/ p \in AssignUnassigned(e) \/ p \in MutateClaim(e) \/ p \in TakeBack(e)
        \/ p \in PromptTakeover(e) \/ p \in AnswerAll(e) \/ p \in UndoAnswer(e) \/ p \in DecideTransport(e)
        \/ \E v \in {"hidden", "special"} : p = <<SetCalendar(d, v)>>
    BY <1>4 DEF Postback, RowTaps
  <2>5. CASE \E v \in {"hidden", "special"} : p = <<SetCalendar(d, v)>>
    BY <2>5, PlainPlan DEF SetCalendar, DraftCall, PlainCall
  <2> QED BY <2>1, <2>2, <2>3, <2>4, <2>5, ReportFirst, TapFirst
<1> QED BY <1>2, <1>3, <1>4

\* handleText.
LEMMA TextFirst ==
  ASSUME Contents, MessageInv, NEW e \in Event, Sent(e), NEW p \in Fallback(e) \cup Understood(e)
  PROVE  FirstPlan(p, e)
<1>1. CASE p \in Understood(e)
  <2>1. \/ \E kinds : p \in UnderstoodDraft(e, kinds)
        \/ p \in UnderstoodEdit(e) \/ p \in UnderstoodCancel(e) \/ p \in MarkBought(e)
        \/ p \in {<<CompleteTask(e, "understand", t)>> : t \in OpenTasks}
        \/ p \in {<<CouldNotDo(e, t)>> : t \in OpenTasks}
    BY <1>1 DEF Understood
  <2> QED BY <2>1, UnderstoodDraftFirst, UnderstoodEditFirst, UnderstoodCancelFirst, ReportFirst
<1>2. CASE p \in Fallback(e)
  <2>1. \/ p = <<>> \/ p \in ApplyTextEdit(e) \/ p \in Starter(e)
        \/ \E kinds : p \in SingleCandidate(e, kinds)
        \/ \E readings : p \in MultiIntentReview(e, readings)
        \/ \E drop : p \in PendingReferent(e, drop)
        \/ p \in CompletionReport(e) \/ p \in DayCompletion(e) \/ p \in PurchaseReport(e)
    BY <1>2 DEF Fallback
  <2> QED BY <2>1, EmptyPlan, TextEditFirst, StarterFirst, SingleFirst, MultiIntentFirst, ReferentFirst, ReportFirst,
             DayFirst
<1> QED BY <1>1, <1>2

-----------------------------------------------------------------------------
(* Who writes a row.                                                        *)

\* The next call of a run makes or edits the row.
Writes(w, d) ==
  LET c == Head(run[w].plan)
  IN  /\ run[w].pc = "calls" /\ run[w].plan # <<>> /\ run'[w] # run[w] /\ c.d = d
      /\ \/ c.rpc = "create" /\ Created(d, c.content)
         \/ c.rpc = "update" /\ Edited(d, c.content)
ByApp(d)   == \E c : IsContent(c) /\ c.by = App /\ Edited(d, c)
Written(d) == Unwritten(d) \/ Prepared(d) \/ ByApp(d) \/ \E w \in Run : Writes(w, d)

LEMMA TailDiffers == ASSUME NEW p, IsSeq(p), p # <<>> PROVE Tail(p) # p /\ <<>> # p
<1> DEFINE S == {p[i] : i \in DOMAIN p}
<1>1. p \in Seq(S)
  BY DEF IsSeq
<1> HIDE DEF S
<1> DEFINE n == Len(p)
           m == Len(Tail(p))
<1>2. m = n - 1
  BY <1>1, HeadTailProperties
<1>3. n \in Int
  BY <1>1, LenProperties
<1> HIDE DEF n, m
<1>4. m # n
  BY <1>2, <1>3
<1> QED BY <1>4 DEF n, m

LEMMA TailOf ==
  ASSUME NEW p, IsSeq(p), p # <<>>
  PROVE  /\ IsSeq(Tail(p)) /\ \A i \in DOMAIN Tail(p) : i + 1 \in DOMAIN p /\ Tail(p)[i] = p[i + 1]
         /\ 1 \in DOMAIN p /\ Head(p) = p[1]
<1> DEFINE S == {p[i] : i \in DOMAIN p}
<1>1. p \in Seq(S)
  BY DEF IsSeq
<1> HIDE DEF S
<1>2. Tail(p) \in Seq(S) /\ Len(Tail(p)) = Len(p) - 1 /\ \A i \in 1 .. Len(Tail(p)) : Tail(p)[i] = p[i + 1]
  BY <1>1, HeadTailProperties
<1>3. Len(p) \in Nat \ {0} /\ DOMAIN p = 1 .. Len(p) /\ DOMAIN Tail(p) = 1 .. Len(Tail(p))
  BY <1>1, <1>2, LenProperties, EmptySeq
<1>4. IsSeq(Tail(p))
  BY <1>2, SeqIsSeq
<1>5. ASSUME NEW i \in DOMAIN Tail(p) PROVE i + 1 \in DOMAIN p /\ Tail(p)[i] = p[i + 1]
  BY <1>2, <1>3, <1>5
<1>6. 1 \in DOMAIN p /\ Head(p) = p[1]
  BY <1>3
<1> QED BY <1>4, <1>5, <1>6

LEMMA DoWrites ==
  ASSUME RowsInv, NEW c, CanDo(c), Do(c)
  PROVE  \A d \in DraftId : \/ Unwritten(d)
                            \/ c.d = d /\ \/ c.rpc = "create" /\ Created(d, c.content)
                                          \/ c.rpc = "update" /\ Edited(d, c.content)
<1>1. CASE c.rpc \notin OnDraft
  <2>1. draft' = draft
    BY <1>1 DEF Do, pendingVars
  <2> QED BY <2>1, UnwrittenSame
<1>2. CASE c.rpc \in OnDraft
  <2>1. DoToDraft(c)
    BY <1>2 DEF Do
  <2>2. CASE c.rpc = "create"
    BY <2>1, <2>2, CreateWrites DEF DoToDraft
  <2>3. CASE c.rpc = "update"
    BY <2>1, <2>3, UpdateWrites DEF DoToDraft
  <2>4. CASE c.rpc \in {"confirm", "cancel", "undo", "calendar"}
    BY <2>1, <2>4, CallUnwritten DEF DoToDraft
  <2> QED BY <1>2, <2>2, <2>3, <2>4 DEF OnDraft
<1> QED BY <1>1, <1>2

LEMMA PendingWrites == ASSUME RowsInv, PendingStep PROVE \A d \in DraftId : Written(d)
<1>1. ASSUME NEW d \in DraftId, AppStep(d) PROVE \A f \in DraftId : Written(f)
  <2>1. CASE ConfirmPending(d) \/ CancelPending(d)
    BY <2>1, CallUnwritten DEF Written
  <2>2. ASSUME NEW k \in Simple, UpdatePending(d, [kind |-> k, by |-> App, cand |-> NoCandidates], FALSE)
        PROVE  \A f \in DraftId : Written(f)
    <3> DEFINE c == [kind |-> k, by |-> App, cand |-> NoCandidates]
    <3>1. IsContent(c) /\ c.by = App
      BY DEF IsContent, App
    <3>2. UpdatePending(d, c, FALSE)
      BY <2>2
    <3> HIDE DEF c
    <3> QED BY <3>1, <3>2, UpdateWrites DEF Written, ByApp
  <2> QED BY <1>1, <2>1, <2>2 DEF AppStep
<1>2. ASSUME NEW d \in DraftId, PrepareDraft(d) PROVE \A f \in DraftId : Written(f)
  BY <1>2, PrepareWrites DEF Written
<1>3. ASSUME NEW d \in DraftId, \/ ClaimDraft(d) \/ MarkPreviewed(d) \/ LoseDraftRun(d) \/ DraftLeaseLapses(d)
                                \/ ExecutionDue(d) \/ TimePasses(d)
      PROVE  \A f \in DraftId : Written(f)
  BY <1>3, WorkUnwritten DEF Written
<1>4. ASSUME NEW x \in Job, \/ \E d \in DraftId : ClaimConfirmed(x, d)
                            \/ StartExecution(x) \/ ExecuteOp(x) \/ FailOp(x) \/ CompleteJob(x) \/ FailJob(x) \/ CrashJob(x)
      PROVE  \A f \in DraftId : Written(f)
  BY <1>4, JobUnwritten DEF Written
<1>5. CASE SweepOverdue
  BY <1>5, ExpireUnwritten DEF Written
<1> QED BY <1>1, <1>2, <1>3, <1>4, <1>5 DEF PendingStep

LEMMA NextWrites ==
  ASSUME RowsInv, InboxInv, \A w \in Run : run[w].pc = "calls" => IsSeq(run[w].plan), [Next]_vars
  PROVE  \A d \in DraftId : Written(d)
<1>1. ASSUME draft' = draft PROVE \A d \in DraftId : Written(d)
  BY <1>1, UnwrittenSame DEF Written
<1>2. ASSUME NEW w \in Run, Read(w) PROVE \A d \in DraftId : Written(d)
  BY <1>1, <1>2, ExpireUnwritten DEF Read, pendingVars, Written
<1>3. ASSUME NEW w \in Run, run[w].pc = "calls", run[w].plan # <<>>, run'[w] # run[w],
             CanDo(Head(run[w].plan)), Do(Head(run[w].plan))
      PROVE  \A d \in DraftId : Written(d)
  BY <1>3, DoWrites DEF Written, Writes
<1>4. ASSUME NEW w \in Run, run[w].pc = "calls", run[w].plan # <<>>,
             Refused(w) \/ run' = [run EXCEPT ![w].plan = Tail(@)]
      PROVE  run'[w] # run[w]
  <2>1. Tail(run[w].plan) # run[w].plan /\ <<>> # run[w].plan
    BY <1>4, TailDiffers
  <2>2. PICK plan \in {<<>>, Tail(run[w].plan)} : \E pc : run' = Replanned(w, pc, plan)
    <3>1. CASE Refused(w)
      BY <1>4, <3>1, RefusedHandles
    <3>2. CASE run' = [run EXCEPT ![w].plan = Tail(@)]
      <4>1. run' = WithPlan(w, Tail(run[w].plan))
        BY <3>2 DEF WithPlan
      <4> QED BY <4>1, RunFields
    <3> QED BY <1>4, <3>1, <3>2
  <2>3. run'[w].plan = plan
    BY <2>2 DEF Replanned, InboxInv, Runs
  <2> QED BY <2>1, <2>2, <2>3
<1>5. ASSUME NEW w \in Run, CallServer(w) PROVE \A d \in DraftId : Written(d)
  BY <1>1, <1>3, <1>4, <1>5 DEF CallServer, pendingVars
<1>6. ASSUME NEW w \in Run, LoseAnswer(w) PROVE \A d \in DraftId : Written(d)
  BY <1>1, <1>3, <1>4, <1>6 DEF LoseAnswer, pendingVars
<1>7. CASE PendingStep
  BY <1>7, PendingWrites
<1>8. ASSUME \/ \E e \in Event : Say(e)
             \/ UNCHANGED <<pendingVars, commandVars>> \/ UNCHANGED pendingVars \/ UNCHANGED vars
      PROVE  draft' = draft
  BY <1>8 DEF Say, vars, pendingVars
<1> QED BY <1>1, <1>2, <1>5, <1>6, <1>7, <1>8 DEF Next

\* A job's place.
LEMMA JobPlaces == ASSUME RowsInv, [Next]_vars PROVE \A x \in Job : job'[x].pc \in {"idle", "check", "execute", "failing"}
<1>0. DOMAIN job = Job /\ \A x \in Job : IsJob(job[x]) /\ job[x].pc \in {"idle", "check", "execute", "failing"}
  BY DEF RowsInv, DraftInv, Shapes, RowTypes
<1>1. CASE job' = job
  BY <1>0, <1>1
<1>2. ASSUME NEW x \in Job, NEW j, job' = [job EXCEPT ![x] = j], j.pc \in {"idle", "check", "execute", "failing"}
      PROVE  \A y \in Job : job'[y].pc \in {"idle", "check", "execute", "failing"}
  BY <1>0, <1>2
<1>3. ASSUME NEW x \in Job, \E d \in DraftId : ClaimConfirmed(x, d)
      PROVE  \A y \in Job : job'[y].pc \in {"idle", "check", "execute", "failing"}
  BY <1>2, <1>3 DEF ClaimConfirmed
<1>4. ASSUME NEW x \in Job, StartExecution(x)
      PROVE  \A y \in Job : job'[y].pc \in {"idle", "check", "execute", "failing"}
  <2> DEFINE c == job[x].content
             refused == \/ c.kind = "unclear"
                        \/ c.kind \in Review /\ (Active(c) = {} \/ \E k \in Active(c) : c.cand[k] = "missing")
             pc == IF refused THEN "failing" ELSE "execute"
             todo == IF refused THEN <<>>
                     ELSE IF c.kind \notin Review THEN <<job[x].draft>>
                     ELSE PartOf(job[x].draft, c, "c1") \o PartOf(job[x].draft, c, "c2")
             j == [[job[x] EXCEPT !.pc = pc] EXCEPT !.todo = todo]
  <2>1. job' = [job EXCEPT ![x] = [@ EXCEPT !.pc = pc, !.todo = todo]]
    BY <1>4 DEF StartExecution
  <2>2. pc \in {"failing", "execute"}
    OBVIOUS
  <2> HIDE DEF pc, todo
  <2>3. job' = [job EXCEPT ![x] = j]
    BY <1>0, <2>1
  <2>4. j.pc = pc
    BY <1>0 DEF IsJob
  <2> HIDE DEF j
  <2> QED BY <1>2, <2>2, <2>3, <2>4
<1>5. ASSUME NEW x \in Job, NEW v, job' = [job EXCEPT ![x].todo = v] \/ job' = [job EXCEPT ![x].pc = "failing"]
      PROVE  \A y \in Job : job'[y].pc \in {"idle", "check", "execute", "failing"}
  <2>1. PICK j \in {[job[x] EXCEPT !.todo = v], [job[x] EXCEPT !.pc = "failing"]} : job' = [job EXCEPT ![x] = j]
    BY <1>5
  <2>2. j.pc \in {job[x].pc, "failing"}
    BY <1>0, <2>1 DEF IsJob
  <2> QED BY <1>0, <1>2, <2>1, <2>2
<1>6. ASSUME NEW x \in Job, ExecuteOp(x) \/ FailOp(x)
      PROVE  \A y \in Job : job'[y].pc \in {"idle", "check", "execute", "failing"}
  BY <1>5, <1>6 DEF ExecuteOp, FailOp
<1>7. ASSUME NEW x \in Job, CompleteJob(x) \/ FailJob(x) \/ CrashJob(x)
      PROVE  \A y \in Job : job'[y].pc \in {"idle", "check", "execute", "failing"}
  BY <1>2, <1>7 DEF CompleteJob, FailJob, CrashJob, NoJob
<1>8. PendingStep => \/ job' = job
                     \/ \E x \in Job : \/ \E d \in DraftId : ClaimConfirmed(x, d)
                                       \/ StartExecution(x) \/ ExecuteOp(x) \/ FailOp(x)
                                       \/ CompleteJob(x) \/ FailJob(x) \/ CrashJob(x)
  BY DEF PendingStep, AppStep, ConfirmPending, CancelPending, UpdatePending, ClaimDraft, PrepareDraft, MarkPreviewed,
         LoseDraftRun, DraftLeaseLapses, ExecutionDue, TimePasses, SweepOverdue
<1>9. ASSUME NEW c, Do(c), CanDo(c) PROVE job' = job
  <2>1. DoToDraft(c) /\ c.rpc \in OnDraft => job' = job
    BY DEF DoToDraft, OnDraft, CreatePending, ConfirmPending, CancelPending, UpdatePending, UndoQuickShopping,
           ChooseCalendar
  <2> QED BY <1>9, <2>1 DEF Do, pendingVars
<1>10. ASSUME NEW w \in Run, Read(w) \/ CallServer(w) \/ LoseAnswer(w) PROVE job' = job
  BY <1>9, <1>10 DEF Read, CallServer, LoseAnswer, pendingVars, ExpireDrafts
<1>11. ASSUME \/ \E e \in Event : Say(e)
              \/ UNCHANGED <<pendingVars, commandVars>> \/ UNCHANGED pendingVars \/ UNCHANGED vars
       PROVE  job' = job
  BY <1>11 DEF Say, vars, pendingVars
<1> QED BY <1>1, <1>3, <1>4, <1>6, <1>7, <1>8, <1>10, <1>11 DEF Next

LEMMA RowTypesStep ==
  ASSUME RowsInv, \A d \in DraftId : Written(d), [Next]_vars
  PROVE  RowTypes'
<1>1. ASSUME NEW d \in DraftId
      PROVE  draft'[d].status \in RowStatus /\ draft'[d].mark \in Event \cup {0}
  BY DEF RowsInv, RowTypes, Written, Unwritten, Prepared, ByApp, Writes, Created, Edited, RowStatus
<1> QED BY <1>1, JobPlaces DEF RowTypes

LEMMA RowsInvInit == Init => RowsInv
<1> SUFFICES ASSUME Init PROVE RowsInv
  OBVIOUS
<1>1. RowTypes
  BY DEF Init, PendingInit, RowTypes, RowStatus, NoDraft, NoJob
<1> QED BY <1>1, DraftInvInit DEF RowsInv

-----------------------------------------------------------------------------
(* What a run has still to call.                                            *)

\* The item's event is under way, under the item's lease.
Underway(x) == inbox[x.event].attempts = x.token /\ Live(x.event)

\* What an edit retains is no older than the row's content, unless a later
\* event has been at the row.
Retained(c, x) == /\ ~Is(c.d, {"absent"})
                  /\ Underway(x) => \/ draft[c.d].content.by <= 0
                                    \/ draft[c.d].content.by <= c.content.by
                                    \/ draft[c.d].mark >= x.event
PlannedCall(c, x) ==
  /\ c.rpc = "create" => c.d \in DraftId /\ c.d[1] = x.event /\ IsContent(c.content)
  /\ c.rpc = "update" => /\ About(c.d, x.event) /\ IsContent(c.content)
                         /\ c.content.by = x.event \/ Retained(c, x)
PlannedAll(p, x) == IsSeq(p) /\ \A i \in DOMAIN p : PlannedCall(p[i], x)
Plans == \A w \in Run : run[w].pc = "calls" => PlannedAll(run[w].plan, Item(w))

LineInv == RowsInv /\ InboxInv /\ Contents /\ MessageInv /\ Plans

LEMMA LineWritten == ASSUME LineInv, [Next]_vars PROVE \A d \in DraftId : Written(d)
BY NextWrites DEF LineInv, Plans, PlannedAll

\* What was said stays said.
LEMMA SaidStays ==
  ASSUME MessageInv, [Next]_vars, NEW e \in Event, Sent(e)
  PROVE  message'[e] = message[e] /\ Sent(e)'
<1>1. message' = message \/ \E f \in Event : \E c : ~Sent(f) /\ message' = [message EXCEPT ![f] = c]
  <2>1. ASSUME NEW f \in Event, Say(f) PROVE \E c : ~Sent(f) /\ message' = [message EXCEPT ![f] = c]
    BY <2>1 DEF Say, Send
  <2>2. PendingStep \/ HouseholdStep => message' = message
    BY PendingAside DEF HouseholdStep
  <2>3. InboxStep => message' = message
    BY DEF InboxStep, Receive, LeaseLapses, RetryDue, ClaimBatch, Complete, Fail, Throw, Crash
  <2>4. ASSUME NEW w \in Run, Read(w) \/ CallServer(w) \/ LoseAnswer(w) PROVE message' = message
    BY <2>4 DEF Read, CallServer, LoseAnswer
  <2> QED BY <2>1, <2>2, <2>3, <2>4 DEF Next, vars, inboxVars
<1> QED BY <1>1 DEF Sent, MessageInv

LEMMA AboutStays ==
  ASSUME MessageInv, [Next]_vars, NEW e \in Event, Sent(e), NEW d, About(d, e)
  PROVE  About(d, e)'
BY SaidStays DEF About, Owner, From, DraftId

LEMMA UnderwayBefore ==
  ASSUME InboxInv, InboxAges, NEW x \in Queued, x.token <= inbox[x.event].attempts, Underway(x)'
  PROVE  Underway(x)
<1>1. x.event \in Event /\ x.token \in Nat
  BY DEF Queued
<1>2. inbox[x.event].attempts \in Nat /\ inbox'[x.event].attempts \in Nat
  BY <1>1 DEF InboxInv, InboxAges, Row
<1> QED BY <1>1, <1>2 DEF InboxAges, Underway, Live

\* The event under way is the one an edit is made for.
LEMMA EditedFor ==
  ASSUME NEW x \in Queued, NEW d, About(d, x.event), Underway(x), NEW c, Edited(d, c)
  PROVE  draft'[d].mark = x.event
BY DEF Queued, About, Underway, Edited, Stamp

LEMMA PlannedStays ==
  ASSUME LineInv, [Next]_vars, NEW x \in Queued, Sent(x.event), x.token <= inbox[x.event].attempts,
         NEW c, PlannedCall(c, x)
  PROVE  PlannedCall(c, x)'
<1>1. x.event \in Event /\ InboxAges
  BY InboxInvStep DEF Queued, LineInv
<1>2. CASE c.rpc # "update"
  BY <1>2 DEF PlannedCall
<1>3. CASE c.rpc = "update"
  <2> DEFINE d == c.d
  <2>1. About(d, x.event) /\ IsContent(c.content) /\ (c.content.by = x.event \/ Retained(c, x))
    BY <1>3 DEF PlannedCall
  <2>2. d \in DraftId /\ About(d, x.event)'
    BY <1>1, <2>1, AboutStays DEF LineInv, About
  <2>3. ASSUME Retained(c, x) PROVE Retained(c, x)'
    <3>1. Written(d) /\ ~Is(d, {"absent"})
      BY <2>2, <2>3, LineWritten DEF Retained
    <3>2. draft'[d].status # "absent"
      BY <3>1 DEF Written, Unwritten, Prepared, ByApp, Writes, Created, Edited, Is
    <3>3. ASSUME Underway(x)'
          PROVE  \/ draft'[d].content.by <= 0 \/ draft'[d].content.by <= c.content.by
                 \/ draft'[d].mark >= x.event
      <4>1. Underway(x)
        BY <3>3, <1>1, UnderwayBefore DEF LineInv
      <4>2. CASE Unwritten(d)
        BY <2>3, <4>1, <4>2 DEF Unwritten, Retained
      <4>3. CASE Prepared(d)
        BY <4>3 DEF Prepared, Worker
      <4>4. ASSUME NEW b, Edited(d, b) PROVE draft'[d].mark >= x.event
        <5>1. draft'[d].mark = x.event
          BY <2>1, <4>1, <4>4, EditedFor
        <5>2. x.event \in Nat
          BY <1>1, EventAssumption
        <5> HIDE DEF d
        <5> QED BY <5>1, <5>2
      <4> QED BY <3>1, <4>2, <4>3, <4>4 DEF Written, ByApp, Writes, Created
    <3> QED BY <3>2, <3>3 DEF Retained, Is
  <2> QED BY <1>3, <2>1, <2>2, <2>3 DEF PlannedCall
<1> QED BY <1>2, <1>3

\* A run makes the calls it has planned, one after another.
LEMMA RunMoves ==
  ASSUME InboxInv, [Next]_vars, NEW w \in Run, run'[w].pc = "calls"
  PROVE  \/ Read(w)
         \/ /\ run[w].pc = "calls" /\ run'[w].queue = run[w].queue
            /\ \/ run'[w].plan \in {<<>>, run[w].plan}
               \/ run[w].plan # <<>> /\ run'[w].plan = Tail(run[w].plan)
<1> DEFINE P == \/ Read(w)
                \/ /\ run[w].pc = "calls" /\ run'[w].queue = run[w].queue
                   /\ \/ run'[w].plan \in {<<>>, run[w].plan}
                      \/ run[w].plan # <<>> /\ run'[w].plan = Tail(run[w].plan)
<1>0. DOMAIN run = Run
  BY DEF InboxInv, Runs
<1>1. run'[w] = run[w] => P
  OBVIOUS
<1>2. ASSUME NEW v \in Run, NEW r, run' = [run EXCEPT ![v] = r], r.pc # "calls" PROVE P
  BY <1>0, <1>2
<1>3. ASSUME NEW v \in Run, ClaimBatch(v) PROVE P
  <2>1. PICK r : Turns(v, r) /\ r.plan = <<>> /\ r.pc = "read"
    BY <1>3, BatchTurns
  <2> QED BY <1>2, <2>1 DEF Turns
<1>4. ASSUME NEW v \in Run, Complete(v) \/ Fail(v) \/ Crash(v) PROVE P
  <2>1. NextItem(v).pc # "calls" /\ Idle.pc # "calls"
    BY DEF NextItem, Idle
  <2>2. run' = [run EXCEPT ![v] = NextItem(v)] \/ run' = [run EXCEPT ![v] = Idle]
    BY <1>4 DEF Complete, Fail, Crash
  <2> QED BY <1>2, <2>1, <2>2
<1>5. ASSUME NEW v \in Run, Throw(v) PROVE P
  <2>1. run' = Replanned(v, "failing", run[v].plan)
    BY <1>5, RunFields DEF Throw, At
  <2> QED BY <1>2, <2>1 DEF Replanned
<1>6. ASSUME NEW v \in Run, v # w, Read(v) \/ CallServer(v) \/ LoseAnswer(v) PROVE P
  <2>1. \E pc, plan : Handles(v, pc, plan)
    BY <1>6, HandlerHandles
  <2> QED BY <1>0, <1>6, <2>1 DEF Handles, Replanned
<1>7. ASSUME run[w].pc = "calls", run[w].plan # <<>>, Refused(w) \/ run' = [run EXCEPT ![w].plan = Tail(@)] PROVE P
  <2>1. PICK plan \in {<<>>, Tail(run[w].plan)} : \E pc : run' = Replanned(w, pc, plan)
    <3>1. CASE Refused(w)
      BY <1>7, <3>1, RefusedHandles
    <3>2. CASE run' = [run EXCEPT ![w].plan = Tail(@)]
      <4>1. run' = WithPlan(w, Tail(run[w].plan))
        BY <3>2 DEF WithPlan
      <4> QED BY <4>1, RunFields
    <3> QED BY <1>7, <3>1, <3>2
  <2> QED BY <1>0, <1>7, <2>1 DEF Replanned
<1>8. CASE CallServer(w) \/ LoseAnswer(w)
  BY <1>7, <1>8 DEF CallServer, LoseAnswer
<1>9. ASSUME \/ \E e \in Event : Say(e) \/ Receive(e) \/ LeaseLapses(e) \/ RetryDue(e)
             \/ PendingStep \/ HouseholdStep \/ UNCHANGED vars
      PROVE  run' = run
  BY <1>9, PendingAside DEF Say, Receive, LeaseLapses, RetryDue, Aside, HouseholdStep, vars, inboxVars
<1>10. CASE InboxStep
  BY <1>1, <1>3, <1>4, <1>5, <1>9, <1>10 DEF InboxStep
<1> QED BY <1>1, <1>6, <1>8, <1>9, <1>10 DEF Next

LEMMA ReadPlans ==
  ASSUME LineInv, [Next]_vars, NEW w \in Run, Read(w)
  PROVE  \E p, x : run'[w].plan = p /\ Item(w)' = x /\ PlannedAll(p, x)'
<1>1. PICK x : x = Item(w)
  OBVIOUS
<1> DEFINE e == x.event
<1>2. PICK plan : /\ run' = Rewritten(w, "calls", plan)
                  /\ IF message[e].word \in Fixed THEN plan \in MenuWord(e)
                     ELSE IF message[e].word \notin Texts THEN plan \in Postback(e)
                     ELSE plan \in Fallback(e) \cup Understood(e)
  BY <1>1 DEF Read, Rewritten
<1>3. x \in Queued /\ e \in Event /\ inbox[e].status # "absent"
  BY <1>1, ItemQueued DEF Read, LineInv
<1>4. Sent(e) /\ Contents /\ MessageInv /\ RowsInv
  BY <1>3 DEF LineInv, MessageInv
<1>5. FirstPlan(plan, e)
  BY <1>2, <1>3, <1>4, MenuFirst, PostbackFirst, TextFirst
<1>6. run' = Replanned(w, "calls", plan)
  BY <1>2, RunFields DEF LineInv
<1>7. run'[w].plan = plan /\ run'[w].queue = run[w].queue
  BY <1>6 DEF Replanned, LineInv, InboxInv, Runs
<1>8. Item(w)' = x
  BY <1>1, <1>7 DEF Item
<1>9. \A d \in DraftId : Unwritten(d)
  BY <1>4, ExpireUnwritten, UnwrittenSame DEF Read, pendingVars
<1>10. ASSUME NEW c, FirstCall(c, e) PROVE PlannedCall(c, x)'
  <2>1. CASE c.rpc = "update"
    <3>1. About(c.d, e)
      BY <1>10, <2>1 DEF FirstCall
    <3> DEFINE d == c.d
    <3>2. About(d, e)' /\ d \in DraftId
      BY <1>3, <1>4, <3>1, AboutStays DEF About
    <3>3. ASSUME ~Is(d, {"absent"}), c.content.by = draft[d].content.by PROVE Retained(c, x)'
      <4>1. draft'[d].content.by = draft[d].content.by /\ draft'[d].status # "absent"
        BY <1>9, <3>2, <3>3 DEF Unwritten, Is
      <4>2. c.content.by \in Int
        BY <1>10, <2>1 DEF FirstCall, IsContent
      <4> QED BY <3>3, <4>1, <4>2 DEF Retained, Is
    <3> QED BY <1>10, <2>1, <3>2, <3>3 DEF FirstCall, PlannedCall
  <2> QED BY <1>10, <2>1 DEF FirstCall, PlannedCall
<1>11. PlannedAll(plan, x)'
  BY <1>5, <1>10 DEF FirstPlan, PlannedAll
<1> QED BY <1>7, <1>8, <1>11

LEMMA KeepsPlans ==
  ASSUME LineInv, [Next]_vars, NEW w \in Run, run[w].pc = "calls", run'[w].queue = run[w].queue,
         \/ run'[w].plan \in {<<>>, run[w].plan}
         \/ run[w].plan # <<>> /\ run'[w].plan = Tail(run[w].plan)
  PROVE  \E p, x : run'[w].plan = p /\ Item(w)' = x /\ PlannedAll(p, x)'
<1>1. PICK x, p : x = Item(w) /\ p = run'[w].plan
  OBVIOUS
<1>2. x \in Queued /\ x.event \in Event /\ inbox[x.event].status # "absent" /\ x.token <= inbox[x.event].attempts
  BY <1>1, ItemQueued DEF LineInv
<1>3. Sent(x.event)
  BY <1>2 DEF LineInv, MessageInv
<1>4. Item(w)' = x
  BY <1>1 DEF Item
<1>5. PlannedAll(run[w].plan, x)
  BY <1>1 DEF LineInv, Plans
<1>6. ASSUME NEW c, PlannedCall(c, x) PROVE PlannedCall(c, x)'
  BY <1>2, <1>3, <1>6, PlannedStays
<1>7. IsSeq(<<>>) /\ DOMAIN <<>> = {}
  <2>1. <<>> \in Seq({}) /\ Len(<<>>) = 0
    BY EmptySeq
  <2>2. DOMAIN <<>> = 1 .. 0
    BY <2>1, LenProperties
  <2>3. IsSeq(<<>>)
    BY <2>1, SeqIsSeq
  <2>4. 1 .. 0 = {}
    OBVIOUS
  <2> QED BY <2>2, <2>3, <2>4
<1>8. IsSeq(p) /\ \A i \in DOMAIN p : PlannedCall(p[i], x)
  <2>1. CASE p = <<>>
    BY <1>7, <2>1
  <2>2. CASE p = run[w].plan
    BY <1>5, <2>2 DEF PlannedAll
  <2>3. CASE run[w].plan # <<>> /\ p = Tail(run[w].plan)
    <3>1. PICK q : q = run[w].plan
      OBVIOUS
    <3>2. IsSeq(q) /\ \A i \in DOMAIN q : PlannedCall(q[i], x)
      BY <1>5, <3>1 DEF PlannedAll
    <3>3. IsSeq(p) /\ \A i \in DOMAIN p : i + 1 \in DOMAIN q /\ p[i] = q[i + 1]
      BY <2>3, <3>1, <3>2, TailOf
    <3> QED BY <3>2, <3>3
  <2> QED BY <1>1, <2>1, <2>2, <2>3
<1>9. PlannedAll(p, x)'
  BY <1>6, <1>8 DEF PlannedAll
<1> QED BY <1>1, <1>4, <1>9

LEMMA PlansStep == ASSUME LineInv, [Next]_vars PROVE Plans'
<1>1. ASSUME NEW w \in Run, run'[w].pc = "calls"
      PROVE  \E p, x : run'[w].plan = p /\ Item(w)' = x /\ PlannedAll(p, x)'
  BY <1>1, RunMoves, ReadPlans, KeepsPlans DEF LineInv
<1> QED BY <1>1 DEF Plans

\* A call that is made is one that was planned.
LEMMA WritesPlanned ==
  ASSUME LineInv, NEW w \in Run, NEW d, Writes(w, d)
  PROVE  LET c == Head(run[w].plan)
             x == Item(w)
         IN  /\ c.d = d /\ PlannedCall(c, x)
             /\ x \in Queued /\ x.event \in Event /\ Sent(x.event)
<1>1. run[w].pc = "calls" /\ run[w].plan # <<>>
  BY DEF Writes
<1>2. PlannedAll(run[w].plan, Item(w)) /\ InboxInv /\ MessageInv
  BY <1>1 DEF LineInv, Plans
<1>3. Item(w) \in Queued /\ Item(w).event \in Event /\ Sent(Item(w).event)
  BY <1>1, <1>2, ItemQueued DEF MessageInv
<1>4. PICK p : p = run[w].plan
  OBVIOUS
<1>5. 1 \in DOMAIN p /\ Head(p) = p[1]
  BY <1>1, <1>2, <1>4, TailOf DEF PlannedAll
<1>6. PlannedCall(Head(run[w].plan), Item(w))
  BY <1>2, <1>4, <1>5 DEF PlannedAll
<1> QED BY <1>3, <1>6 DEF Writes

LEMMA ContentsStep == ASSUME LineInv, [Next]_vars PROVE Contents'
<1> SUFFICES ASSUME NEW d \in DraftId
             PROVE  /\ IsContent(draft'[d].content)
                    /\ IF draft'[d].status = "absent" THEN draft'[d].mark = 0 ELSE Sent(d[1])'
  BY DEF Contents, IsContent, Is
<1>1. d[1] \in Event
  BY DEF DraftId
<1>2. Sent(d[1]) => Sent(d[1])'
  BY <1>1, SaidStays DEF LineInv
<1>3. IsContent(draft[d].content) /\ IF Is(d, {"absent"}) THEN draft[d].mark = 0 ELSE Sent(d[1])
  BY DEF LineInv, Contents
<1>4. CASE Unwritten(d)
  BY <1>2, <1>3, <1>4 DEF Unwritten, Is
<1>5. CASE Prepared(d)
  <2>1. PICK k : draft'[d].content = [kind |-> k, by |-> Worker, cand |-> NoCandidates]
    BY <1>5 DEF Prepared
  <2>2. IsContent(draft'[d].content)
    BY <2>1 DEF IsContent, Worker
  <2> QED BY <1>2, <1>3, <1>5, <2>2 DEF Prepared, Is
<1>6. ASSUME NEW c, IsContent(c), Edited(d, c)
      PROVE  /\ IsContent(draft'[d].content)
             /\ IF draft'[d].status = "absent" THEN draft'[d].mark = 0 ELSE Sent(d[1])'
  BY <1>2, <1>3, <1>6 DEF Edited, Is
<1>7. ASSUME NEW w \in Run, Writes(w, d)
      PROVE  /\ IsContent(draft'[d].content)
             /\ IF draft'[d].status = "absent" THEN draft'[d].mark = 0 ELSE Sent(d[1])'
  <2> DEFINE c == Head(run[w].plan)
  <2>1. PlannedCall(c, Item(w)) /\ Sent(Item(w).event) /\ c.d = d
    BY <1>7, WritesPlanned
  <2>2. CASE c.rpc = "update"
    <3>1. IsContent(c.content) /\ Edited(d, c.content)
      BY <1>7, <2>1, <2>2 DEF Writes, PlannedCall
    <3> QED BY <1>6, <3>1
  <2>3. CASE c.rpc = "create"
    <3>1. IsContent(c.content) /\ d[1] = Item(w).event /\ Created(d, c.content)
      BY <1>7, <2>1, <2>3 DEF Writes, PlannedCall
    <3>2. Sent(d[1])'
      BY <1>2, <2>1, <3>1
    <3> QED BY <3>1, <3>2 DEF Created
  <2> QED BY <1>7, <2>2, <2>3 DEF Writes
<1> QED BY <1>4, <1>5, <1>6, <1>7, LineWritten DEF Written, ByApp

\* An event is in the inbox once it was sent.
LEMMA InboxOfSent ==
  ASSUME InboxInv, [Next]_vars, NEW e \in Event, inbox'[e].status # "absent"
  PROVE  inbox[e].status # "absent" \/ Sent(e)
<1>0. inbox \in [Event -> Row]
  BY DEF InboxInv
<1>1. CASE inbox' = inbox
  BY <1>1
<1>2. ASSUME NEW f \in Event, NEW r, inbox' = [inbox EXCEPT ![f] = r], inbox[f].status # "absent" \/ Sent(f)
      PROVE  inbox[e].status # "absent" \/ Sent(e)
  BY <1>0, <1>2
<1>3. ASSUME NEW f \in Event, Receive(f) \/ LeaseLapses(f) \/ RetryDue(f)
      PROVE  inbox[e].status # "absent" \/ Sent(e)
  BY <1>2, <1>3 DEF Receive, LeaseLapses, RetryDue, Live
<1>4. ASSUME NEW w \in Run, ClaimBatch(w) PROVE inbox[e].status # "absent" \/ Sent(e)
  BY <1>0, <1>4 DEF ClaimBatch, Batch, Claimable
<1>5. ASSUME NEW w \in Run, Complete(w) \/ Fail(w) PROVE inbox[e].status # "absent" \/ Sent(e)
  <2>1. Item(w).event \in Event /\ inbox[Item(w).event].status # "absent"
    BY <1>5, ItemQueued DEF Complete, Fail
  <2> DEFINE f == Item(w).event
  <2>2. e # f => inbox'[e] = inbox[e]
    BY <1>0, <1>5, <2>1 DEF Complete, Fail
  <2> QED BY <2>1, <2>2
<1>6. ASSUME NEW w \in Run, Throw(w) \/ Crash(w) \/ Read(w) \/ CallServer(w) \/ LoseAnswer(w) PROVE inbox' = inbox
  BY <1>6 DEF Throw, Crash, Read, CallServer, LoseAnswer
<1>7. ASSUME (\E f \in Event : Say(f)) \/ PendingStep \/ HouseholdStep \/ UNCHANGED vars PROVE inbox' = inbox
  BY <1>7, PendingAside DEF Say, Aside, HouseholdStep, vars, inboxVars
<1> QED BY <1>1, <1>3, <1>4, <1>5, <1>6, <1>7 DEF Next, InboxStep

\* A tap is about a row of the one who taps.
LEMMA SayAbout ==
  ASSUME LineInv, [Next]_vars, NEW e \in Event, Say(e), message'[e].word \in RowTaps
  PROVE  \E d : message'[e].target = d /\ About(d, e)'
<1>1. PICK s, word, target : ~Sent(e) /\ message' = [message EXCEPT ![e] = [from |-> s, word |-> word, target |-> target]]
        /\ (word \in RowTaps => target \in Mine(s))
  <2>1. PICK s, word :
          \/ word \in Texts \cup Fixed \cup {"purchase_all"} /\ Send(e, [from |-> s, word |-> word, target |-> <<>>])
          \/ \E d \in Mine(s) : Send(e, [from |-> s, word |-> word, target |-> d])
          \/ word \in {"complete", "purchase"} \cup Taps /\ \E t : Send(e, [from |-> s, word |-> word, target |-> t])
    BY DEF Say
  <2>2. word \in Texts \cup Fixed \cup {"purchase_all", "complete", "purchase"} \cup Taps => word \notin RowTaps
    BY DEF RowTaps, Texts, Fixed, Taps
  <2>3. \/ word \notin RowTaps /\ \E t : Send(e, [from |-> s, word |-> word, target |-> t])
        \/ \E d \in Mine(s) : Send(e, [from |-> s, word |-> word, target |-> d])
    BY <2>1, <2>2
  <2> QED BY <2>3 DEF Send
<1>2. DOMAIN message = Event /\ Contents /\ MessageInv
  BY DEF LineInv, MessageInv
<1>3. message'[e] = [from |-> s, word |-> word, target |-> target]
  BY <1>1, <1>2
<1>4. target \in Mine(s) /\ message'[e].target = target /\ message'[e].from = s
  BY <1>1, <1>3
<1>5. target \in DraftId /\ target[1] \in Event /\ Sent(target[1]) /\ Owner(target) = s
  BY <1>2, <1>4 DEF Mine, Contents, DraftId
<1>6. message'[target[1]] = message[target[1]] /\ Sent(target[1])'
  BY <1>2, <1>5, SaidStays
<1>7. About(target, e)'
  BY <1>4, <1>5, <1>6 DEF About, Owner, From
<1> QED BY <1>4, <1>7

LEMMA MessagesStep == ASSUME LineInv, [Next]_vars PROVE MessageInv'
<1>0. MessageInv /\ InboxInv /\ DOMAIN message = Event
  BY DEF LineInv, MessageInv
<1>1. message' = message \/ \E f \in Event : Say(f)
  <2>1. PendingStep \/ HouseholdStep => message' = message
    BY PendingAside DEF HouseholdStep
  <2>2. InboxStep => message' = message
    BY DEF InboxStep, Receive, LeaseLapses, RetryDue, ClaimBatch, Complete, Fail, Throw, Crash
  <2>3. ASSUME NEW w \in Run, Read(w) \/ CallServer(w) \/ LoseAnswer(w) PROVE message' = message
    BY <2>3 DEF Read, CallServer, LoseAnswer
  <2> QED BY <2>1, <2>2, <2>3 DEF Next, vars, inboxVars
<1>2. ASSUME NEW f \in Event, Say(f) PROVE \E c : message' = [message EXCEPT ![f] = c]
  BY <1>2 DEF Say, Send
<1>3. DOMAIN message' = Event
  BY <1>0, <1>1, <1>2
<1>4. ASSUME NEW e \in Event, inbox'[e].status # "absent" PROVE Sent(e)'
  <2>1. Sent(e)
    BY <1>0, <1>4, InboxOfSent DEF MessageInv
  <2> QED BY <1>0, <2>1, SaidStays
<1>5. ASSUME NEW e \in Event, message'[e].word \in RowTaps
      PROVE  \E d : message'[e].target = d /\ About(d, e)'
  <2>1. CASE message'[e] = message[e]
    <3>1. PICK d : d = message[e].target
      OBVIOUS
    <3>2. About(d, e)
      BY <1>0, <1>5, <2>1, <3>1 DEF MessageInv
    <3>3. Sent(e)
      <4>1. NotSent.word \notin RowTaps
        BY DEF NotSent, RowTaps
      <4> QED BY <1>5, <2>1, <4>1 DEF Sent
    <3>4. About(d, e)'
      BY <1>0, <3>2, <3>3, AboutStays
    <3> QED BY <2>1, <3>1, <3>4
  <2>2. CASE Say(e)
    BY <1>5, <2>2, SayAbout
  <2>3. ASSUME NEW f \in Event, f # e, Say(f) PROVE message'[e] = message[e]
    BY <1>0, <1>2, <2>3
  <2> QED BY <1>1, <2>1, <2>2, <2>3
<1> QED BY <1>3, <1>4, <1>5 DEF MessageInv

LEMMA LineInvStep == LineInv /\ [Next]_vars => LineInv'
<1> SUFFICES ASSUME LineInv, [Next]_vars PROVE LineInv'
  OBVIOUS
<1>1. RowsInv'
  BY LineWritten, RowTypesStep, DraftInvStep DEF LineInv, RowsInv
<1>2. InboxInv'
  BY InboxInvStep DEF LineInv
<1> QED BY <1>1, <1>2, ContentsStep, MessagesStep, PlansStep DEF LineInv

LEMMA LineInvInit == Init => LineInv
<1> SUFFICES ASSUME Init PROVE LineInv
  OBVIOUS
<1>1. Contents
  <2>1. ASSUME NEW d \in DraftId PROVE draft[d] = NoDraft
    BY DEF Init, PendingInit
  <2>2. NoDraft.content = NoContent /\ NoDraft.status = "absent" /\ NoDraft.mark = 0
    BY DEF NoDraft
  <2>3. IsContent(NoContent)
    BY DEF IsContent, NoContent
  <2> QED BY <2>1, <2>2, <2>3 DEF Contents, Is
<1>2. MessageInv
  BY DEF Init, InboxInit, MessageInv, NotSent, NoRow, RowTaps
<1>3. Plans
  BY DEF Init, InboxInit, Plans, Idle
<1> QED BY <1>1, <1>2, <1>3, RowsInvInit, InboxInvInit DEF LineInv

-----------------------------------------------------------------------------
\* The inbox, the runs, what is left of the budgets, the rows, the executions
\* and the tasks and items keep to their types, and no task is changed more
\* often than its revisions allow.
THEOREM LineTypes == Spec => []TypeOK
<1>1. LineInv /\ ObjectInv => TypeOK
  <2> SUFFICES ASSUME LineInv, ObjectInv PROVE TypeOK
    OBVIOUS
  <2>1. InboxTypeOK
    <3>1. ASSUME NEW k \in DOMAIN left PROVE left[k] \in 0 .. story[k]
      BY DEF LineInv, InboxInv, Budgets
    <3> QED BY <3>1 DEF LineInv, InboxInv, Runs, IsRun, RunPc, InboxTypeOK
  <2>2. \A d \in DraftId : /\ draft[d].status \in {"absent", "draft", "executing", "confirmed"} \cup Closed
                           /\ draft[d].mark \in Event \cup {0}
    BY DEF LineInv, RowsInv, RowTypes, RowStatus
  <2>3. \A x \in Job : job[x].pc \in {"idle", "check", "execute", "failing"}
    BY DEF LineInv, RowsInv, RowTypes
  <2>4. ASSUME NEW t \in Target PROVE object[t].status \in ObjectStatus /\ object[t].revision \in 1 .. MaxRevision
    <3>1. IsObject(object[t]) /\ object[t].revision <= MaxRevision /\ MaxRevision \in Nat
      BY TargetAssumption DEF ObjectInv, Objects
    <3> QED BY <3>1 DEF IsObject
  <2> QED BY <2>1, <2>2, <2>3, <2>4 DEF TypeOK
<1> QED BY <1>1, LineInvInit, LineInvStep, ObjectInvInit, ObjectInvStep, PTL DEF Spec

\* A correction takes effect in the place it was written at: a call made in
\* time is stamped by its own event, which is newer than every correction of
\* the row, and what an edit retains of the row is what stands in it.
THEOREM CorrectionsAreOrdered == Spec => CorrectionsInOrder
<1>1. ASSUME LineInv, [Next]_vars, NEW d \in DraftId, Corrected(d), draft'[d].content.by > 0
      PROVE  \/ draft'[d].content.by >= draft[d].content.by
             \/ \E w \in Run : run'[w] # run[w] /\ ~OnTime(w)
  <2>1. /\ draft[d].content.by \in Int /\ draft[d].mark \in Nat
        /\ 1 <= draft[d].content.by /\ draft[d].content.by <= draft[d].mark
    <3>1. draft[d].mark \in Nat
      <4>1. draft[d].mark \in Event \cup {0}
        BY <1>1 DEF LineInv, RowsInv, RowTypes
      <4>2. ASSUME NEW n \in Event \cup {0} PROVE n \in Nat
        BY EventAssumption
      <4> QED BY <4>1, <4>2
    <3> QED BY <1>1, <3>1 DEF Corrected
  <2>2. CASE Unwritten(d)
    BY <2>1, <2>2 DEF Unwritten
  <2>3. CASE Prepared(d)
    BY <1>1, <2>3 DEF Prepared, Worker
  <2>4. CASE ByApp(d)
    BY <1>1, <2>4 DEF ByApp, Edited, App
  <2>5. ASSUME NEW w \in Run, Writes(w, d), OnTime(w) PROVE draft'[d].content.by >= draft[d].content.by
    <3> DEFINE c == Head(run[w].plan)
               x == Item(w)
    <3>1. c.d = d /\ PlannedCall(c, x) /\ x \in Queued /\ x.event \in Event
      BY <1>1, <2>5, WritesPlanned
    <3>2. Underway(x)
      BY <2>5 DEF OnTime, Holds, Underway
    <3>3. CASE c.rpc = "create"
      <4>1. Created(d, c.content)
        BY <2>5, <3>3 DEF Writes
      <4> QED BY <1>1, <2>1, <4>1 DEF Created, LineInv, Contents
    <3>4. CASE c.rpc = "update"
      <4>1. Edited(d, c.content) /\ About(d, x.event) /\ IsContent(c.content)
              /\ (c.content.by = x.event \/ Retained(c, x))
        BY <2>5, <3>1, <3>4 DEF Writes, PlannedCall
      <4> HIDE DEF x
      <4>2. draft'[d].mark = x.event
        BY <3>1, <3>2, <4>1, EditedFor
      <4>3. draft'[d].content = c.content /\ x.event > draft[d].mark /\ x.event \in Nat
        BY <3>1, <4>1, <4>2, EventAssumption DEF Edited
      <4>4. CASE c.content.by = x.event
        BY <2>1, <4>3, <4>4
      <4>5. CASE Retained(c, x)
        BY <2>1, <3>1, <3>2, <4>1, <4>3, <4>5 DEF Retained, IsContent
      <4> QED BY <4>1, <4>4, <4>5
    <3> QED BY <2>5, <3>3, <3>4 DEF Writes
  <2>6. \A w \in Run : Writes(w, d) => run'[w] # run[w]
    BY DEF Writes
  <2> QED BY <1>1, <2>2, <2>3, <2>4, <2>5, <2>6, LineWritten DEF Written
<1>2. LineInv /\ [Next]_vars =>
        [\A d \in DraftId : Corrected(d) /\ draft'[d].content.by > 0 =>
           \/ draft'[d].content.by >= draft[d].content.by
           \/ \E w \in Run : run'[w] # run[w] /\ ~OnTime(w)]_vars
  BY <1>1
<1> QED BY <1>2, LineInvInit, LineInvStep, PTL DEF Spec, CorrectionsInOrder
=============================================================================
