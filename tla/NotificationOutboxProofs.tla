---------------------- MODULE NotificationOutboxProofs ----------------------
(* Notification delivery, for any number of rows, runs, attempts and ticks: *)
(* types, the budget, no double delivery, and how rows settle.              *)
EXTENDS NotificationOutbox, LineQuotaProofs

\* The steps of a run, one disjunct per database call or provider answer.
LEMMA NextCases ==
  ASSUME Next
  PROVE  \/ \E n \in Row, window \in BusinessWindows : Notify(n, window)
         \/ \E w \in Worker : StartRun(w)
         \/ \E w \in Worker : Claim(w)
         \/ \E w \in Worker : \E c \in worker[w].batch : Refuse(w, c)
         \/ \E w \in Worker : \E c \in worker[w].batch : AskPermit(w, c)
         \/ \E w \in Worker : PushAccepted(w)
         \/ \E w \in Worker : PushReconciled(w) \/ PushUnanswered(w) \/ PushRejected(w)
         \/ \E w \in Worker : PushRateLimited(w)
         \/ \E w \in Worker : Complete(w)
         \/ \E w \in Worker : Fail(w)
         \/ \E w \in Worker : Crash(w)
         \/ Tick
         \/ Rollover
BY DEF Next, SendOne

-----------------------------------------------------------------------------
(* What a run holds.                                                       *)

WorkersOK ==
  /\ worker \in [Worker -> WorkerState]
  /\ \A w \in Worker : worker[w].pc \in Outcomes \cup {"push", "complete"} =>
       worker[w].current \in worker[w].batch

RowsOK ==
  /\ row \in [Row -> OutboxRow]
  /\ \A r \in Row : row[r].status = "sending" <=> row[r].token # 0

LEMMA TypeParts ==
  OutboxTypeOK <=> QuotaTypeOK /\ RowsOK /\ WorkersOK /\ provider \in [Row -> ProviderState]
BY DEF OutboxTypeOK, RowsOK, WorkersOK

LEMMA IdleTyped == Idle \in WorkerState /\ Idle.pc \notin Outcomes \cup {"push", "complete"}
BY WorkerAssumption DEF Idle, WorkerState, NoClaim, Outcomes

LEMMA ReadyTyped ==
  ASSUME NEW credential \in BOOLEAN, NEW stale \in BOOLEAN
  PROVE  LET o == [Idle EXCEPT !.pc = "ready", !.life = WorkerLife, !.stale = stale,
                               !.credential = credential]
         IN  o \in WorkerState /\ o.pc = "ready"
<1>1. WorkerLife \in 0..WorkerLife
  BY WorkerAssumption
<1> QED BY <1>1, IdleTyped DEF WorkerState

LEMMA ClaimedRow ==
  ASSUME WorkersOK, NEW w \in Worker
  PROVE  /\ worker[w] \in WorkerState
         /\ \A c \in worker[w].batch : c \in Claims /\ c.row \in Row
         /\ worker[w].pc \in Outcomes \cup {"push", "complete"} =>
              worker[w].current \in Claims /\ worker[w].current.row \in Row
<1>1. worker[w] \in WorkerState
  BY DEF WorkersOK
<1>2. worker[w].batch \in SUBSET Claims
  BY <1>1 DEF WorkerState
<1>3. \A c \in Claims : c.row \in Row
  BY DEF Claims
<1> QED BY <1>1, <1>2, <1>3 DEF WorkersOK

\* The quota moves of a settlement are quota steps.
LEMMA SettlementQuotaStep ==
  ASSUME NEW c, c.row \in Row, NEW outcome,
         FailItem(c, outcome) \/ CompleteItem(c)
  PROVE  [QuotaNext]_quotaVars
<1>1. CASE FailItem(c, outcome)
  BY <1>1 DEF FailItem, ReleaseIfActive, MarkAmbiguousIfReserved, QuotaNext
<1>2. CASE CompleteItem(c)
  BY <1>2 DEF CompleteItem, QuotaNext
<1> QED BY <1>1, <1>2

LEMMA RefreshQuotaStep ==
  ASSUME NEW credential, RefreshSucceeds(credential) \/ RefreshFails(credential)
  PROVE  [QuotaNext]_quotaVars
BY DEF RefreshSucceeds, RefreshFails, QuotaNext

\* Every step of the delivery is a step of the budget or leaves it alone.
LEMMA QuotaStep ==
  ASSUME WorkersOK, [Next]_vars
  PROVE  [QuotaNext]_quotaVars
<1>1. CASE UNCHANGED vars
  BY <1>1 DEF vars, quotaVars
<1>2. CASE Next
  <2>1. ASSUME NEW n \in Row, NEW window \in BusinessWindows, Notify(n, window)
        PROVE  [QuotaNext]_quotaVars
    BY <2>1 DEF Notify
  <2>2. ASSUME NEW w \in Worker, StartRun(w) PROVE [QuotaNext]_quotaVars
    BY <2>2, RefreshQuotaStep DEF StartRun
  <2>3. ASSUME NEW w \in Worker, Claim(w) PROVE [QuotaNext]_quotaVars
    BY <2>3 DEF Claim
  <2>4. ASSUME NEW w \in Worker, NEW c \in worker[w].batch, Refuse(w, c)
        PROVE  [QuotaNext]_quotaVars
    BY <2>4, ClaimedRow, SettlementQuotaStep DEF Refuse
  <2>5. ASSUME NEW w \in Worker, NEW c \in worker[w].batch, AskPermit(w, c)
        PROVE  [QuotaNext]_quotaVars
    <3>1. c.row \in Row
      BY ClaimedRow
    <3> QED BY <2>5, <3>1 DEF AskPermit, QuotaNext
  <2>6. ASSUME NEW w \in Worker, PushAccepted(w) PROVE [QuotaNext]_quotaVars
    BY <2>6 DEF PushAccepted
  <2>7. ASSUME NEW w \in Worker, PushReconciled(w) \/ PushUnanswered(w) \/ PushRejected(w)
        PROVE  [QuotaNext]_quotaVars
    BY <2>7 DEF PushReconciled, PushUnanswered, PushRejected
  <2>8. ASSUME NEW w \in Worker, PushRateLimited(w) PROVE [QuotaNext]_quotaVars
    BY <2>8, RefreshQuotaStep DEF PushRateLimited
  <2>9. ASSUME NEW w \in Worker, Complete(w) PROVE [QuotaNext]_quotaVars
    BY <2>9, ClaimedRow, SettlementQuotaStep DEF Complete
  <2>10. ASSUME NEW w \in Worker, Fail(w) PROVE [QuotaNext]_quotaVars
    BY <2>10, ClaimedRow, SettlementQuotaStep DEF Fail
  <2>11. ASSUME NEW w \in Worker, Crash(w) PROVE [QuotaNext]_quotaVars
    BY <2>11 DEF Crash
  <2>12. CASE Tick
    BY <2>12 DEF Tick, QuotaNext
  <2>13. CASE Rollover
    BY <2>13 DEF Rollover, QuotaNext
  <2> QED BY <1>2, NextCases, <2>1, <2>2, <2>3, <2>4, <2>5, <2>6, <2>7, <2>8, <2>9, <2>10,
             <2>11, <2>12, <2>13
<1> QED BY <1>1, <1>2
-----------------------------------------------------------------------------
(* Types of rows.                                                          *)

RowOK(o) == o \in OutboxRow /\ (o.status = "sending" <=> o.token # 0)

LEMMA RowsAreOK == RowsOK <=> row \in [Row -> OutboxRow] /\ \A r \in Row : RowOK(row[r])
BY DEF RowsOK, RowOK

LEMMA EndedOK ==
  ASSUME NEW o, RowOK(o), NEW status \in Terminal PROVE RowOK(Ended(o, status))
BY DEF RowOK, Ended, OutboxRow, Terminal

LEMMA RequeuedOK ==
  ASSUME NEW o, RowOK(o) PROVE RowOK(Requeued(o))
<1>1. RetryDelay * o.attempts \in Nat
  BY WorkerAssumption DEF RowOK, OutboxRow
<1> QED BY <1>1 DEF RowOK, Requeued, OutboxRow

LEMMA LeasedOK ==
  ASSUME NEW o, RowOK(o) PROVE RowOK(Leased(o))
<1>1. o.attempts + 1 \in Nat /\ o.attempts + 1 # 0 /\ Lease \in Nat /\ KeyWindow \in Nat
  BY WorkerAssumption DEF RowOK, OutboxRow
<1> QED BY <1>1 DEF RowOK, Leased, OutboxRow

LEMMA SweptOK ==
  ASSUME NEW o, RowOK(o) PROVE RowOK(Swept(o))
BY EndedOK DEF Swept, Terminal

LEMMA AgedOK ==
  ASSUME NEW o, RowOK(o)
  PROVE  RowOK([o EXCEPT !.retryIn = Less(@), !.leaseLeft = Less(@),
                         !.keyLeft = Less(@), !.expiresIn = Less(@)])
<1>1. \A n \in Nat : Less(n) \in Nat
  BY DEF Less
<1>2. /\ Less(o.retryIn) \in Nat /\ Less(o.leaseLeft) \in Nat
      /\ Less(o.keyLeft) \in Nat /\ Less(o.expiresIn) \in Nat
  BY <1>1 DEF RowOK, OutboxRow
<1> QED BY <1>2 DEF RowOK, OutboxRow

LEMMA OneRowChanged ==
  ASSUME RowsOK, NEW r \in Row, NEW o, RowOK(o), row' = [row EXCEPT ![r] = o]
  PROVE  RowsOK'
<1>1. o \in OutboxRow
  BY DEF RowOK
<1>2. row' \in [Row -> OutboxRow]
  BY <1>1 DEF RowsOK
<1>3. \A s \in Row : row'[s] = IF s = r THEN o ELSE row[s]
  BY DEF RowsOK
<1> QED BY <1>2, <1>3 DEF RowsOK, RowOK

\* Settlement keeps every row well formed.
LEMMA SettlementRowsOK ==
  ASSUME RowsOK, NEW c, c.row \in Row, NEW outcome \in Outcomes,
         FailItem(c, outcome) \/ CompleteItem(c)
  PROVE  RowsOK'
<1>1. RowOK(row[c.row])
  BY RowsAreOK
<1>2. RowOK(Requeued(row[c.row])) /\ \A s \in Terminal : RowOK(Ended(row[c.row], s))
  BY <1>1, RequeuedOK, EndedOK
<1>3. CASE UNCHANGED row
  BY <1>3 DEF RowsOK
<1>4. CASE row' = [row EXCEPT ![c.row] = Requeued(@)]
  BY <1>2, <1>4, OneRowChanged
<1>5. CASE \E s \in Terminal : row' = [row EXCEPT ![c.row] = Ended(@, s)]
  <2>1. PICK s \in Terminal : row' = [row EXCEPT ![c.row] = Ended(row[c.row], s)]
    BY <1>5
  <2> QED BY <1>2, <2>1, OneRowChanged
<1>6. UNCHANGED row \/ row' = [row EXCEPT ![c.row] = Requeued(@)]
      \/ \E s \in Terminal : row' = [row EXCEPT ![c.row] = Ended(@, s)]
  BY DEF FailItem, CompleteItem, Terminal
<1> QED BY <1>3, <1>4, <1>5, <1>6

LEMMA RowsStep ==
  ASSUME RowsOK, WorkersOK, Next
  PROVE  RowsOK'
<1>1. ASSUME NEW n \in Row, NEW window \in BusinessWindows, Notify(n, window) PROVE RowsOK'
  <2>1. CASE Insert(n, window)
    <3>1. window \in Nat
      BY WorkerAssumption
    <3>2. RowOK([NoRow EXCEPT !.status = "queued", !.expiresIn = window, !.items = {n}])
      BY <3>1 DEF RowOK, NoRow, OutboxRow
    <3> QED BY <2>1, <3>2, OneRowChanged DEF Insert
  <2>2. CASE BundleIntoLatest(n)
    <3>1. PICK r \in Row : row' = [row EXCEPT ![r].items = @ \cup {n}]
      BY <2>2 DEF BundleIntoLatest, QueuedFor
    <3>2. RowOK([row[r] EXCEPT !.items = @ \cup {n}])
      BY RowsAreOK DEF RowOK, OutboxRow
    <3>3. row' = [row EXCEPT ![r] = [row[r] EXCEPT !.items = @ \cup {n}]]
      BY <3>1
    <3> QED BY <3>2, <3>3, OneRowChanged
  <2> QED BY <1>1, <2>1, <2>2 DEF Notify
<1>2. ASSUME NEW w \in Worker, Claim(w) PROVE RowsOK'
  <2>1. PICK S \in SUBSET Row :
          row' = [r \in Row |-> IF r \in S THEN Leased(Swept(row[r])) ELSE Swept(row[r])]
    BY <1>2 DEF Claim, Batches
  <2>2. \A r \in Row : RowOK(Swept(row[r])) /\ RowOK(Leased(Swept(row[r])))
    BY RowsAreOK, SweptOK, LeasedOK
  <2>3. \A r \in Row : RowOK(row'[r])
    BY <2>1, <2>2
  <2> QED BY <2>1, <2>3 DEF RowsOK, RowOK
<1>3. ASSUME NEW w \in Worker, NEW c \in worker[w].batch, Refuse(w, c) PROVE RowsOK'
  <2>1. c.row \in Row
    BY ClaimedRow
  <2>2. PICK outcome \in Outcomes : FailItem(c, outcome)
    BY <1>3 DEF Refuse, Outcomes
  <2> QED BY <2>1, <2>2, SettlementRowsOK
<1>4. ASSUME NEW w \in Worker, Complete(w) PROVE RowsOK'
  <2>1. worker[w].current.row \in Row /\ "definitive" \in Outcomes
    BY <1>4, ClaimedRow DEF Complete, Outcomes
  <2> QED BY <1>4, <2>1, SettlementRowsOK DEF Complete, RowsOK
<1>5. ASSUME NEW w \in Worker, Fail(w) PROVE RowsOK'
  <2>1. worker[w].current.row \in Row
    BY <1>5, ClaimedRow DEF Fail
  <2> QED BY <1>5, <2>1, SettlementRowsOK DEF Fail, RowsOK
<1>6. CASE Tick
  <2>1. \A r \in Row : row'[r] = [row[r] EXCEPT !.retryIn = Less(@), !.leaseLeft = Less(@),
                                                 !.keyLeft = Less(@), !.expiresIn = Less(@)]
    BY <1>6 DEF Tick
  <2>2. ASSUME NEW r \in Row PROVE RowOK(row'[r])
    <3>1. RowOK(row[r])
      BY RowsAreOK
    <3> QED BY <2>1, <3>1, AgedOK
  <2> QED BY <1>6, <2>2 DEF Tick, RowsOK, RowOK
<1>7. CASE UNCHANGED row
  BY <1>7 DEF RowsOK
<1> QED BY NextCases, <1>1, <1>2, <1>3, <1>4, <1>5, <1>6, <1>7
      DEF StartRun, AskPermit, PushAccepted, PushReconciled, PushUnanswered, PushRejected,
          PushRateLimited, Crash, Rollover
-----------------------------------------------------------------------------
(* Types of runs and of the provider's record.                             *)

\* The parts of a run's state that its steps build from each other.
LEMMA OneWorkerChanged ==
  ASSUME WorkersOK, NEW w \in Worker, NEW o \in WorkerState, worker' = [worker EXCEPT ![w] = o],
         o.pc \in Outcomes \cup {"push", "complete"} => o.current \in o.batch
  PROVE  WorkersOK'
<1>1. worker' \in [Worker -> WorkerState]
  BY DEF WorkersOK
<1>2. \A v \in Worker : worker'[v] = IF v = w THEN o ELSE worker[v]
  BY DEF WorkersOK
<1> QED BY <1>1, <1>2 DEF WorkersOK

LEMMA AdvanceOK ==
  ASSUME WorkersOK, NEW w \in Worker, NEW c, Advance(w, c)
  PROVE  WorkersOK'
<1> DEFINE o == [worker[w] EXCEPT !.pc = "next", !.batch = @ \ {c}, !.current = NoClaim]
<1>1. CASE worker[w].batch = {c}
  <2>1. worker' = [worker EXCEPT ![w] = Idle]
    BY <1>1 DEF Advance
  <2> QED BY <2>1, IdleTyped, OneWorkerChanged
<1>2. CASE worker[w].batch # {c}
  <2>1. worker[w] \in WorkerState
    BY ClaimedRow
  <2>2. o \in WorkerState /\ o.pc = "next"
    BY <2>1 DEF WorkerState
  <2>3. worker' = [worker EXCEPT ![w] = o]
    BY <1>2 DEF Advance
  <2> HIDE DEF o
  <2> QED BY <2>2, <2>3, OneWorkerChanged DEF Outcomes
<1> QED BY <1>1, <1>2

LEMMA GotoOK ==
  ASSUME WorkersOK, NEW w \in Worker, Pushing(w),
         NEW pc \in Outcomes \cup {"complete"}, Goto(w, pc)
  PROVE  WorkersOK'
<1> DEFINE o == [worker[w] EXCEPT !.pc = pc]
<1>1. worker[w] \in WorkerState /\ worker[w].current \in worker[w].batch
  BY ClaimedRow DEF Pushing, WorkersOK
<1>2. o \in WorkerState /\ o.current \in o.batch
  BY <1>1 DEF WorkerState, Outcomes
<1>3. worker' = [worker EXCEPT ![w] = o]
  BY DEF Goto
<1> QED BY <1>2, <1>3, OneWorkerChanged

LEMMA WorkersStep ==
  ASSUME RowsOK, WorkersOK, Next
  PROVE  WorkersOK'
<1>1. ASSUME NEW w \in Worker, StartRun(w) PROVE WorkersOK'
  <2>1. PICK credential \in BOOLEAN, stale \in BOOLEAN :
          worker' = [worker EXCEPT ![w] = [Idle EXCEPT !.pc = "ready", !.life = WorkerLife,
                                                       !.stale = stale,
                                                       !.credential = credential]]
    BY <1>1 DEF StartRun
  <2> DEFINE o == [Idle EXCEPT !.pc = "ready", !.life = WorkerLife, !.stale = stale,
                               !.credential = credential]
  <2>2. o \in WorkerState /\ o.pc = "ready"
    BY ReadyTyped
  <2>3. worker' = [worker EXCEPT ![w] = o]
    BY <2>1
  <2> HIDE DEF o
  <2> QED BY <2>2, <2>3, OneWorkerChanged DEF Outcomes
<1>2. ASSUME NEW w \in Worker, Claim(w) PROVE WorkersOK'
  <2>1. PICK S \in SUBSET Row, linked \in SUBSET Row :
          worker' = [worker EXCEPT ![w] =
            IF S = {} THEN Idle
            ELSE [@ EXCEPT !.pc = "next",
                           !.batch = {[row |-> r, token |-> row[r].attempts + 1,
                                       items |-> row[r].items, linked |-> r \in linked] : r \in S}]]
    <3> DEFINE swept == [r \in Row |-> Swept(row[r])]
    <3>1. PICK S \in Batches(swept) : \E linked \in SUBSET S :
           worker' = [worker EXCEPT ![w] =
            IF S = {} THEN Idle
            ELSE [@ EXCEPT !.pc = "next",
                           !.batch = {[row |-> r, token |-> row[r].attempts + 1,
                                       items |-> row[r].items, linked |-> r \in linked] : r \in S}]]
      BY <1>2 DEF Claim
    <3>2. S \in SUBSET Row
      BY <3>1 DEF Batches
    <3>3. PICK linked \in SUBSET S :
           worker' = [worker EXCEPT ![w] =
            IF S = {} THEN Idle
            ELSE [@ EXCEPT !.pc = "next",
                           !.batch = {[row |-> r, token |-> row[r].attempts + 1,
                                       items |-> row[r].items, linked |-> r \in linked] : r \in S}]]
      BY <3>1
    <3>4. linked \in SUBSET Row
      BY <3>2, <3>3
    <3> QED BY <3>2, <3>3, <3>4
  <2> DEFINE batch == {[row |-> r, token |-> row[r].attempts + 1,
                        items |-> row[r].items, linked |-> r \in linked] : r \in S}
             o == [worker[w] EXCEPT !.pc = "next", !.batch = batch]
  <2>2. \A r \in S : row[r].attempts + 1 \in Nat /\ row[r].items \in SUBSET Row
    BY DEF RowsOK, OutboxRow
  <2>3. batch \in SUBSET Claims
    <3>1. ASSUME NEW r \in S, NEW l \in BOOLEAN
          PROVE  [row |-> r, token |-> row[r].attempts + 1, items |-> row[r].items,
                  linked |-> l] \in Claims
      BY <2>2 DEF Claims
    <3>2. \A r \in S : (r \in linked) \in BOOLEAN
      OBVIOUS
    <3> QED BY <3>1, <3>2, Zenon
  <2>4. worker[w] \in WorkerState
    BY ClaimedRow
  <2>5. o \in WorkerState /\ o.pc = "next"
    <3> HIDE DEF batch
    <3> QED BY <2>3, <2>4 DEF WorkerState
  <2>6. CASE S = {}
    BY <2>1, <2>6, IdleTyped, OneWorkerChanged
  <2>7. CASE S # {}
    BY <2>1, <2>5, <2>7, OneWorkerChanged DEF Outcomes
  <2> QED BY <2>6, <2>7
<1>3. ASSUME NEW w \in Worker, NEW c \in worker[w].batch, Refuse(w, c) PROVE WorkersOK'
  BY <1>3, AdvanceOK DEF Refuse
<1>4. ASSUME NEW w \in Worker, NEW c \in worker[w].batch, AskPermit(w, c) PROVE WorkersOK'
  <2>1. PICK pc \in {"push", "quota_fallback", "ambiguous"} :
          worker' = [worker EXCEPT ![w] = [@ EXCEPT !.pc = pc, !.current = c]]
    BY <1>4 DEF AskPermit
  <2> DEFINE o == [worker[w] EXCEPT !.pc = pc, !.current = c]
  <2>2. worker[w] \in WorkerState /\ c \in Claims
    BY ClaimedRow
  <2>3. o \in WorkerState /\ o.current \in o.batch
    BY <2>2 DEF WorkerState, Outcomes
  <2>4. worker' = [worker EXCEPT ![w] = o]
    BY <2>1
  <2> QED BY <2>3, <2>4, OneWorkerChanged
<1>5. ASSUME NEW w \in Worker, PushAccepted(w) \/ PushReconciled(w) \/ PushUnanswered(w)
                               \/ PushRejected(w) \/ PushRateLimited(w)
      PROVE  WorkersOK'
  <2>1. Pushing(w) /\ \E pc \in Outcomes \cup {"complete"} : Goto(w, pc)
    BY <1>5 DEF PushAccepted, PushReconciled, PushUnanswered, PushRejected, PushRateLimited,
                Outcomes
  <2> QED BY <2>1, GotoOK
<1>6. ASSUME NEW w \in Worker, Complete(w) \/ Fail(w) PROVE WorkersOK'
  BY <1>6, AdvanceOK DEF Complete, Fail
<1>7. ASSUME NEW w \in Worker, Crash(w) PROVE WorkersOK'
  BY <1>7, IdleTyped, OneWorkerChanged DEF Crash
<1>8. CASE Tick
  <2>1. \A n \in 0..WorkerLife : Less(n) \in 0..WorkerLife
    BY WorkerAssumption DEF Less
  <2>2. \A w \in Worker : worker'[w] = [worker[w] EXCEPT !.life = Less(@)]
    BY <1>8 DEF Tick
  <2>3. \A w \in Worker : worker[w] \in WorkerState
    BY DEF WorkersOK
  <2>4. ASSUME NEW w \in Worker
        PROVE  /\ worker'[w] \in WorkerState
               /\ worker'[w].pc = worker[w].pc
               /\ worker'[w].batch = worker[w].batch
               /\ worker'[w].current = worker[w].current
    <3>1. Less(worker[w].life) \in 0..WorkerLife
      BY <2>1, <2>3 DEF WorkerState
    <3> QED BY <2>2, <2>3, <3>1 DEF WorkerState
  <2>5. worker' \in [Worker -> WorkerState]
    BY <1>8, <2>4 DEF Tick
  <2> QED BY <2>4, <2>5 DEF WorkersOK
<1>9. CASE UNCHANGED worker
  BY <1>9 DEF WorkersOK
<1> QED BY NextCases, <1>1, <1>2, <1>3, <1>4, <1>5, <1>6, <1>7, <1>8, <1>9 DEF Notify, Rollover

LEMMA ProviderStep ==
  ASSUME WorkersOK, provider \in [Row -> ProviderState], Next
  PROVE  provider' \in [Row -> ProviderState]
<1>1. ASSUME NEW w \in Worker, PushAccepted(w) PROVE provider' \in [Row -> ProviderState]
  <2>1. worker[w].current \in Claims
    BY <1>1, ClaimedRow DEF PushAccepted, Pushing
  <2> DEFINE c == worker[w].current
             o == [memory |-> ProviderMemory, times |-> provider[c.row].times + 1,
                   items |-> provider[c.row].items \cup c.items]
  <2>2. c.row \in Row /\ c.items \in SUBSET Row
    BY <2>1 DEF Claims
  <2>3. o \in ProviderState
    BY <2>2, MarginAssumption DEF ProviderState
  <2>4. provider' = [provider EXCEPT ![c.row] = o]
    BY <1>1 DEF PushAccepted
  <2> QED BY <2>3, <2>4
<1>2. CASE Tick
  <2>1. \A n \in Nat : Less(n) \in Nat
    BY DEF Less
  <2>2. \A r \in Row : [provider[r] EXCEPT !.memory = Less(@)] \in ProviderState
    BY <2>1 DEF ProviderState
  <2> QED BY <1>2, <2>2 DEF Tick
<1>3. CASE UNCHANGED provider
  BY <1>3
<1> QED BY NextCases, <1>1, <1>2, <1>3
      DEF Notify, StartRun, Claim, Refuse, AskPermit, PushReconciled, PushUnanswered,
          PushRejected, PushRateLimited, Complete, Fail, Crash, Rollover

LEMMA OutboxTypeInit == Init => OutboxTypeOK
<1> SUFFICES ASSUME Init PROVE OutboxTypeOK
  OBVIOUS
<1>1. QuotaTypeOK
  BY QuotaTypeInit DEF Init
<1>2. RowsOK
  BY DEF Init, RowsOK, NoRow, OutboxRow
<1>3. WorkersOK
  BY IdleTyped DEF Init, WorkersOK, Idle, Outcomes
<1>4. provider \in [Row -> ProviderState]
  BY DEF Init, ProviderState
<1> QED BY <1>1, <1>2, <1>3, <1>4, TypeParts

LEMMA OutboxTypeStep == OutboxTypeOK /\ [Next]_vars => OutboxTypeOK'
<1> SUFFICES ASSUME OutboxTypeOK, [Next]_vars PROVE OutboxTypeOK'
  OBVIOUS
<1>1. QuotaTypeOK /\ RowsOK /\ WorkersOK /\ provider \in [Row -> ProviderState]
  BY TypeParts
<1>2. QuotaTypeOK'
  BY <1>1, QuotaStep, QuotaTypeStep
<1>3. CASE Next
  BY <1>1, <1>2, <1>3, RowsStep, WorkersStep, ProviderStep, TypeParts
     DEF OutboxTypeOK, RowsOK, WorkersOK
<1>4. CASE UNCHANGED vars
  BY <1>1, <1>2, <1>4 DEF vars, OutboxTypeOK, RowsOK, WorkersOK
<1> QED BY <1>3, <1>4

\* Every table row, run and provider record keeps its type, and a row has a
\* lease exactly while it is 'sending'.
THEOREM OutboxTyping == Spec => []OutboxTypeOK
BY OutboxTypeInit, OutboxTypeStep, PTL DEF Spec

-----------------------------------------------------------------------------
(* The delivery uses the budget as LineQuota allows.                       *)

\* Notification delivery, seen only through month, quota and reservations, is
\* a behaviour of LineQuota.
THEOREM OutboxImplementsQuota == Spec => QuotaSpec
<1>1. Init => QuotaInit
  BY DEF Init
<1>2. OutboxTypeOK /\ [Next]_vars => [QuotaNext]_quotaVars
  BY QuotaStep, TypeParts
<1> QED BY <1>1, <1>2, OutboxTyping, PTL DEF Spec, QuotaSpec

\* So delivery keeps what the server counts of a month within the hard cap,
\* however many runs overlap, crash or lose answers.  A message whose reservation
\* was given back after an attempt of unknown outcome is not in that count.
THEOREM OutboxWithinHardCap == Spec => []HardCapRespected
BY OutboxImplementsQuota, HardCapHolds, PTL

-----------------------------------------------------------------------------
(* No message reaches its recipient twice, a row and its reservation end    *)
(* alike, and a settled row stays settled.                                  *)

\* Why a row is not delivered twice: a row the provider took has been claimed,
\* and while its key is usable the provider remembers it for longer than any
\* run that claims it now can live.
KeyRow(r) ==
  /\ row[r].keyLeft <= KeyWindow
  /\ row[r].attempts > 0 \/ row[r].status # "none" => r \in row[r].items
  /\ provider[r].times <= 1
  /\ provider[r].times > 0 => row[r].attempts > 0
  /\ provider[r].times > 0 /\ row[r].keyLeft > 0 =>
       provider[r].memory >= row[r].keyLeft + WorkerLife

\* A run ends before the provider forgets a key that the run may still use.
KeyRun(w) ==
  /\ worker[w].pc = "idle" => worker[w].batch = {}
  /\ \A c \in worker[w].batch :
       /\ row[c.row].attempts > 0
       /\ provider[c.row].times > 0 => provider[c.row].memory > worker[w].life

KeyInv == (\A r \in Row : KeyRow(r)) /\ (\A w \in Worker : KeyRun(w))

-----------------------------------------------------------------------------
(* Steps that touch neither keys nor the provider.                         *)

RowKept(r) ==
  /\ row'[r].attempts = row[r].attempts
  /\ row'[r].keyLeft = row[r].keyLeft
  /\ row[r].items \subseteq row'[r].items
  /\ row[r].status = "none" => row'[r].status = "none"

RunKept(w) ==
  \/ worker'[w].batch = {}
  \/ /\ worker'[w].batch \subseteq worker[w].batch
     /\ worker'[w].life = worker[w].life
     /\ worker'[w].pc # "idle"

LEMMA KeptStep ==
  ASSUME KeyInv, \A r \in Row : RowKept(r), \A w \in Worker : RunKept(w), UNCHANGED provider,
         WorkersOK
  PROVE  KeyInv'
<1>1. ASSUME NEW r \in Row PROVE KeyRow(r)'
  BY <1>1 DEF KeyInv, KeyRow, RowKept
<1>2. ASSUME NEW w \in Worker PROVE KeyRun(w)'
  <2>1. KeyRun(w) /\ RunKept(w)
    BY DEF KeyInv
  <2>2. \A c \in worker[w].batch : c.row \in Row
    BY ClaimedRow
  <2> QED BY <2>1, <2>2 DEF KeyRun, RunKept, RowKept
<1> QED BY <1>1, <1>2 DEF KeyInv

\* Settling a row leaves its key alone.
LEMMA SettlementKeeps ==
  ASSUME RowsOK, NEW c, c.row \in Row, NEW outcome,
         FailItem(c, outcome) \/ CompleteItem(c) \/ UNCHANGED row
  PROVE  \A r \in Row : RowKept(r)
<1> DEFINE o == row[c.row]
<1>1. UNCHANGED row \/ row' = [row EXCEPT ![c.row] = Requeued(o)]
      \/ \E s \in Terminal : row' = [row EXCEPT ![c.row] = Ended(o, s)]
  BY DEF FailItem, CompleteItem, Terminal
<1>2. CASE UNCHANGED row
  BY <1>2 DEF RowKept
<1>3. o \in OutboxRow
  BY DEF RowsOK
<1>4. UNCHANGED row \/ (LeaseHeld(c) /\ o.status = "sending")
  BY DEF FailItem, CompleteItem, LeaseHeld
<1>5. CASE row' = [row EXCEPT ![c.row] = Requeued(o)] /\ o.status = "sending"
  <2>1. \A r \in Row : row'[r] = IF r = c.row THEN Requeued(o) ELSE row[r]
    BY <1>5 DEF RowsOK
  <2> QED BY <1>3, <1>5, <2>1 DEF RowKept, Requeued, OutboxRow
<1>6. ASSUME NEW s \in Terminal, row' = [row EXCEPT ![c.row] = Ended(o, s)], o.status = "sending"
      PROVE  \A r \in Row : RowKept(r)
  <2>1. \A r \in Row : row'[r] = IF r = c.row THEN Ended(o, s) ELSE row[r]
    BY <1>6 DEF RowsOK
  <2> QED BY <1>3, <1>6, <2>1 DEF RowKept, Ended, OutboxRow
<1> QED BY <1>1, <1>2, <1>4, <1>5, <1>6

\* Moving on within a run keeps its claims or drops them.
LEMMA RunMovesKeep ==
  ASSUME WorkersOK, NEW v \in Worker, NEW o, worker' = [worker EXCEPT ![v] = o],
         o.batch = {} \/ (o.batch \subseteq worker[v].batch /\ o.life = worker[v].life
                          /\ o.pc # "idle"),
         \A w \in Worker : KeyRun(w)
  PROVE  \A w \in Worker : RunKept(w)
<1>1. \A w \in Worker : worker'[w] = IF w = v THEN o ELSE worker[w]
  BY DEF WorkersOK
<1> QED BY <1>1 DEF RunKept, KeyRun

LEMMA AdvanceKeeps ==
  ASSUME WorkersOK, NEW v \in Worker, NEW c, Advance(v, c), \A w \in Worker : KeyRun(w)
  PROVE  \A w \in Worker : RunKept(w)
<1> DEFINE o == [worker[v] EXCEPT !.pc = "next", !.batch = worker[v].batch \ {c},
                                  !.current = NoClaim]
<1>1. CASE worker[v].batch = {c}
  <2>1. worker' = [worker EXCEPT ![v] = Idle] /\ Idle.batch = {}
    BY <1>1 DEF Advance, Idle
  <2> QED BY <2>1, RunMovesKeep
<1>2. CASE worker[v].batch # {c}
  <2>1. o.batch \subseteq worker[v].batch /\ o.life = worker[v].life /\ o.pc # "idle"
    BY ClaimedRow DEF WorkerState
  <2>2. worker' = [worker EXCEPT ![v] = o]
    BY <1>2 DEF Advance
  <2> HIDE DEF o
  <2> QED BY <2>1, <2>2, RunMovesKeep
<1> QED BY <1>1, <1>2

LEMMA GotoKeeps ==
  ASSUME WorkersOK, NEW v \in Worker, NEW pc, pc # "idle", NEW c, \A w \in Worker : KeyRun(w),
         worker' = [worker EXCEPT ![v].pc = pc] \/ worker' = [worker EXCEPT ![v] = [@ EXCEPT !.pc = pc, !.current = c]]
  PROVE  \A w \in Worker : RunKept(w)
<1> DEFINE o == [worker[v] EXCEPT !.pc = pc]
           q == [worker[v] EXCEPT !.pc = pc, !.current = c]
<1>1. worker[v] \in WorkerState
  BY ClaimedRow
<1>2. /\ o.batch = worker[v].batch /\ o.life = worker[v].life /\ o.pc # "idle"
      /\ q.batch = worker[v].batch /\ q.life = worker[v].life /\ q.pc # "idle"
  BY <1>1 DEF WorkerState
<1>3. worker' = [worker EXCEPT ![v] = o] \/ worker' = [worker EXCEPT ![v] = q]
  OBVIOUS
<1> HIDE DEF o, q
<1> QED BY <1>2, <1>3, RunMovesKeep
-----------------------------------------------------------------------------
(* The steps that do touch them.                                           *)

\* A swept row keeps its key, and stays claimable only while the key is.
LEMMA EndedKeeps ==
  ASSUME NEW o \in OutboxRow, NEW status \in Terminal
  PROVE  LET s == Ended(o, status)
         IN  /\ s \in OutboxRow /\ s.status = status
             /\ s.attempts = o.attempts /\ s.keyLeft = o.keyLeft /\ s.items = o.items
BY DEF Ended, OutboxRow

LEMMA SweptKeeps ==
  ASSUME NEW o, RowOK(o)
  PROVE  LET s == Swept(o)
         IN  /\ s \in OutboxRow
             /\ s.attempts = o.attempts /\ s.keyLeft = o.keyLeft /\ s.items = o.items
             /\ o.status = "none" <=> s.status = "none"
             /\ Claimable(s) => o.status # "none" /\ (o.attempts > 0 => o.keyLeft > 0)
<1>1. o \in OutboxRow
  BY DEF RowOK
<1>2. CASE BusinessExpired(o)
  <2>1. Swept(o) = Ended(o, "dead")
    BY <1>2 DEF Swept
  <2>2. o.status = "queued"
    BY <1>2 DEF BusinessExpired
  <2> HIDE DEF Swept
  <2> QED BY <1>1, <2>1, <2>2, EndedKeeps DEF Claimable, Terminal
<1>3. CASE ~BusinessExpired(o) /\ o.status \in {"queued", "sending"} /\ KeyExpired(o)
  <2>1. Swept(o) = Ended(o, "delivery_unknown")
    BY <1>3 DEF Swept
  <2> HIDE DEF Swept
  <2> QED BY <1>1, <1>3, <2>1, EndedKeeps DEF Claimable, Terminal
<1>4. CASE ~BusinessExpired(o) /\ ~(o.status \in {"queued", "sending"} /\ KeyExpired(o))
  <2>1. Swept(o) = o
    BY <1>4 DEF Swept
  <2>2. o.keyLeft \in Nat /\ o.attempts \in Nat
    BY <1>1 DEF OutboxRow
  <2> QED BY <1>1, <1>4, <2>1, <2>2 DEF Claimable, KeyExpired
<1> QED BY <1>2, <1>3, <1>4

LEMMA InsertKeeps ==
  ASSUME OutboxTypeOK, KeyInv, NEW n \in Row, NEW window, n \notin Emitted, Insert(n, window),
         UNCHANGED <<worker, provider>>
  PROVE  KeyInv'
<1>1. row[n].attempts = 0 /\ row[n].status = "none" /\ provider[n].times = 0
  <2>1. n \notin row[n].items
    BY DEF Emitted
  <2>2. row[n].attempts \in Nat /\ provider[n].times \in Nat
    BY DEF OutboxTypeOK, OutboxRow, ProviderState
  <2> QED BY <2>1, <2>2 DEF KeyInv, KeyRow
<1>2. \A r \in Row : r # n => row'[r] = row[r]
  BY DEF Insert, OutboxTypeOK
<1>3. row'[n].attempts = 0 /\ row'[n].keyLeft = 0 /\ row'[n].items = {n}
  BY DEF Insert, OutboxTypeOK, NoRow
<1>4. ASSUME NEW r \in Row PROVE KeyRow(r)'
  <2>1. CASE r = n
    BY <1>1, <1>3, <2>1, WorkerAssumption DEF KeyRow
  <2>2. CASE r # n
    BY <1>2, <2>2 DEF KeyInv, KeyRow
  <2> QED BY <2>1, <2>2
<1>5. ASSUME NEW w \in Worker PROVE KeyRun(w)'
  <2>1. \A c \in worker[w].batch : c.row \in Row /\ c.row # n
    BY <1>1, ClaimedRow, TypeParts DEF KeyInv, KeyRun
  <2> QED BY <1>2, <2>1 DEF KeyInv, KeyRun
<1> QED BY <1>4, <1>5 DEF KeyInv

LEMMA ClaimKeeps ==
  ASSUME OutboxTypeOK, KeyInv, NEW v \in Worker, Claim(v)
  PROVE  KeyInv'
<1> DEFINE swept == [r \in Row |-> Swept(row[r])]
<1>1. PICK S \in Batches(swept) : \E linked \in SUBSET S :
        /\ row' = [r \in Row |-> IF r \in S THEN Leased(swept[r]) ELSE swept[r]]
        /\ worker' = [worker EXCEPT ![v] =
             IF S = {} THEN Idle
             ELSE [@ EXCEPT !.pc = "next",
                            !.batch = {[row |-> r, token |-> row[r].attempts + 1,
                                        items |-> row[r].items, linked |-> r \in linked] : r \in S}]]
  BY DEF Claim
<1>2. PICK linked \in SUBSET S :
        worker' = [worker EXCEPT ![v] =
             IF S = {} THEN Idle
             ELSE [@ EXCEPT !.pc = "next",
                            !.batch = {[row |-> r, token |-> row[r].attempts + 1,
                                        items |-> row[r].items, linked |-> r \in linked] : r \in S}]]
  BY <1>1
<1>3. S \subseteq Row /\ \A r \in S : Claimable(Swept(row[r]))
  BY <1>1 DEF Batches
<1>4. \A r \in Row : RowOK(row[r]) /\ row[r] \in OutboxRow /\ provider[r] \in ProviderState
  BY RowsAreOK, TypeParts DEF RowOK
<1>5. \A r \in Row : row'[r] = IF r \in S THEN Leased(Swept(row[r])) ELSE Swept(row[r])
  BY <1>1
<1>6. UNCHANGED provider
  BY DEF Claim
<1>7. ASSUME NEW r \in Row
      PROVE  /\ row'[r].attempts = IF r \in S THEN row[r].attempts + 1 ELSE row[r].attempts
             /\ row'[r].keyLeft = IF r \in S /\ row[r].attempts = 0 THEN KeyWindow ELSE row[r].keyLeft
             /\ row'[r].items = row[r].items
             /\ row'[r].status # "none" => row[r].status # "none"
             /\ r \in S => row[r].status # "none" /\ (row[r].attempts > 0 => row[r].keyLeft > 0)
  <2> DEFINE s == Swept(row[r])
  <2>1. /\ s \in OutboxRow
        /\ s.attempts = row[r].attempts /\ s.keyLeft = row[r].keyLeft /\ s.items = row[r].items
        /\ row[r].status = "none" <=> s.status = "none"
        /\ Claimable(s) => row[r].status # "none" /\ (row[r].attempts > 0 => row[r].keyLeft > 0)
    BY <1>4, SweptKeeps
  <2>2. row'[r] = IF r \in S THEN Leased(s) ELSE s
    BY <1>5
  <2>3. r \in S => Claimable(s)
    BY <1>3
  <2> HIDE DEF s
  <2>4. CASE r \in S
    BY <2>1, <2>2, <2>3, <2>4 DEF Leased, OutboxRow
  <2>5. CASE r \notin S
    BY <2>1, <2>2, <2>5
  <2> QED BY <2>4, <2>5
<1>8. ASSUME NEW r \in Row PROVE KeyRow(r)'
  <2>1. KeyRow(r) /\ row[r].attempts \in Nat /\ row[r].keyLeft \in Nat
    BY <1>4 DEF KeyInv, OutboxRow
  <2>2. provider'[r] = provider[r] /\ KeyWindow \in Nat
    BY <1>6, WorkerAssumption
  <2> QED BY <1>7, <2>1, <2>2 DEF KeyRow
<1>9. ASSUME NEW w \in Worker, w # v PROVE KeyRun(w)'
  <2>1. worker'[w] = worker[w] /\ KeyRun(w)
    BY <1>2, <1>9 DEF KeyInv, OutboxTypeOK
  <2>2. \A c \in worker[w].batch : c.row \in Row /\ row[c.row].attempts \in Nat
    BY <1>4, ClaimedRow, TypeParts DEF OutboxRow
  <2> QED BY <1>6, <1>7, <2>1, <2>2 DEF KeyRun
<1>10. KeyRun(v)'
  <2> DEFINE batch == {[row |-> r, token |-> row[r].attempts + 1,
                        items |-> row[r].items, linked |-> r \in linked] : r \in S}
             o == [worker[v] EXCEPT !.pc = "next", !.batch = batch]
  <2>1. worker[v] \in WorkerState /\ worker[v].life \in 0..WorkerLife
    BY ClaimedRow, TypeParts DEF WorkerState
  <2>2. CASE S = {}
    <3>1. worker'[v] = Idle
      BY <1>2, <2>2 DEF OutboxTypeOK
    <3> QED BY <3>1 DEF KeyRun, Idle
  <2>3. CASE S # {}
    <3>1. worker'[v] = o
      BY <1>2, <2>3 DEF OutboxTypeOK
    <3>2. o.pc = "next" /\ o.batch = batch /\ o.life = worker[v].life
      BY <2>1 DEF WorkerState
    <3>3. \A c \in batch : c.row \in S
      OBVIOUS
    <3>4. ASSUME NEW r \in S
          PROVE  /\ row'[r].attempts > 0
                 /\ provider'[r].times > 0 => provider'[r].memory > worker[v].life
      <4>1. /\ KeyRow(r) /\ row[r].attempts \in Nat /\ row[r].keyLeft \in Nat
            /\ provider[r].memory \in Nat
        BY <1>3, <1>4 DEF KeyInv, OutboxRow, ProviderState
      <4> QED BY <1>3, <1>6, <1>7, <2>1, <4>1, WorkerAssumption DEF KeyRow
    <3> HIDE DEF o, batch
    <3> QED BY <3>1, <3>2, <3>3, <3>4 DEF KeyRun
  <2> QED BY <2>2, <2>3
<1> QED BY <1>8, <1>9, <1>10 DEF KeyInv

\* The provider takes a message only when it has no memory of its key, and no
\* run can hold a key that was accepted and then forgotten.
LEMMA AcceptKeeps ==
  ASSUME OutboxTypeOK, KeyInv, NEW v \in Worker, PushAccepted(v)
  PROVE  KeyInv'
<1> DEFINE a == worker[v].current.row
<1>1. worker[v].current \in worker[v].batch /\ a \in Row /\ worker[v].life \in 0..WorkerLife
  BY ClaimedRow, TypeParts DEF PushAccepted, Pushing, WorkersOK, WorkerState
<1>2. row[a].attempts > 0 /\ provider[a].times = 0
  <2>1. provider[a].memory = 0 /\ provider[a].times \in Nat /\ row[a].attempts \in Nat
    BY <1>1 DEF PushAccepted, OutboxTypeOK, ProviderState, OutboxRow
  <2> QED BY <1>1, <2>1 DEF KeyInv, KeyRun
<1>3. /\ provider'[a].memory = ProviderMemory /\ provider'[a].times = 1
      /\ \A r \in Row : r # a => provider'[r] = provider[r]
  BY <1>1, <1>2 DEF PushAccepted, OutboxTypeOK
<1>4. UNCHANGED row /\ \E pc \in {"complete", "ambiguous"} : Goto(v, pc)
  BY DEF PushAccepted
<1> HIDE DEF a
<1>5. ASSUME NEW r \in Row PROVE KeyRow(r)'
  <2>1. KeyRow(r) /\ row[r].keyLeft \in Nat
    BY DEF KeyInv, OutboxTypeOK, OutboxRow
  <2>2. CASE r = a
    BY <1>2, <1>3, <1>4, <2>1, <2>2, MarginAssumption, WorkerAssumption DEF KeyRow
  <2>3. CASE r # a
    BY <1>3, <1>4, <2>1, <2>3 DEF KeyRow
  <2> QED BY <2>2, <2>3
<1>6. ASSUME NEW w \in Worker PROVE KeyRun(w)'
  <2>1. /\ worker'[w].batch = worker[w].batch /\ worker'[w].life = worker[w].life
        /\ worker'[w].pc = "idle" => worker[w].pc = "idle"
    <3>1. worker[w] \in WorkerState /\ worker[v] \in WorkerState
      BY ClaimedRow, TypeParts
    <3>2. PICK pc \in {"complete", "ambiguous"} : worker' = [worker EXCEPT ![v].pc = pc]
      BY <1>4 DEF Goto
    <3>3. worker'[w] = IF w = v THEN [worker[v] EXCEPT !.pc = pc] ELSE worker[w]
      BY <3>2 DEF OutboxTypeOK
    <3> QED BY <3>1, <3>3 DEF WorkerState
  <2>2. \A c \in worker[w].batch : c.row \in Row
    BY ClaimedRow, TypeParts
  <2>3. KeyRun(w) /\ worker[w].life \in 0..WorkerLife
    BY ClaimedRow, TypeParts DEF KeyInv, WorkerState
  <2>4. ASSUME NEW c \in worker[w].batch
        PROVE  provider'[c.row].times > 0 => provider'[c.row].memory > worker[w].life
    <3>1. CASE c.row = a
      BY <1>3, <2>3, <3>1, MarginAssumption, WorkerAssumption
    <3>2. CASE c.row # a
      BY <1>3, <2>2, <2>3, <3>2 DEF KeyRun
    <3> QED BY <3>1, <3>2
  <2> QED BY <1>4, <2>1, <2>3, <2>4 DEF KeyRun
<1> QED BY <1>5, <1>6 DEF KeyInv

\* A tick takes one from the key, from the memory and from every live run.
LEMMA TickKeeps ==
  ASSUME OutboxTypeOK, KeyInv, Tick
  PROVE  KeyInv'
<1>1. ASSUME NEW r \in Row
      PROVE  /\ row'[r].attempts = row[r].attempts /\ row'[r].keyLeft = Less(row[r].keyLeft)
             /\ row'[r].items = row[r].items /\ row'[r].status = row[r].status
             /\ provider'[r].times = provider[r].times
             /\ provider'[r].memory = Less(provider[r].memory)
  <2>1. row[r] \in OutboxRow /\ provider[r] \in ProviderState
    BY DEF OutboxTypeOK
  <2>2. /\ row'[r] = [row[r] EXCEPT !.retryIn = Less(@), !.leaseLeft = Less(@),
                                    !.keyLeft = Less(@), !.expiresIn = Less(@)]
        /\ provider'[r] = [provider[r] EXCEPT !.memory = Less(@)]
    BY DEF Tick
  <2> QED BY <2>1, <2>2 DEF OutboxRow, ProviderState
<1>2. ASSUME NEW r \in Row PROVE KeyRow(r)'
  <2>1. /\ KeyRow(r) /\ row[r].keyLeft \in Nat /\ provider[r].memory \in Nat
        /\ provider[r].times \in Nat /\ row[r].attempts \in Nat
    BY DEF KeyInv, OutboxTypeOK, OutboxRow, ProviderState
  <2> QED BY <1>1, <2>1, WorkerAssumption DEF KeyRow, Less
<1>3. ASSUME NEW w \in Worker PROVE KeyRun(w)'
  <2>1. worker[w] \in WorkerState
    BY DEF OutboxTypeOK
  <2>2. /\ worker'[w].pc = worker[w].pc /\ worker'[w].batch = worker[w].batch
        /\ worker'[w].life = Less(worker[w].life)
    <3>1. worker'[w] = [worker[w] EXCEPT !.life = Less(@)]
      BY DEF Tick
    <3> QED BY <2>1, <3>1 DEF WorkerState
  <2>3. worker[w].batch # {} => worker[w].life > 0
    BY DEF Tick, KeyInv, KeyRun, Busy
  <2>4. KeyRun(w) /\ worker[w].life \in Nat
    BY <2>1 DEF KeyInv, WorkerState
  <2>5. \A c \in worker[w].batch : c.row \in Row /\ provider[c.row].memory \in Nat
    BY ClaimedRow, TypeParts DEF ProviderState
  <2>6. ASSUME NEW c \in worker[w].batch
        PROVE  /\ row'[c.row].attempts > 0
               /\ provider'[c.row].times > 0 => provider'[c.row].memory > worker'[w].life
    <3>1. c.row \in Row /\ provider[c.row].memory \in Nat
      BY <2>5
    <3>2. /\ row[c.row].attempts > 0
          /\ provider[c.row].times > 0 => provider[c.row].memory > worker[w].life
      BY <2>4 DEF KeyRun
    <3>3. worker[w].life > 0
      BY <2>3
    <3> QED BY <1>1, <2>2, <2>4, <3>1, <3>2, <3>3 DEF Less
  <2> QED BY <2>2, <2>4, <2>6 DEF KeyRun
<1> QED BY <1>2, <1>3 DEF KeyInv

-----------------------------------------------------------------------------
LEMMA KeyInvInit == Init => KeyInv
BY WorkerAssumption DEF Init, KeyInv, KeyRow, KeyRun, NoRow, Idle

LEMMA KeyInvStep == OutboxTypeOK /\ KeyInv /\ [Next]_vars => KeyInv'
<1> SUFFICES ASSUME OutboxTypeOK, KeyInv, [Next]_vars PROVE KeyInv'
  OBVIOUS
<1>a. RowsOK /\ WorkersOK /\ (\A w \in Worker : KeyRun(w))
  BY TypeParts DEF KeyInv
<1>b. UNCHANGED row => \A r \in Row : RowKept(r)
  BY DEF RowKept
<1>c. UNCHANGED worker => \A w \in Worker : RunKept(w)
  BY <1>a DEF RunKept, KeyRun
<1>1. ASSUME NEW n \in Row, NEW window \in BusinessWindows, Notify(n, window) PROVE KeyInv'
  <2>1. CASE Insert(n, window)
    BY <1>1, <2>1, InsertKeeps DEF Notify
  <2>2. CASE BundleIntoLatest(n)
    <3>1. PICK s \in Row : row' = [row EXCEPT ![s].items = @ \cup {n}]
      BY <2>2 DEF BundleIntoLatest, QueuedFor
    <3>2. \A r \in Row : row[r] \in OutboxRow
      BY DEF OutboxTypeOK
    <3>3. \A r \in Row : row'[r] = IF r = s THEN [row[s] EXCEPT !.items = @ \cup {n}] ELSE row[r]
      BY <3>1 DEF OutboxTypeOK
    <3>4. \A r \in Row : RowKept(r)
      BY <3>2, <3>3 DEF RowKept, OutboxRow
    <3> QED BY <1>1, <1>a, <1>c, <3>4, KeptStep DEF Notify
  <2> QED BY <1>1, <2>1, <2>2 DEF Notify
<1>2. ASSUME NEW w \in Worker, StartRun(w) PROVE KeyInv'
  <2>1. PICK credential \in BOOLEAN, stale \in BOOLEAN :
          worker' = [worker EXCEPT ![w] = [Idle EXCEPT !.pc = "ready", !.life = WorkerLife,
                                                       !.stale = stale,
                                                       !.credential = credential]]
    BY <1>2 DEF StartRun
  <2> DEFINE o == [Idle EXCEPT !.pc = "ready", !.life = WorkerLife, !.stale = stale,
                               !.credential = credential]
  <2>2. o.batch = {} /\ worker' = [worker EXCEPT ![w] = o]
    BY <2>1 DEF Idle
  <2> HIDE DEF o
  <2>3. \A v \in Worker : RunKept(v)
    BY <1>a, <2>2, RunMovesKeep
  <2> QED BY <1>2, <1>a, <1>b, <2>3, KeptStep DEF StartRun
<1>3. ASSUME NEW w \in Worker, Claim(w) PROVE KeyInv'
  BY <1>3, ClaimKeeps
<1>4. ASSUME NEW w \in Worker, NEW c \in worker[w].batch, Refuse(w, c) PROVE KeyInv'
  <2>1. \A r \in Row : RowKept(r)
    BY <1>4, <1>a, ClaimedRow, SettlementKeeps DEF Refuse
  <2>2. \A v \in Worker : RunKept(v)
    BY <1>4, <1>a, AdvanceKeeps DEF Refuse
  <2> QED BY <1>4, <1>a, <2>1, <2>2, KeptStep DEF Refuse
<1>5. ASSUME NEW w \in Worker, NEW c \in worker[w].batch, AskPermit(w, c) PROVE KeyInv'
  <2>1. PICK pc \in {"push", "quota_fallback", "ambiguous"} :
          worker' = [worker EXCEPT ![w] = [@ EXCEPT !.pc = pc, !.current = c]]
    BY <1>5 DEF AskPermit
  <2>2. \A v \in Worker : RunKept(v)
    BY <1>a, <2>1, GotoKeeps
  <2> QED BY <1>5, <1>a, <1>b, <2>2, KeptStep DEF AskPermit
<1>6. ASSUME NEW w \in Worker, PushAccepted(w) PROVE KeyInv'
  BY <1>6, AcceptKeeps
<1>7. ASSUME NEW w \in Worker, PushReconciled(w) \/ PushUnanswered(w) \/ PushRejected(w)
                               \/ PushRateLimited(w)
      PROVE  KeyInv'
  <2>1. PICK pc \in Outcomes \cup {"complete"} : worker' = [worker EXCEPT ![w].pc = pc]
    BY <1>7 DEF PushReconciled, PushUnanswered, PushRejected, PushRateLimited, Goto, Outcomes
  <2>2. \A v \in Worker : RunKept(v)
    BY <1>a, <2>1, GotoKeeps DEF Outcomes
  <2>3. UNCHANGED <<row, provider>>
    BY <1>7 DEF PushReconciled, PushUnanswered, PushRejected, PushRateLimited
  <2> QED BY <1>a, <1>b, <2>2, <2>3, KeptStep
<1>8. ASSUME NEW w \in Worker, Complete(w) \/ Fail(w) PROVE KeyInv'
  <2>1. worker[w].current.row \in Row
    BY <1>8, <1>a, ClaimedRow DEF Complete, Fail
  <2>2. \A r \in Row : RowKept(r)
    BY <1>8, <1>a, <2>1, SettlementKeeps DEF Complete, Fail
  <2>3. \A v \in Worker : RunKept(v)
    BY <1>8, <1>a, AdvanceKeeps DEF Complete, Fail
  <2> QED BY <1>8, <1>a, <2>2, <2>3, KeptStep DEF Complete, Fail
<1>9. ASSUME NEW w \in Worker, Crash(w) PROVE KeyInv'
  <2>1. worker' = [worker EXCEPT ![w] = Idle] /\ Idle.batch = {}
    BY <1>9 DEF Crash, Idle
  <2>2. \A v \in Worker : RunKept(v)
    BY <1>a, <2>1, RunMovesKeep
  <2> QED BY <1>9, <1>a, <1>b, <2>2, KeptStep DEF Crash
<1>10. CASE Tick
  BY <1>10, TickKeeps
<1>11. CASE UNCHANGED <<row, worker, provider>>
  BY <1>11, <1>a, <1>b, <1>c, KeptStep
<1> QED BY NextCases, <1>1, <1>2, <1>3, <1>4, <1>5, <1>6, <1>7, <1>8, <1>9, <1>10, <1>11
      DEF Rollover, vars

\* No recipient gets a message twice, though leases lapse under runs that are
\* still pushing and accepted pushes lose their answers: the key a row keeps
\* through its retries expires, with every run that holds it, before the
\* provider forgets it.
THEOREM DeliveredAtMostOnce == Spec => []NoDoubleDelivery
<1>1. KeyInv => NoDoubleDelivery
  BY DEF KeyInv, KeyRow, NoDoubleDelivery
<1> QED BY <1>1, KeyInvInit, KeyInvStep, OutboxTyping, PTL DEF Spec

-----------------------------------------------------------------------------
(* Rows and their reservations end alike.                                  *)

\* What a run knows before it settles a row as sent: it holds a reservation,
\* and the provider has taken the message.
RunKnows(w) ==
  /\ worker[w].pc \in {"push", "complete"} =>
       reservation[worker[w].current.row].status # "none"
  /\ worker[w].pc = "complete" => provider[worker[w].current.row].times > 0

SettlementInv == SettlementMatchesOutcome /\ \A w \in Worker : RunKnows(w)

\* How the status of a row and of its reservation may move together.
Moves(r) ==
  /\ provider[r].times > 0 => provider'[r].times > 0
  /\ row[r].status \in Terminal =>
       row'[r].status = row[r].status /\ row'[r].items = row[r].items
  /\ reservation[r].status \in {"committed", "released"} =>
       reservation'[r].status = reservation[r].status
  /\ reservation[r].status # "none" => reservation'[r].status # "none"
  /\ row'[r].status = "sent" => \/ row[r].status = "sent"
                                \/ reservation'[r].status = "committed" /\ provider'[r].times > 0
  /\ reservation'[r].status = "committed" =>
       reservation[r].status = "committed" \/ row'[r].status = "sent"
  /\ reservation'[r].status = "released" =>
       reservation[r].status = "released" \/ row'[r].status \in {"dead", "fallback"}

LEMMA MovesKeepOutcome ==
  ASSUME SettlementMatchesOutcome, OutboxTypeOK, \A r \in Row : Moves(r)
  PROVE  SettlementMatchesOutcome'
<1> SUFFICES ASSUME NEW r \in Row
             PROVE  /\ row'[r].status = "sent" => provider'[r].times > 0
                    /\ row'[r].status = "sent" <=> reservation'[r].status = "committed"
                    /\ reservation'[r].status = "released" => row'[r].status \in {"dead", "fallback"}
  BY DEF SettlementMatchesOutcome
<1>1. Moves(r)
  OBVIOUS
<1>2. /\ row[r].status = "sent" => provider[r].times > 0
      /\ row[r].status = "sent" <=> reservation[r].status = "committed"
      /\ reservation[r].status = "released" => row[r].status \in {"dead", "fallback"}
  BY DEF SettlementMatchesOutcome
<1>3. row'[r].status = "sent" => provider'[r].times > 0
  BY <1>1, <1>2, Zenon DEF Moves
<1>4. (row'[r].status = "sent") <=> (reservation'[r].status = "committed")
  BY <1>1, <1>2 DEF Moves, Terminal
<1>5. reservation'[r].status = "released" => row'[r].status \in {"dead", "fallback"}
  BY <1>1, <1>2 DEF Moves, Terminal
<1> QED BY <1>3, <1>4, <1>5

\* Steps that leave rows and reservations as they are.
LEMMA StillMoves ==
  ASSUME UNCHANGED <<row, reservation>>,
         \A r \in Row : provider[r].times > 0 => provider'[r].times > 0
  PROVE  \A r \in Row : Moves(r)
BY DEF Moves

\* One row and its reservation change, or nothing does.
LEMMA OneRowMoves ==
  ASSUME OutboxTypeOK, NEW a \in Row, NEW o, NEW q,
         row' = [row EXCEPT ![a] = o], reservation' = [reservation EXCEPT ![a].status = q],
         UNCHANGED provider,
         row[a].status \notin Terminal, reservation[a].status \notin {"committed", "released"},
         q # "none" \/ q = reservation[a].status,
         o.status = "sent" => q = "committed" /\ provider[a].times > 0,
         q = "committed" => o.status = "sent",
         q = "released" => o.status \in {"dead", "fallback"}
  PROVE  \A r \in Row : Moves(r)
<1> SUFFICES ASSUME NEW r \in Row PROVE Moves(r)
  OBVIOUS
<1>1. row'[r] = IF r = a THEN o ELSE row[r]
  BY DEF OutboxTypeOK
<1>2. reservation'[r].status = IF r = a THEN q ELSE reservation[r].status
  BY DEF OutboxTypeOK, QuotaTypeOK, Reservation
<1>3. provider'[r].times = provider[r].times
  OBVIOUS
<1> QED BY <1>1, <1>2, <1>3 DEF Moves

LEMMA SettlementMoves ==
  ASSUME OutboxTypeOK, SettlementMatchesOutcome, UNCHANGED provider,
         NEW c, c.row \in Row, NEW outcome,
         \/ FailItem(c, outcome)
         \/ CompleteItem(c) /\ reservation[c.row].status # "none" /\ provider[c.row].times > 0
         \/ UNCHANGED <<row, quotaVars>>
  PROVE  \A r \in Row : Moves(r)
<1> DEFINE a == c.row
<1>1. row[a] \in OutboxRow /\ reservation[a] \in Reservation
  BY DEF OutboxTypeOK, QuotaTypeOK
<1>2. CASE UNCHANGED <<row, quotaVars>>
  BY <1>2, StillMoves DEF quotaVars
<1>3. LeaseHeld(c) => /\ row[a].status = "sending" /\ row[a].status \notin Terminal
                      /\ reservation[a].status \notin {"committed", "released"}
  BY DEF LeaseHeld, Terminal, SettlementMatchesOutcome
<1>4. /\ \A s \in Terminal : Ended(row[a], s).status = s
      /\ Requeued(row[a]).status = "queued"
  BY <1>1 DEF Ended, Requeued, OutboxRow
<1>5. reservation = [reservation EXCEPT ![a].status = reservation[a].status]
  BY DEF OutboxTypeOK, QuotaTypeOK, Reservation
<1>6. CASE /\ CompleteItem(c) /\ reservation[a].status # "none" /\ provider[a].times > 0
           /\ ~UNCHANGED <<row, quotaVars>>
  <2>1. /\ LeaseHeld(c)
        /\ row' = [row EXCEPT ![a] = Ended(row[a], "sent")]
        /\ Commit(a)
    BY <1>6 DEF CompleteItem, HasReservation
  <2>2. reservation' = [reservation EXCEPT ![a].status = "committed"]
    BY <1>3, <2>1 DEF Commit
  <2>3. Ended(row[a], "sent").status = "sent"
    BY <1>4 DEF Terminal
  <2>4. a \in Row /\ provider[a].times > 0
    BY <1>6
  <2> HIDE DEF a
  <2> QED BY <1>3, <2>1, <2>2, <2>3, <2>4, OneRowMoves
<1>7. CASE FailItem(c, outcome) /\ ~UNCHANGED <<row, quotaVars>>
  <2>1. LeaseHeld(c)
    BY <1>7 DEF FailItem
  <2>2. PICK o, q :
          /\ row' = [row EXCEPT ![a] = o] /\ reservation' = [reservation EXCEPT ![a].status = q]
          /\ q = reservation[a].status \/ (q = "released" /\ o.status \in {"dead", "fallback"})
             \/ q = "ambiguous"
          /\ o.status \in {"dead", "fallback", "delivery_unknown", "queued"}
    <3>1. ASSUME ReleaseIfActive(a) \/ UNCHANGED quotaVars,
                 NEW s \in {"dead", "fallback"}, row' = [row EXCEPT ![a] = Ended(row[a], s)]
          PROVE  \E o, q :
                   /\ row' = [row EXCEPT ![a] = o]
                   /\ reservation' = [reservation EXCEPT ![a].status = q]
                   /\ q = reservation[a].status \/ (q = "released" /\ o.status \in {"dead", "fallback"})
                      \/ q = "ambiguous"
                   /\ o.status \in {"dead", "fallback", "delivery_unknown", "queued"}
      <4>1. Ended(row[a], s).status \in {"dead", "fallback"}
        BY <1>4, <3>1 DEF Terminal
      <4>2. CASE reservation' = [reservation EXCEPT ![a].status = "released"]
        BY <3>1, <4>1, <4>2
      <4>3. CASE UNCHANGED reservation
        BY <1>5, <3>1, <4>1, <4>3
      <4> QED BY <3>1, <4>2, <4>3 DEF ReleaseIfActive, Release, quotaVars
    <3>2. ASSUME MarkAmbiguousIfReserved(a) \/ UNCHANGED quotaVars,
                 row' = [row EXCEPT ![a] = Ended(row[a], "delivery_unknown")]
                 \/ row' = [row EXCEPT ![a] = Requeued(row[a])]
          PROVE  \E o, q :
                   /\ row' = [row EXCEPT ![a] = o]
                   /\ reservation' = [reservation EXCEPT ![a].status = q]
                   /\ q = reservation[a].status \/ (q = "released" /\ o.status \in {"dead", "fallback"})
                      \/ q = "ambiguous"
                   /\ o.status \in {"dead", "fallback", "delivery_unknown", "queued"}
      <4>1. PICK o : row' = [row EXCEPT ![a] = o] /\ o.status \in {"delivery_unknown", "queued"}
        BY <1>4, <3>2 DEF Terminal
      <4>2. CASE reservation' = [reservation EXCEPT ![a].status = "ambiguous"]
        BY <4>1, <4>2
      <4>3. CASE UNCHANGED reservation
        BY <1>5, <4>1, <4>3
      <4> QED BY <3>2, <4>2, <4>3 DEF MarkAmbiguousIfReserved, MarkAmbiguous, quotaVars
    <3> HIDE DEF a
    <3>3. \/ /\ ReleaseIfActive(a) \/ UNCHANGED quotaVars
             /\ \E s \in {"dead", "fallback"} : row' = [row EXCEPT ![a] = Ended(row[a], s)]
          \/ /\ MarkAmbiguousIfReserved(a) \/ UNCHANGED quotaVars
             /\ \/ row' = [row EXCEPT ![a] = Ended(row[a], "delivery_unknown")]
                \/ row' = [row EXCEPT ![a] = Requeued(row[a])]
      BY <1>7, <2>1 DEF FailItem, a
    <3> QED BY <3>1, <3>2, <3>3
  <2>3. reservation[a].status \notin {"committed", "released"} /\ row[a].status \notin Terminal
    BY <1>3, <2>1
  <2> HIDE DEF a
  <2>4. a \in Row
    BY DEF a
  <2> QED BY <2>2, <2>3, <2>4, OneRowMoves
<1> QED BY <1>2, <1>6, <1>7

LEMMA KnowsKept ==
  ASSUME WorkersOK, \A w \in Worker : RunKnows(w), \A r \in Row : Moves(r),
         NEW v \in Worker, NEW o, worker' = [worker EXCEPT ![v] = o],
         o.pc \in {"push", "complete"} => reservation'[o.current.row].status # "none",
         o.pc = "complete" => provider'[o.current.row].times > 0
  PROVE  \A w \in Worker : RunKnows(w)'
<1> SUFFICES ASSUME NEW w \in Worker PROVE RunKnows(w)'
  OBVIOUS
<1>1. worker'[w] = IF w = v THEN o ELSE worker[w]
  BY DEF WorkersOK
<1>2. worker[w].pc \in {"push", "complete"} => worker[w].current.row \in Row
  BY ClaimedRow
<1>3. RunKnows(w)
  OBVIOUS
<1> QED BY <1>1, <1>2, <1>3 DEF RunKnows, Moves

-----------------------------------------------------------------------------
(* Each step moves rows and reservations together, and keeps what runs know. *)

LEMMA NotifyMoves ==
  ASSUME OutboxTypeOK, KeyInv, NEW n \in Row, NEW window, Notify(n, window)
  PROVE  \A r \in Row : Moves(r)
<1> SUFFICES ASSUME NEW r \in Row PROVE Moves(r)
  OBVIOUS
<1>1. UNCHANGED <<reservation, provider>>
  BY DEF Notify, quotaVars
<1>2. row'[r].status \in {row[r].status, "queued"}
      /\ (row[r].status \in Terminal => row'[r] = row[r])
  <2>1. CASE Insert(n, window)
    <3>1. row'[r] = IF r = n THEN [NoRow EXCEPT !.status = "queued", !.expiresIn = window, !.items = {n}]
                             ELSE row[r]
      BY <2>1 DEF Insert, OutboxTypeOK
    <3>2. row[n].status = "none"
      BY DEF Notify, Emitted, KeyInv, KeyRow
    <3> QED BY <3>1, <3>2 DEF NoRow, Terminal
  <2>2. CASE BundleIntoLatest(n)
    <3>1. PICK s \in Row : row[s].status = "queued" /\ row' = [row EXCEPT ![s].items = @ \cup {n}]
      BY <2>2 DEF BundleIntoLatest, QueuedFor
    <3>2. row'[r] = IF r = s THEN [row[s] EXCEPT !.items = @ \cup {n}] ELSE row[r]
      BY <3>1 DEF OutboxTypeOK
    <3>3. row[s] \in OutboxRow
      BY DEF OutboxTypeOK
    <3> QED BY <3>1, <3>2, <3>3 DEF OutboxRow, Terminal
  <2> QED BY <2>1, <2>2 DEF Notify
<1> QED BY <1>1, <1>2 DEF Moves

LEMMA ClaimMoves ==
  ASSUME OutboxTypeOK, NEW v \in Worker, Claim(v)
  PROVE  \A r \in Row : Moves(r)
<1> SUFFICES ASSUME NEW r \in Row PROVE Moves(r)
  OBVIOUS
<1> DEFINE swept == [s \in Row |-> Swept(row[s])]
<1>1. PICK S \in Batches(swept) :
        row' = [s \in Row |-> IF s \in S THEN Leased(swept[s]) ELSE swept[s]]
  BY DEF Claim
<1>2. row'[r] = (IF r \in S THEN Leased(Swept(row[r])) ELSE Swept(row[r]))
      /\ (r \in S => Claimable(Swept(row[r])))
  BY <1>1 DEF Batches
<1>3. row[r] \in OutboxRow
  BY DEF OutboxTypeOK
<1>4. \/ Swept(row[r]) = row[r]
      \/ /\ row[r].status \in {"queued", "sending"}
         /\ \E s \in {"dead", "delivery_unknown"} : Swept(row[r]) = Ended(row[r], s)
  BY DEF Swept, BusinessExpired
<1>5. \A s \in Terminal : Ended(row[r], s).status = s
  BY <1>3 DEF Ended, OutboxRow
<1>6. CASE r \notin S
  <2>1. /\ row'[r].status \in {row[r].status, "dead", "delivery_unknown"}
        /\ row[r].status \in Terminal => row'[r] = row[r]
    BY <1>2, <1>4, <1>5, <1>6 DEF Terminal
  <2> QED BY <2>1 DEF Claim, quotaVars, Moves
<1>7. CASE r \in S
  <2>1. Swept(row[r]) = row[r] /\ row[r].status \in {"queued", "sending"}
    BY <1>2, <1>4, <1>5, <1>7 DEF Claimable, Terminal
  <2>2. row'[r].status = "sending"
    BY <1>2, <1>3, <1>7, <2>1 DEF Leased, OutboxRow
  <2> QED BY <2>1, <2>2 DEF Claim, quotaVars, Moves, Terminal
<1> QED BY <1>6, <1>7

LEMMA PermitMoves ==
  ASSUME OutboxTypeOK, SettlementMatchesOutcome, NEW a \in Row,
         Reserve(a) \/ UNCHANGED quotaVars, UNCHANGED <<row, provider>>
  PROVE  /\ \A r \in Row : Moves(r)
         /\ Reserve(a) /\ Granted(a) => reservation'[a].status # "none"
<1>1. \A r \in Row : reservation'[r] = reservation[r]
                     \/ (reservation[r].status = "none" /\ reservation'[r].status = "reserved")
  BY DEF Reserve, quotaVars, OutboxTypeOK, QuotaTypeOK
<1>2. \A r \in Row : Moves(r)
  BY <1>1 DEF Moves
<1>3. Reserve(a) /\ Granted(a) => reservation'[a].status # "none"
  BY DEF Reserve, Granted, Active, OutboxTypeOK, QuotaTypeOK
<1> QED BY <1>2, <1>3

\* The provider remembers a key only after it took the message.
Remembers == \A r \in Row : provider[r].memory > 0 => provider[r].times > 0

SettlementIInv == SettlementInv /\ Remembers

LEMMA RemembersStep ==
  ASSUME OutboxTypeOK, Remembers, Next
  PROVE  /\ Remembers'
         /\ \A r \in Row : provider[r].times > 0 => provider'[r].times > 0
<1>1. ASSUME NEW w \in Worker, PushAccepted(w)
      PROVE  /\ Remembers'
             /\ \A r \in Row : provider[r].times > 0 => provider'[r].times > 0
  <2> DEFINE a == worker[w].current.row
  <2>1. a \in Row /\ provider[a].times \in Nat
    BY <1>1, ClaimedRow, TypeParts DEF PushAccepted, Pushing, ProviderState
  <2>2. provider'[a].times > 0 /\ \A r \in Row : r # a => provider'[r] = provider[r]
    BY <1>1, <2>1 DEF PushAccepted, OutboxTypeOK
  <2> HIDE DEF a
  <2> QED BY <2>2 DEF Remembers
<1>2. CASE Tick
  <2>1. \A r \in Row : /\ provider'[r].times = provider[r].times
                       /\ provider'[r].memory = Less(provider[r].memory)
                       /\ provider[r].memory \in Nat
    BY <1>2 DEF Tick, OutboxTypeOK, ProviderState
  <2> QED BY <2>1 DEF Remembers, Less
<1>3. CASE UNCHANGED provider
  BY <1>3 DEF Remembers
<1> QED BY NextCases, <1>1, <1>2, <1>3
      DEF Notify, StartRun, Claim, Refuse, AskPermit, PushReconciled, PushUnanswered,
          PushRejected, PushRateLimited, Complete, Fail, Crash, Rollover

LEMMA SettlementStep ==
  ASSUME OutboxTypeOK, KeyInv, SettlementIInv, Next
  PROVE  (\A r \in Row : Moves(r)) /\ (\A w \in Worker : RunKnows(w)')
<1>a. /\ WorkersOK /\ SettlementMatchesOutcome /\ Remembers /\ \A w \in Worker : RunKnows(w)
      /\ \A r \in Row : provider[r].times > 0 => provider'[r].times > 0
  BY TypeParts, RemembersStep DEF SettlementIInv, SettlementInv
<1>b. ASSUME NEW v \in Worker, NEW c, Advance(v, c), \A r \in Row : Moves(r)
      PROVE  \A w \in Worker : RunKnows(w)'
  <2>1. CASE worker[v].batch = {c}
    <3>1. worker' = [worker EXCEPT ![v] = Idle] /\ Idle.pc = "idle"
      BY <1>b, <2>1 DEF Advance, Idle
    <3> QED BY <1>a, <1>b, <3>1, KnowsKept
  <2>2. CASE worker[v].batch # {c}
    <3> DEFINE o == [worker[v] EXCEPT !.pc = "next", !.batch = worker[v].batch \ {c},
                                      !.current = NoClaim]
    <3>1. worker' = [worker EXCEPT ![v] = o]
      BY <1>b, <2>2 DEF Advance
    <3>2. o.pc = "next"
      BY <1>a, ClaimedRow DEF WorkerState
    <3> HIDE DEF o
    <3> QED BY <1>a, <1>b, <3>1, <3>2, KnowsKept
  <2> QED BY <2>1, <2>2
<1>c. ASSUME NEW v \in Worker, Pushing(v), NEW pc \in Outcomes \cup {"complete"}, Goto(v, pc),
             UNCHANGED <<row, reservation>>,
             pc = "complete" => provider'[worker[v].current.row].times > 0
      PROVE  (\A r \in Row : Moves(r)) /\ \A w \in Worker : RunKnows(w)'
  <2>1. \A r \in Row : Moves(r)
    BY <1>a, <1>c, StillMoves
  <2> DEFINE o == [worker[v] EXCEPT !.pc = pc]
  <2>2. worker' = [worker EXCEPT ![v] = o]
    BY <1>c DEF Goto
  <2>3. o.pc = pc /\ o.current = worker[v].current
    BY <1>a, ClaimedRow DEF WorkerState
  <2>4. reservation'[worker[v].current.row].status # "none"
    BY <1>a, <1>c DEF Pushing, RunKnows
  <2> HIDE DEF o
  <2> QED BY <1>a, <1>c, <2>1, <2>2, <2>3, <2>4, KnowsKept
<1>1. ASSUME NEW n \in Row, NEW window \in BusinessWindows, Notify(n, window)
      PROVE  (\A r \in Row : Moves(r)) /\ \A w \in Worker : RunKnows(w)'
  <2>1. \A r \in Row : Moves(r)
    BY <1>1, NotifyMoves
  <2>2. UNCHANGED <<worker, reservation, provider>>
    BY <1>1 DEF Notify, quotaVars
  <2> QED BY <1>a, <2>1, <2>2 DEF RunKnows
<1>2. ASSUME NEW v \in Worker, StartRun(v)
      PROVE  (\A r \in Row : Moves(r)) /\ \A w \in Worker : RunKnows(w)'
  <2>1. UNCHANGED <<row, reservation, provider>>
    BY <1>2 DEF StartRun, RefreshFails, RefreshSucceeds, RefreshProviderUsage, quotaVars
  <2>2. \A r \in Row : Moves(r)
    BY <1>a, <2>1, StillMoves
  <2>3. PICK credential \in BOOLEAN, stale \in BOOLEAN :
          worker' = [worker EXCEPT ![v] = [Idle EXCEPT !.pc = "ready", !.life = WorkerLife,
                                                       !.stale = stale,
                                                       !.credential = credential]]
    BY <1>2 DEF StartRun
  <2> DEFINE o == [Idle EXCEPT !.pc = "ready", !.life = WorkerLife, !.stale = stale,
                               !.credential = credential]
  <2>4. o.pc = "ready" /\ worker' = [worker EXCEPT ![v] = o]
    BY <2>3, ReadyTyped
  <2> HIDE DEF o
  <2> QED BY <1>a, <2>2, <2>4, KnowsKept
<1>3. ASSUME NEW v \in Worker, Claim(v)
      PROVE  (\A r \in Row : Moves(r)) /\ \A w \in Worker : RunKnows(w)'
  <2>1. \A r \in Row : Moves(r)
    BY <1>3, ClaimMoves
  <2>2. PICK o : worker' = [worker EXCEPT ![v] = o] /\ o.pc \in {"idle", "next"}
    <3>1. PICK S, batch :
            worker' = [worker EXCEPT ![v] =
              IF S = {} THEN Idle ELSE [worker[v] EXCEPT !.pc = "next", !.batch = batch]]
      BY <1>3 DEF Claim
    <3>2. Idle.pc = "idle" /\ [worker[v] EXCEPT !.pc = "next", !.batch = batch].pc = "next"
      BY <1>a, ClaimedRow DEF Idle, WorkerState
    <3>3. CASE S = {}
      BY <3>1, <3>2, <3>3
    <3>4. CASE S # {}
      BY <3>1, <3>2, <3>4
    <3> QED BY <3>3, <3>4
  <2> QED BY <1>a, <2>1, <2>2, KnowsKept
<1>4. ASSUME NEW v \in Worker, NEW c \in worker[v].batch, Refuse(v, c)
      PROVE  (\A r \in Row : Moves(r)) /\ \A w \in Worker : RunKnows(w)'
  <2>1. \A r \in Row : Moves(r)
    BY <1>4, <1>a, ClaimedRow, SettlementMoves DEF Refuse
  <2> QED BY <1>4, <1>b, <2>1 DEF Refuse
<1>5. ASSUME NEW v \in Worker, NEW c \in worker[v].batch, AskPermit(v, c)
      PROVE  (\A r \in Row : Moves(r)) /\ \A w \in Worker : RunKnows(w)'
  <2>1. PICK pc \in {"push", "quota_fallback", "ambiguous"} :
          /\ worker' = [worker EXCEPT ![v] = [@ EXCEPT !.pc = pc, !.current = c]]
          /\ Reserve(c.row) \/ UNCHANGED quotaVars
          /\ pc = "push" => Reserve(c.row) /\ Granted(c.row)
    BY <1>5 DEF AskPermit
  <2>2. c.row \in Row /\ UNCHANGED <<row, provider>>
    BY <1>5, <1>a, ClaimedRow DEF AskPermit
  <2>3. /\ \A r \in Row : Moves(r)
        /\ pc = "push" => reservation'[c.row].status # "none"
    BY <1>a, <2>1, <2>2, PermitMoves
  <2> DEFINE o == [worker[v] EXCEPT !.pc = pc, !.current = c]
  <2>4. worker' = [worker EXCEPT ![v] = o] /\ o.pc = pc /\ o.current = c
    BY <1>a, <2>1, ClaimedRow DEF WorkerState
  <2> HIDE DEF o
  <2> QED BY <1>a, <2>1, <2>3, <2>4, KnowsKept
<1>6. ASSUME NEW v \in Worker, PushAccepted(v)
      PROVE  (\A r \in Row : Moves(r)) /\ \A w \in Worker : RunKnows(w)'
  <2>1. Pushing(v) /\ UNCHANGED <<row, reservation>>
        /\ \E pc \in {"complete", "ambiguous"} : Goto(v, pc)
    BY <1>6 DEF PushAccepted, quotaVars
  <2>2. provider'[worker[v].current.row].times > 0
    <3>1. worker[v].current.row \in Row
      BY <2>1, <1>a, ClaimedRow DEF Pushing
    <3>2. provider[worker[v].current.row].times \in Nat
      BY <3>1 DEF OutboxTypeOK, ProviderState
    <3> QED BY <1>6, <3>1, <3>2 DEF PushAccepted, OutboxTypeOK
  <2> QED BY <1>c, <2>1, <2>2 DEF Outcomes
<1>7. ASSUME NEW v \in Worker, PushReconciled(v) \/ PushUnanswered(v) \/ PushRejected(v)
                               \/ PushRateLimited(v)
      PROVE  (\A r \in Row : Moves(r)) /\ \A w \in Worker : RunKnows(w)'
  <2>1. Pushing(v) /\ UNCHANGED <<row, reservation, provider>>
    BY <1>7 DEF PushReconciled, PushUnanswered, PushRejected, PushRateLimited, RefreshFails,
                RefreshSucceeds, RefreshProviderUsage, quotaVars
  <2>2. CASE PushReconciled(v)
    <3>1. worker[v].current.row \in Row
      BY <2>1, <1>a, ClaimedRow DEF Pushing
    <3>2. provider'[worker[v].current.row].times > 0
      BY <1>a, <2>1, <2>2, <3>1 DEF PushReconciled, Remembers
    <3> QED BY <1>c, <2>1, <2>2, <3>2 DEF PushReconciled
  <2>3. CASE ~PushReconciled(v)
    <3>1. PICK pc \in Outcomes : Goto(v, pc) /\ pc # "complete"
      BY <1>7, <2>3 DEF PushUnanswered, PushRejected, PushRateLimited, Outcomes
    <3> QED BY <1>c, <2>1, <3>1
  <2> QED BY <2>2, <2>3
<1>8. ASSUME NEW v \in Worker, Complete(v)
      PROVE  (\A r \in Row : Moves(r)) /\ \A w \in Worker : RunKnows(w)'
  <2>1. worker[v].current.row \in Row
    BY <1>8, <1>a, ClaimedRow DEF Complete
  <2>2. reservation[worker[v].current.row].status # "none" /\ provider[worker[v].current.row].times > 0
    BY <1>8, <1>a DEF Complete, RunKnows
  <2>3. \A r \in Row : Moves(r)
    BY <1>8, <1>a, <2>1, <2>2, SettlementMoves DEF Complete
  <2> QED BY <1>8, <1>b, <2>3 DEF Complete
<1>9. ASSUME NEW v \in Worker, Fail(v)
      PROVE  (\A r \in Row : Moves(r)) /\ \A w \in Worker : RunKnows(w)'
  <2>1. worker[v].current.row \in Row
    BY <1>9, <1>a, ClaimedRow DEF Fail
  <2>2. \A r \in Row : Moves(r)
    BY <1>9, <1>a, <2>1, SettlementMoves DEF Fail
  <2> QED BY <1>9, <1>b, <2>2 DEF Fail
<1>10. ASSUME NEW v \in Worker, Crash(v)
       PROVE  (\A r \in Row : Moves(r)) /\ \A w \in Worker : RunKnows(w)'
  <2>1. worker' = [worker EXCEPT ![v] = Idle] /\ Idle.pc = "idle"
    BY <1>10 DEF Crash, Idle
  <2>2. \A r \in Row : Moves(r)
    BY <1>10, <1>a, StillMoves DEF Crash, quotaVars
  <2> QED BY <1>a, <2>1, <2>2, KnowsKept
<1>11. CASE Tick
  <2>1. /\ \A r \in Row : row[r] \in OutboxRow
        /\ \A r \in Row : row'[r] = [row[r] EXCEPT !.retryIn = Less(@), !.leaseLeft = Less(@),
                                                   !.keyLeft = Less(@), !.expiresIn = Less(@)]
    BY <1>11 DEF Tick, OutboxTypeOK
  <2>2. \A r \in Row : row'[r].status = row[r].status /\ row'[r].items = row[r].items
    BY <2>1 DEF OutboxRow
  <2>3. \A r \in Row : Moves(r)
    BY <1>11, <1>a, <2>2 DEF Moves, Tick
  <2>4. \A w \in Worker : worker[w] \in WorkerState
                          /\ worker'[w] = [worker[w] EXCEPT !.life = Less(@)]
    BY <1>11 DEF Tick, OutboxTypeOK
  <2>5. \A w \in Worker : worker'[w].pc = worker[w].pc /\ worker'[w].current = worker[w].current
    BY <2>4 DEF WorkerState
  <2>6. \A w \in Worker : worker[w].pc \in {"push", "complete"} => worker[w].current.row \in Row
    BY <1>a, ClaimedRow
  <2> QED BY <1>a, <2>3, <2>5, <2>6 DEF RunKnows, Moves
<1>12. CASE Rollover
  <2>1. UNCHANGED <<row, reservation, worker, provider>>
    BY <1>12 DEF Rollover, NewMonth
  <2>2. \A r \in Row : Moves(r)
    BY <1>a, <2>1, StillMoves
  <2> QED BY <1>a, <2>1, <2>2 DEF RunKnows
<1> QED BY NextCases, <1>1, <1>2, <1>3, <1>4, <1>5, <1>6, <1>7, <1>8, <1>9, <1>10, <1>11, <1>12

LEMMA SettlementIInvStep ==
  OutboxTypeOK /\ KeyInv /\ SettlementIInv /\ [Next]_vars => SettlementIInv'
<1> SUFFICES ASSUME OutboxTypeOK, KeyInv, SettlementIInv, [Next]_vars PROVE SettlementIInv'
  OBVIOUS
<1>1. CASE Next
  <2>1. (\A r \in Row : Moves(r)) /\ (\A w \in Worker : RunKnows(w)') /\ Remembers'
    BY <1>1, SettlementStep, RemembersStep DEF SettlementIInv
  <2>2. SettlementMatchesOutcome'
    BY <2>1, MovesKeepOutcome DEF SettlementIInv, SettlementInv
  <2> QED BY <2>1, <2>2 DEF SettlementIInv, SettlementInv
<1>2. CASE UNCHANGED vars
  BY <1>2 DEF vars, SettlementIInv, SettlementInv, SettlementMatchesOutcome, RunKnows, Remembers
<1> QED BY <1>1, <1>2

LEMMA SettlementInit == Init => SettlementIInv
BY DEF Init, QuotaInit, SettlementIInv, SettlementInv, SettlementMatchesOutcome, RunKnows,
       Remembers, NoRow, NoReservation, Idle

\* A row is 'sent' exactly when its reservation is committed, and then the
\* provider has taken the message; budget is given back only with the row.
\* A lease lost or a call repeated cannot part the two.
THEOREM RowAndBudgetSettleAlike == Spec => []SettlementMatchesOutcome
<1>1. SettlementIInv => SettlementMatchesOutcome
  BY DEF SettlementIInv, SettlementInv
<1> QED BY <1>1, KeyInvInit, KeyInvStep, SettlementInit, SettlementIInvStep, OutboxTyping, PTL
        DEF Spec

\* No call of a run that lost its lease, no late notification and no sweep
\* changes the status or the list of a row that is settled.
THEOREM SettledRowsStaySettled == Spec => SettledRowsStay
<1>1. OutboxTypeOK /\ KeyInv /\ SettlementIInv /\ [Next]_vars =>
        [\A r \in Row : row[r].status \in Terminal =>
           /\ row'[r].status = row[r].status
           /\ row'[r].items = row[r].items]_vars
  BY SettlementStep DEF Moves
<1> QED BY <1>1, KeyInvInit, KeyInvStep, SettlementInit, SettlementIInvStep, OutboxTyping, PTL
        DEF Spec, SettledRowsStay
=============================================================================
