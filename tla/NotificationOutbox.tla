------------------------- MODULE NotificationOutbox -------------------------
(***************************************************************************)
(* LINE delivery: private.notification_outbox (channel 'line'), the        *)
(* server_tx_* functions that lease, complete and fail its rows, the       *)
(* send-notifications worker that drains it, and the LINE push API.        *)
(*                                                                         *)
(* A database function is one atomic action.  Between two calls a worker   *)
(* holds only what it was given when it claimed, and any number of workers *)
(* run at once: cron starts one every minute whether or not the last one   *)
(* has ended.  Deadlines are ticks left (LineQuota!Less); a lease token is *)
(* the row's attempt number, 0 when there is none, which is as unique per  *)
(* row as the uuid the code draws at the same moment.                      *)
(***************************************************************************)
EXTENDS LineQuota

CONSTANTS
  Recipient, To,     \* To[n] is who notification n is for
  Canonical,         \* notifications that get an outbox row of their own
  Worker,            \* concurrent send-notifications runs
  BatchLimit,        \* CLAIM_BATCH_LIMIT (20)
  MaxAttempts,       \* MAX_ATTEMPTS (5)
  Lease,             \* LEASE_SECONDS (90), in ticks
  RetryDelay,        \* RETRY_DELAY_SECONDS (60), in ticks
  KeyWindow,         \* provider_retry_expires_at: 23 hours after the first claim
  BusinessWindows,   \* business_expires_at: ticks a producer may allow
  WorkerLife,        \* ticks before the platform stops a run
  ProviderMemory     \* ticks the provider remembers an accepted retry key

\* Notifications are numbered in the order they are emitted; a row has the
\* number of the notification it was inserted for.
ASSUME NumberingAssumption == Row \subseteq Nat \ {0} /\ Canonical \subseteq Row
                              /\ To \in [Row -> Recipient]
\* Only the canonical path sets a priority; a bundle is 'normal'.
ASSUME BundleAssumption == \A n \in Row \ Canonical : Priority[n] = "normal"
ASSUME WorkerAssumption ==
  /\ BatchLimit \in Nat \ {0} /\ MaxAttempts \in Nat \ {0}
  /\ Lease \in Nat \ {0} /\ RetryDelay \in Nat \ {0} /\ KeyWindow \in Nat \ {0}
  /\ BusinessWindows \subseteq Nat /\ WorkerLife \in Nat \ {0}
\* The safety margin of the 23 hour window: a run that claims at its last
\* moment is over before the provider forgets the key.
ASSUME MarginAssumption == ProviderMemory \in Nat /\ ProviderMemory >= KeyWindow + WorkerLife

VARIABLES
  row,        \* private.notification_outbox
  worker,     \* the runs of send-notifications
  provider    \* the LINE push API, per retry key

vars == <<month, quota, reservation, row, worker, provider>>

Terminal == {"sent", "fallback", "delivery_unknown", "dead"}
Outcomes == {"definitive", "quota_fallback", "ambiguous", "transient"}

NoRow == [status |-> "none", attempts |-> 0, retryIn |-> 0, token |-> 0, leaseLeft |-> 0,
          keyLeft |-> 0, expiresIn |-> 0, items |-> {}]

\* What a claim hands to the worker: the body it will send and whether the
\* recipient had an active LINE link.
Claims  == [row : Row, token : Nat, items : SUBSET Row, linked : BOOLEAN]
NoClaim == [row |-> 0, token |-> 0, items |-> {}, linked |-> FALSE]

Idle == [pc |-> "idle", batch |-> {}, current |-> NoClaim, life |-> 0,
         stale |-> FALSE, credential |-> FALSE]

Init ==
  /\ QuotaInit
  /\ row = [r \in Row |-> NoRow]
  /\ worker = [w \in Worker |-> Idle]
  /\ provider = [r \in Row |-> [memory |-> 0, times |-> 0, items |-> {}]]

-----------------------------------------------------------------------------
(* Producers: the trigger on user_notifications.  A notification that the  *)
(* recipient's preferences, urgency or missing LINE link keep in-app       *)
(* changes nothing here.                                                   *)

Emitted == UNION {row[r].items : r \in Row}

QueuedFor(u) == {r \in Row : row[r].status = "queued" /\ To[r] = u}

Insert(n, window) ==
  row' = [row EXCEPT ![n] = [NoRow EXCEPT !.status = "queued", !.expiresIn = window,
                                          !.items = {n}]]

BundleIntoLatest(n) ==
  \E r \in QueuedFor(To[n]) :
    /\ \A other \in QueuedFor(To[n]) : other <= r
    /\ row' = [row EXCEPT ![r].items = @ \cup {n}]

Notify(n, window) ==
  /\ n \notin Emitted
  /\ \A earlier \in Row : earlier < n => earlier \in Emitted
  /\ IF n \in Canonical \/ QueuedFor(To[n]) = {}
     THEN Insert(n, window)
     ELSE BundleIntoLatest(n)
  /\ UNCHANGED <<quotaVars, worker, provider>>

-----------------------------------------------------------------------------
(* A run begins: maybeRefreshLineQuota, then one claim of a batch.         *)

\* Answers of maybeRefreshLineQuota: fresh data is used as it is; stale data
\* is refreshed when there is a credential and the provider and the database
\* answer, and otherwise reported stale.
RefreshSucceeds(credential) ==
  \/ ~Stale /\ UNCHANGED quotaVars
  \/ /\ Stale /\ credential
     /\ \E report \in ProviderReports : RefreshProviderUsage(report)

\* The answer of the call that stores the refresh may be lost.
RefreshFails(credential) == UNCHANGED quotaVars \/ RefreshSucceeds(credential)

\* Mutant: no run starts while a row seems to be in another run's hands.
StartRunUnlessLeased(w) ==
  /\ worker[w].pc = "idle" /\ \A r \in Row : row[r].status # "sending"
  /\ \E credential, stale \in BOOLEAN :
       /\ RefreshFails(credential)
       /\ worker' = [worker EXCEPT ![w] = [Idle EXCEPT !.pc = "ready", !.life = WorkerLife,
                                                       !.stale = stale,
                                                       !.credential = credential]]
  /\ UNCHANGED <<row, provider>>

StartRun(w) ==
  /\ worker[w].pc = "idle"
  /\ \E credential, stale \in BOOLEAN :
       /\ IF stale THEN RefreshFails(credential) ELSE RefreshSucceeds(credential)
       /\ worker' = [worker EXCEPT ![w] = [Idle EXCEPT !.pc = "ready", !.life = WorkerLife,
                                                       !.stale = stale,
                                                       !.credential = credential]]
  /\ UNCHANGED <<row, provider>>

Ended(o, status) == [o EXCEPT !.status = status, !.token = 0, !.leaseLeft = 0]

BusinessExpired(o) == o.status = "queued" /\ o.expiresIn = 0
KeyExpired(o)      == o.attempts > 0 /\ o.keyLeft = 0

Swept(o) == IF BusinessExpired(o) THEN Ended(o, "dead")
            ELSE IF o.status \in {"queued", "sending"} /\ KeyExpired(o)
                 THEN Ended(o, "delivery_unknown")
                 ELSE o

Claimable(o) == \/ o.status = "queued" /\ o.retryIn = 0
                \/ o.status = "sending" /\ o.leaseLeft = 0   \* a dead worker's lease

\* Mutant: every claim opens a new 23 hour window for the same key.
LeasedRenewingKey(o) == [o EXCEPT !.status    = "sending",
                                  !.attempts  = @ + 1,
                                  !.token     = o.attempts + 1,
                                  !.leaseLeft = Lease,
                                  !.keyLeft   = KeyWindow]

Leased(o) == [o EXCEPT !.status    = "sending",
                       !.attempts  = @ + 1,
                       !.token     = o.attempts + 1,
                       !.leaseLeft = Lease,
                       !.keyLeft   = IF o.attempts = 0 THEN KeyWindow ELSE @]

\* The rows one claim takes: as many as the limit allows, critical rows first.
Batches(swept) ==
  LET open == {r \in Row : Claimable(swept[r])}
  IN  {S \in SUBSET open :
         /\ Cardinality(S) = Smaller(BatchLimit, Cardinality(open))
         /\ \A r \in S, s \in open \ S :
              Priority[s] = "critical" => Priority[r] = "critical"}

Claim(w) ==
  /\ worker[w].pc = "ready"
  /\ LET swept == [r \in Row |-> Swept(row[r])]
     IN  \E S \in Batches(swept) : \E linked \in SUBSET S :
           /\ row' = [r \in Row |-> IF r \in S THEN Leased(swept[r]) ELSE swept[r]]
           /\ worker' = [worker EXCEPT ![w] =
                IF S = {} THEN Idle
                ELSE [@ EXCEPT !.pc = "next",
                               !.batch = {[row |-> r, token |-> row[r].attempts + 1,
                                           items |-> row[r].items, linked |-> r \in linked] : r \in S}]]
  /\ UNCHANGED <<quotaVars, provider>>

-----------------------------------------------------------------------------
(* server_tx_complete_ and server_tx_fail_notification_outbox_item: both   *)
(* do nothing unless the caller still holds the row's lease.               *)

LeaseHeld(c) == row[c.row].status = "sending" /\ row[c.row].token = c.token

HasReservation(r) == reservation[r].status # "none"

\* Mutant: the reservation is committed before the lease is looked at.
CompleteItemCommitFirst(c) ==
  LET r == c.row
  IN  /\ IF reservation[r].status \in Active THEN Commit(r) ELSE UNCHANGED quotaVars
      /\ row' = IF LeaseHeld(c) THEN [row EXCEPT ![r] = Ended(@, "sent")] ELSE row

\* The commit raises on a released reservation, and then the whole
\* transaction is undone.
CompleteItem(c) ==
  LET r == c.row
  IN  IF LeaseHeld(c) /\ reservation[r].status # "released"
      THEN /\ row' = [row EXCEPT ![r] = Ended(@, "sent")]
           /\ IF HasReservation(r) THEN Commit(r) ELSE UNCHANGED quotaVars
      ELSE UNCHANGED <<row, quotaVars>>

ReleaseIfActive(r) ==
  IF reservation[r].status \in Active THEN Release(r) ELSE UNCHANGED quotaVars

MarkAmbiguousIfReserved(r) ==
  IF reservation[r].status = "reserved" THEN MarkAmbiguous(r) ELSE UNCHANGED quotaVars

Requeued(o) == [o EXCEPT !.status = "queued", !.retryIn = RetryDelay * o.attempts,
                         !.token = 0, !.leaseLeft = 0]

FailItem(c, outcome) ==
  LET r == c.row
  IN
  \/ /\ ~LeaseHeld(c)
     /\ UNCHANGED <<row, quotaVars>>
  \/ /\ LeaseHeld(c)
     /\ outcome \in {"definitive", "quota_fallback"}
     /\ ReleaseIfActive(r)
     /\ row' = [row EXCEPT ![r] = Ended(@, IF outcome = "definitive" THEN "dead" ELSE "fallback")]
  \/ /\ LeaseHeld(c)
     /\ outcome = "ambiguous"
     /\ MarkAmbiguousIfReserved(r)
     /\ row' = [row EXCEPT ![r] = IF KeyExpired(@) THEN Ended(@, "delivery_unknown")
                                                   ELSE Requeued(@)]
  \/ /\ LeaseHeld(c)
     /\ outcome = "transient"
     /\ IF KeyExpired(row[r])
        THEN UNCHANGED quotaVars /\ row' = [row EXCEPT ![r] = Ended(@, "delivery_unknown")]
        ELSE IF row[r].attempts >= MaxAttempts
        THEN ReleaseIfActive(r) /\ row' = [row EXCEPT ![r] = Ended(@, "dead")]
        ELSE UNCHANGED quotaVars /\ row' = [row EXCEPT ![r] = Requeued(@)]

-----------------------------------------------------------------------------
(* sendOne, for the claimed items one after the other.                     *)

\* The claim returns its rows in the order of their attempts.
Turn(w) == {c \in worker[w].batch : \A d \in worker[w].batch : c.token <= d.token}

Advance(w, c) ==
  worker' = [worker EXCEPT ![w] =
    IF worker[w].batch = {c} THEN Idle
    ELSE [@ EXCEPT !.pc = "next", !.batch = worker[w].batch \ {c},
                   !.current = NoClaim]]

StaleFor(w, c) == worker[w].stale /\ Priority[c.row] # "critical"

\* No LINE link, or quota data too old for a message that is not critical:
\* the item fails without any call to the provider.
Refuse(w, c) ==
  /\ worker[w].pc = "next" /\ c \in Turn(w)
  /\ ~c.linked \/ StaleFor(w, c)
  /\ FailItem(c, IF c.linked THEN "quota_fallback" ELSE "definitive") /\ Advance(w, c)
  /\ UNCHANGED provider

\* The reserve call.  An error (whether or not the call took effect) is
\* treated as ambiguous; without a credential a granted permit is given up.
AskPermit(w, c) ==
  /\ worker[w].pc = "next" /\ c \in Turn(w)
  /\ c.linked /\ ~StaleFor(w, c)
  /\ LET Take(pc) == worker' = [worker EXCEPT ![w] = [@ EXCEPT !.pc = pc, !.current = c]]
         go       == Granted(c.row) /\ worker[w].credential
     IN  \/ Reserve(c.row) /\ go /\ Take("push")
         \/ Reserve(c.row) /\ ~go /\ Take("quota_fallback")
         \/ Reserve(c.row) /\ Take("ambiguous")
         \/ UNCHANGED quotaVars /\ Take("ambiguous")
  /\ UNCHANGED <<row, provider>>

Pushing(w)  == worker[w].pc = "push"
Goto(w, pc) == worker' = [worker EXCEPT ![w].pc = pc]

\* The provider takes the message: a retry key it does not remember is new to
\* it.  The answer may be lost (timeout) or be a 5xx, which says nothing.
PushAccepted(w) ==
  LET c == worker[w].current
  IN  /\ Pushing(w) /\ provider[c.row].memory = 0
      /\ provider' = [provider EXCEPT ![c.row] =
                        [memory |-> ProviderMemory, times |-> @.times + 1,
                         items |-> @.items \cup c.items]]
      /\ Goto(w, "complete") \/ Goto(w, "ambiguous")
      /\ UNCHANGED <<quotaVars, row>>

\* 409: the key was accepted before, which the worker takes for a success.
PushReconciled(w) ==
  /\ Pushing(w) /\ provider[worker[w].current.row].memory > 0
  /\ Goto(w, "complete")
  /\ UNCHANGED <<quotaVars, row, provider>>

\* A timeout or 5xx of a request the provider did not take.
PushUnanswered(w) ==
  /\ Pushing(w) /\ Goto(w, "ambiguous")
  /\ UNCHANGED <<quotaVars, row, provider>>

\* 429: the quota is refreshed; a body that names the monthly limit, or a
\* refresh that failed, means fallback, anything else a transient failure.
PushRateLimited(w) ==
  /\ Pushing(w)
  /\ \/ RefreshSucceeds(worker[w].credential) /\ Goto(w, "transient")
     \/ RefreshSucceeds(worker[w].credential) /\ Goto(w, "quota_fallback")
     \/ RefreshFails(worker[w].credential) /\ Goto(w, "quota_fallback")
  /\ UNCHANGED <<row, provider>>

\* Any other 4xx.
PushRejected(w) ==
  /\ Pushing(w) /\ Goto(w, "definitive")
  /\ UNCHANGED <<quotaVars, row, provider>>

\* The calls that settle the item.  An RPC error is logged and the run goes
\* on with the next item, leaving the row to its lease.
Complete(w) ==
  LET c == worker[w].current
  IN  /\ worker[w].pc = "complete"
      /\ CompleteItem(c) \/ UNCHANGED <<row, quotaVars>>
      /\ Advance(w, c)
      /\ UNCHANGED provider

Fail(w) ==
  LET c == worker[w].current
  IN  /\ worker[w].pc \in Outcomes
      /\ FailItem(c, worker[w].pc) \/ UNCHANGED <<row, quotaVars>>
      /\ Advance(w, c)
      /\ UNCHANGED provider

-----------------------------------------------------------------------------
(* The environment: time, and a run that dies (which includes a run whose  *)
(* claim call fails) or is stopped by the platform.                        *)

Busy(w) == worker[w].pc # "idle"

Crash(w) ==
  /\ Busy(w)
  /\ worker' = [worker EXCEPT ![w] = Idle]
  /\ UNCHANGED <<quotaVars, row, provider>>

Stop(w) == worker[w].life = 0 /\ Crash(w)

\* No run outlives WorkerLife ticks.
Tick ==
  /\ \A w \in Worker : Busy(w) => worker[w].life > 0
  /\ row' = [r \in Row |-> [row[r] EXCEPT !.retryIn = Less(@), !.leaseLeft = Less(@),
                                          !.keyLeft = Less(@), !.expiresIn = Less(@)]]
  /\ worker' = [w \in Worker |-> [worker[w] EXCEPT !.life = Less(@)]]
  /\ provider' = [r \in Row |-> [provider[r] EXCEPT !.memory = Less(@)]]
  /\ AgeQuota
  /\ UNCHANGED <<month, reservation>>

Rollover == NewMonth /\ UNCHANGED <<row, worker, provider>>

SendOne(w) ==
  \/ \E c \in worker[w].batch : Refuse(w, c) \/ AskPermit(w, c)
  \/ PushAccepted(w) \/ PushReconciled(w) \/ PushUnanswered(w)
  \/ PushRateLimited(w) \/ PushRejected(w)
  \/ Complete(w) \/ Fail(w)

Next ==
  \/ \E n \in Row, window \in BusinessWindows : Notify(n, window)
  \/ \E w \in Worker : StartRun(w) \/ Claim(w) \/ SendOne(w) \/ Crash(w)
  \/ Tick
  \/ Rollover

Spec == Init /\ [][Next]_vars

\* Cron starts runs for ever, not every one of them dies before its claim, a
\* run goes on, the platform stops it in the end, and time passes.  Nothing is
\* assumed of producers, of crashes after the claim, or of the provider.
Fairness ==
  /\ WF_vars(Tick)
  /\ \A w \in Worker : /\ WF_vars(StartRun(w)) /\ SF_vars(Claim(w))
                       /\ WF_vars(SendOne(w)) /\ WF_vars(Stop(w))

FairSpec == Spec /\ Fairness
-----------------------------------------------------------------------------
(* What must hold.                                                         *)

OutboxRow ==
  [status : Terminal \cup {"none", "queued", "sending"}, attempts : Nat, retryIn : Nat,
   token : Nat, leaseLeft : Nat, keyLeft : Nat, expiresIn : Nat, items : SUBSET Row]

WorkerState ==
  [pc : Outcomes \cup {"idle", "ready", "next", "push", "complete"},
   batch : SUBSET Claims, current : Claims \cup {NoClaim}, life : 0..WorkerLife,
   stale : BOOLEAN, credential : BOOLEAN]

ProviderState == [memory : Nat, times : Nat, items : SUBSET Row]

\* Types, and the CHECK constraints on the lease columns: a row has a lease
\* exactly while it is 'sending'.
OutboxTypeOK ==
  /\ QuotaTypeOK
  /\ row \in [Row -> OutboxRow]
  /\ worker \in [Worker -> WorkerState]
  /\ provider \in [Row -> ProviderState]
  /\ \A w \in Worker : worker[w].pc \in Outcomes \cup {"push", "complete"} =>
       worker[w].current \in worker[w].batch
  /\ \A r \in Row : row[r].status = "sending" <=> row[r].token # 0

\* No message reaches the recipient twice.  The provider forgets a retry key
\* after ProviderMemory ticks, and leases are shorter than runs, so several
\* runs may push the same row with the same key at any time: only the fixed
\* key and its expiry window keep this true.
NoDoubleDelivery == \A r \in Row : provider[r].times <= 1

\* The row and its reservation end the same way: a row is 'sent' exactly when
\* the provider took the message and its reservation, which it has, was
\* committed, and a reservation is given back only with the row given up.  (So the
\* commit inside complete never meets a released reservation.)
SettlementMatchesOutcome ==
  \A r \in Row :
    /\ row[r].status = "sent" => provider[r].times > 0
    /\ row[r].status = "sent" <=> reservation[r].status = "committed"
    /\ reservation[r].status = "released" => row[r].status \in {"dead", "fallback"}

\* A settled row stays as it was settled, whatever a run that lost its lease
\* still calls.
SettledRowsStay ==
  [][\A r \in Row : row[r].status \in Terminal =>
       /\ row'[r].status = row[r].status
       /\ row'[r].items = row[r].items]_vars

\* Every row that enters the outbox is settled in the end, with any number of
\* crashed runs, lost answers and rate limits on the way.
EveryRowSettles ==
  \A r \in Row : row[r].status = "queued" ~> row[r].status \in Terminal

=============================================================================
