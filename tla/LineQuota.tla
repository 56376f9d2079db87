----------------------------- MODULE LineQuota -----------------------------
(***************************************************************************)
(* The monthly LINE push budget: private.line_quota_state (one row per     *)
(* billing month) and private.line_quota_reservations (at most one per     *)
(* outbox row, its notification_outbox_id being UNIQUE).  Every operation  *)
(* is one server_tx_* function and one database transaction; the lock on   *)
(* the month's row makes admission atomic.                                 *)
(*                                                                         *)
(* A month that has no row yet is modelled with the values its row would   *)
(* be inserted with (on conflict do nothing), which reads the same.        *)
(***************************************************************************)
EXTENDS Integers, FiniteSets

CONSTANTS
  Row,                   \* outbox rows, the units a reservation is made for
  Priority,              \* [Row -> Priorities], fixed when the row is inserted
  LastMonth,             \* bound: billing months are 1..LastMonth
  AppHardCap,            \* app_hard_cap (200)
  SoftBudget,            \* soft_budget (180)
  CriticalReserve,       \* reserve (20)
  DefaultProviderLimit,  \* provider_limit of a row inserted by reserve (200)
  ProviderReports,       \* what the provider may answer: [limit, consumed]
  RefreshPeriod          \* ticks a refresh stays fresh (15 minutes)

Priorities == {"critical", "normal", "reminder"}
Months     == 1..LastMonth

ASSUME RowAssumption      == IsFiniteSet(Row) /\ Priority \in [Row -> Priorities]
ASSUME CalendarAssumption == LastMonth \in Nat \ {0} /\ RefreshPeriod \in Nat \ {0}
ASSUME BudgetAssumption   ==
  /\ AppHardCap \in Nat /\ SoftBudget \in Nat /\ CriticalReserve \in Nat
  /\ DefaultProviderLimit \in Nat
  /\ ProviderReports \subseteq [limit : Nat, consumed : Nat]

VARIABLES
  month,        \* the current billing month (Asia/Tokyo)
  quota,        \* [Months -> line_quota_state row]
  reservation   \* [Row -> line_quota_reservations row, or NoReservation]

quotaVars == <<month, quota, reservation>>

Active == {"reserved", "ambiguous"}   \* counted, not yet decided

QuotaRow    == [limit : Nat, consumed : Nat, localSuccess : Nat, fresh : 0..RefreshPeriod]
Reservation == [status : Active \cup {"none", "committed", "released"},
                month  : Months \cup {0}]

NoReservation == [status |-> "none", month |-> 0]

QuotaInit ==
  /\ month = 1
  /\ quota = [m \in Months |-> [limit |-> DefaultProviderLimit, consumed |-> 0,
                                localSuccess |-> 0, fresh |-> 0]]
  /\ reservation = [r \in Row |-> NoReservation]

-----------------------------------------------------------------------------
(* Admission.                                                              *)

Smaller(a, b) == IF a <= b THEN a ELSE b
Larger(a, b)  == IF a >= b THEN a ELSE b

InMonth(m, S)   == {r \in Row : reservation[r].month = m /\ reservation[r].status \in S}

\* Mutant: without the lock on the month's row, the reservation another call has
\* just made is not seen.
ActiveReservedUnlocked == Cardinality(InMonth(month, {"ambiguous"}))

ActiveReserved  == Cardinality(InMonth(month, Active))

EffectiveHardLimit == Smaller(quota[month].limit, AppHardCap)
EffectiveUsage     ==
  Larger(quota[month].consumed, quota[month].localSuccess) + ActiveReserved

Threshold(p) ==
  CASE p = "critical" -> EffectiveHardLimit
    [] p = "normal"   -> EffectiveHardLimit - CriticalReserve
    [] p = "reminder" -> Smaller(SoftBudget, EffectiveHardLimit - CriticalReserve)

Permitted(r) == EffectiveUsage + 1 <= Threshold(Priority[r])

\* What server_tx_reserve_line_quota answers: a replay repeats the decision
\* already recorded, and only a row without a reservation is decided afresh.
Granted(r) == IF reservation[r].status = "none"
              THEN Permitted(r)
              ELSE reservation[r].status \in Active \cup {"committed"}

Reserve(r) ==
  /\ reservation' = IF reservation[r].status = "none" /\ Permitted(r)
                    THEN [reservation EXCEPT ![r] = [status |-> "reserved", month |-> month]]
                    ELSE reservation
  /\ UNCHANGED <<month, quota>>

-----------------------------------------------------------------------------
(* Settling a reservation.  A call in any other state raises               *)
(* INVALID_INPUT or INVALID_STATE_TRANSITION, which aborts the caller's    *)
(* transaction: the action is not enabled.                                 *)

\* Mutant: a delivery is counted in the month that runs, not in the one it was reserved in.
CommitInCurrentMonth(r) ==
  /\ reservation[r].status \in Active \cup {"committed"}
  /\ IF reservation[r].status = "committed"
     THEN UNCHANGED <<quota, reservation>>
     ELSE /\ reservation' = [reservation EXCEPT ![r].status = "committed"]
          /\ quota' = [quota EXCEPT ![month].localSuccess = @ + 1]
  /\ UNCHANGED month

Commit(r) ==
  /\ reservation[r].status \in Active \cup {"committed"}
  /\ IF reservation[r].status = "committed"
     THEN UNCHANGED <<quota, reservation>>
     ELSE /\ reservation' = [reservation EXCEPT ![r].status = "committed"]
          /\ quota' = [quota EXCEPT ![reservation[r].month].localSuccess = @ + 1]
  /\ UNCHANGED month

Release(r) ==
  /\ reservation[r].status \in Active \cup {"released"}
  /\ reservation' = [reservation EXCEPT ![r].status = "released"]
  /\ UNCHANGED <<month, quota>>

MarkAmbiguous(r) ==
  /\ reservation[r].status \in Active
  /\ reservation' = [reservation EXCEPT ![r].status = "ambiguous"]
  /\ UNCHANGED <<month, quota>>

\* The provider's answer overwrites limit and consumption of the current month.
RefreshProviderUsage(report) ==
  /\ quota' = [quota EXCEPT ![month] = [@ EXCEPT !.limit    = report.limit,
                                                 !.consumed = report.consumed,
                                                 !.fresh    = RefreshPeriod]]
  /\ UNCHANGED <<month, reservation>>

Stale == quota[month].fresh = 0

-----------------------------------------------------------------------------
(* Time.  A deadline is kept as the ticks left until it, so that the       *)
(* passing of time is a decrement.                                         *)

Less(n) == IF n = 0 THEN 0 ELSE n - 1

AgeQuota == quota' = [m \in Months |-> [quota[m] EXCEPT !.fresh = Less(@)]]

NewMonth ==
  /\ month < LastMonth
  /\ month' = month + 1
  /\ UNCHANGED <<quota, reservation>>

QuotaNext ==
  \/ \E r \in Row : Reserve(r) \/ Commit(r) \/ Release(r) \/ MarkAmbiguous(r)
  \/ \E report \in ProviderReports : RefreshProviderUsage(report)
  \/ AgeQuota /\ UNCHANGED <<month, reservation>>
  \/ NewMonth

QuotaSpec == QuotaInit /\ [][QuotaNext]_quotaVars

-----------------------------------------------------------------------------
(* Properties.                                                             *)

QuotaTypeOK ==
  /\ month \in Months
  /\ quota \in [Months -> QuotaRow]
  /\ reservation \in [Row -> Reservation]
  /\ \A r \in Row : reservation[r].status # "none" => reservation[r].month \in Months

\* Each delivered message is counted exactly once, whatever the number of
\* commits replayed: local_counted_success is the number of committed
\* reservations of its month.
CountedOnce ==
  \A m \in Months : quota[m].localSuccess = Cardinality(InMonth(m, {"committed"}))

Counted(m, P) == {r \in InMonth(m, Active \cup {"committed"}) : Priority[r] \in P}

\* What the server counts of a month, the committed messages and the
\* reservations still open, those of unknown outcome among them, never exceeds
\* the application cap, however reserve, commit, release, ambiguity, refreshes
\* and month changes interleave (LQA02).  Nothing is said of a reservation given
\* back, also when an earlier push of its message may have been delivered: it is
\* not counted, where LQA06 says it is.
HardCapRespected ==
  \A m \in Months : Cardinality(Counted(m, Priorities)) <= AppHardCap

\* Normal and reminder pushes together leave the critical reserve untouched,
\* and reminders stay within the soft budget (LQA01): no order of admissions
\* and settlements lets the lower priorities eat what admission kept back.
BudgetsRespected ==
  \A m \in Months :
    /\ Counted(m, {"normal", "reminder"}) # {} =>
         Cardinality(Counted(m, {"normal", "reminder"})) <= AppHardCap - CriticalReserve
    /\ Cardinality(Counted(m, {"reminder"})) <= SoftBudget

=============================================================================
