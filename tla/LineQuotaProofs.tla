-------------------------- MODULE LineQuotaProofs --------------------------
(* The budget invariants of LineQuota hold for every cap, reserve and soft *)
(* budget, every set of rows and every behaviour of callers and provider.  *)
EXTENDS LineQuota, FiniteSetTheorems, TLAPS

-----------------------------------------------------------------------------
(* Types.                                                                  *)

LEMMA QuotaTypeInit == QuotaInit => QuotaTypeOK
BY CalendarAssumption, BudgetAssumption
   DEF QuotaInit, QuotaTypeOK, QuotaRow, Reservation, NoReservation, Months

LEMMA QuotaRowCounted ==
  ASSUME NEW q \in QuotaRow PROVE [q EXCEPT !.localSuccess = @ + 1] \in QuotaRow
BY DEF QuotaRow

LEMMA QuotaRowRefreshed ==
  ASSUME NEW q \in QuotaRow, NEW report \in [limit : Nat, consumed : Nat]
  PROVE  [q EXCEPT !.limit = report.limit, !.consumed = report.consumed,
                   !.fresh = RefreshPeriod] \in QuotaRow
<1>1. RefreshPeriod \in 0..RefreshPeriod
  BY CalendarAssumption
<1> QED BY <1>1 DEF QuotaRow

\* Every operation preserves the types of the month, the quota rows and the
\* reservations.
LEMMA QuotaTypeStep == QuotaTypeOK /\ [QuotaNext]_quotaVars => QuotaTypeOK'
<1> SUFFICES ASSUME QuotaTypeOK, [QuotaNext]_quotaVars PROVE QuotaTypeOK'
  OBVIOUS
<1> USE CalendarAssumption, BudgetAssumption
<1> USE DEF QuotaTypeOK, QuotaRow, Reservation, Months, Active
<1>1. ASSUME NEW r \in Row, Reserve(r) PROVE QuotaTypeOK'
  BY <1>1 DEF Reserve
<1>2. ASSUME NEW r \in Row, Commit(r) PROVE QuotaTypeOK'
  <2>1. reservation[r].month \in 1..LastMonth /\ month' = month
    BY <1>2 DEF Commit
  <2>2. CASE reservation[r].status = "committed"
    BY <1>2, <2>2 DEF Commit
  <2>3. CASE reservation[r].status # "committed"
    <3> DEFINE m == reservation[r].month
    <3>0. quota[m] \in QuotaRow
      BY <2>1
    <3>1. [quota[m] EXCEPT !.localSuccess = @ + 1] \in QuotaRow
      <4> HIDE DEF QuotaRow
      <4> QED BY <3>0, QuotaRowCounted
    <3>2. quota' = [quota EXCEPT ![m] = [quota[m] EXCEPT !.localSuccess = @ + 1]]
      BY <1>2, <2>3 DEF Commit
    <3>3. quota' \in [Months -> QuotaRow]
      BY <2>1, <3>1, <3>2
    <3>4. [reservation[r] EXCEPT !.status = "committed"] \in Reservation
      OBVIOUS
    <3>5. reservation' = [reservation EXCEPT ![r] = [reservation[r] EXCEPT !.status = "committed"]]
      BY <1>2, <2>3 DEF Commit
    <3>6. reservation' \in [Row -> Reservation]
      BY <3>4, <3>5
    <3> QED BY <2>1, <3>3, <3>5, <3>6
  <2> QED BY <2>2, <2>3
<1>3. ASSUME NEW r \in Row, Release(r) PROVE QuotaTypeOK'
  BY <1>3 DEF Release
<1>4. ASSUME NEW r \in Row, MarkAmbiguous(r) PROVE QuotaTypeOK'
  BY <1>4 DEF MarkAmbiguous
<1>5. ASSUME NEW report \in ProviderReports, RefreshProviderUsage(report) PROVE QuotaTypeOK'
  <2>1. report \in [limit : Nat, consumed : Nat]
    OBVIOUS
  <2> DEFINE q == [quota[month] EXCEPT !.limit = report.limit, !.consumed = report.consumed,
                                       !.fresh = RefreshPeriod]
  <2>2. quota[month] \in QuotaRow
    OBVIOUS
  <2>4. q \in QuotaRow
    <3> HIDE DEF QuotaRow
    <3> QED BY <2>1, <2>2, QuotaRowRefreshed
  <2>3. quota' = [quota EXCEPT ![month] = q]
    BY <1>5 DEF RefreshProviderUsage
  <2> HIDE DEF q
  <2> QED BY <1>5, <2>4, <2>3 DEF RefreshProviderUsage
<1>6. CASE AgeQuota /\ UNCHANGED <<month, reservation>>
  <2>1. \A n \in 0..RefreshPeriod : Less(n) \in 0..RefreshPeriod
    BY DEF Less
  <2> QED BY <1>6, <2>1 DEF AgeQuota
<1>7. CASE NewMonth
  BY <1>7 DEF NewMonth
<1>8. CASE UNCHANGED quotaVars
  BY <1>8 DEF quotaVars
<1> QED BY <1>1, <1>2, <1>3, <1>4, <1>5, <1>6, <1>7, <1>8 DEF QuotaNext

\* Month, quota rows and reservations keep their types.
THEOREM QuotaTyping == QuotaSpec => []QuotaTypeOK
BY QuotaTypeInit, QuotaTypeStep, PTL DEF QuotaSpec

-----------------------------------------------------------------------------
(* Counting.                                                               *)

CountedAll == Active \cup {"committed"}

LEMMA InMonthFinite ==
  ASSUME NEW m, NEW S
  PROVE  /\ IsFiniteSet(InMonth(m, S))
         /\ Cardinality(InMonth(m, S)) \in Nat
<1>1. InMonth(m, S) \in SUBSET Row
  BY DEF InMonth
<1> QED BY <1>1, RowAssumption, FS_Subset, FS_CardinalityType

LEMMA DisjointCardinality ==
  ASSUME NEW S, NEW T, IsFiniteSet(S), IsFiniteSet(T), S \cap T = {}
  PROVE  Cardinality(S \cup T) = Cardinality(S) + Cardinality(T)
<1>1. Cardinality(S) \in Nat /\ Cardinality(T) \in Nat
  BY FS_CardinalityType
<1>2. Cardinality(S \cap T) = 0
  BY FS_EmptySet
<1>3. Cardinality(S \cup T) = Cardinality(S) + Cardinality(T) - Cardinality(S \cap T)
  BY FS_Union
<1> QED BY <1>1, <1>2, <1>3

\* What is counted in a month is what is open plus what is committed.
LEMMA CountedIsOpenPlusCommitted ==
  ASSUME NEW m
  PROVE  Cardinality(InMonth(m, CountedAll))
         = Cardinality(InMonth(m, Active)) + Cardinality(InMonth(m, {"committed"}))
<1>1. InMonth(m, CountedAll) = InMonth(m, Active) \cup InMonth(m, {"committed"})
  BY DEF InMonth, CountedAll
<1>2. InMonth(m, Active) \cap InMonth(m, {"committed"}) = {}
  BY DEF InMonth, Active
<1> QED BY <1>1, <1>2, InMonthFinite, DisjointCardinality

\* The inductive invariant: besides what is to be shown, it says what all
\* three thresholds are compared with, the whole month's count.
QuotaInv ==
  /\ QuotaTypeOK
  /\ CountedOnce
  /\ \A m \in Months : Cardinality(InMonth(m, CountedAll)) <= AppHardCap
  /\ BudgetsRespected

LEMMA CountedSubset ==
  ASSUME NEW m, NEW P
  PROVE  /\ Counted(m, P) \subseteq InMonth(m, CountedAll)
         /\ IsFiniteSet(Counted(m, P))
         /\ Cardinality(Counted(m, P)) \in Nat
         /\ Cardinality(Counted(m, P)) <= Cardinality(InMonth(m, CountedAll))
<1>1. Counted(m, P) \in SUBSET InMonth(m, CountedAll)
  BY DEF Counted, CountedAll
<1> QED BY <1>1, InMonthFinite, FS_Subset, FS_CardinalityType

LEMMA QuotaInvInit == QuotaInit => QuotaInv
<1> SUFFICES ASSUME QuotaInit PROVE QuotaInv
  OBVIOUS
<1>1. QuotaTypeOK
  BY QuotaTypeInit
<1>2. \A m, S : "none" \notin S => InMonth(m, S) = {}
  BY DEF InMonth, QuotaInit, NoReservation
<1>3. \A m : InMonth(m, CountedAll) = {} /\ InMonth(m, {"committed"}) = {}
  BY <1>2 DEF CountedAll, Active
<1>4. \A m, P : Counted(m, P) = {}
  BY <1>3 DEF Counted, CountedAll
<1>5. CountedOnce
  BY <1>3, FS_EmptySet DEF CountedOnce, QuotaInit
<1>6. BudgetsRespected
  BY <1>4, FS_EmptySet, BudgetAssumption DEF BudgetsRespected
<1> QED BY <1>1, <1>3, <1>5, <1>6, FS_EmptySet, BudgetAssumption DEF QuotaInv

\* A step that changes neither the statuses nor the months of counted
\* reservations, nor localSuccess, keeps the counts.
LEMMA CountsKept ==
  ASSUME QuotaInv, QuotaTypeOK',
         \A m \in Months : quota'[m].localSuccess = quota[m].localSuccess,
         \A m \in Months : InMonth(m, {"committed"})' = InMonth(m, {"committed"}),
         \A m \in Months : InMonth(m, CountedAll)' \subseteq InMonth(m, CountedAll)
  PROVE  QuotaInv'
<1>1. CountedOnce'
  BY DEF QuotaInv, CountedOnce
<1>2. ASSUME NEW m \in Months PROVE Cardinality(InMonth(m, CountedAll)') <= AppHardCap
  <2>1. Cardinality(InMonth(m, CountedAll)') <= Cardinality(InMonth(m, CountedAll))
    BY InMonthFinite, FS_Subset
  <2>2. /\ Cardinality(InMonth(m, CountedAll)) <= AppHardCap
        /\ Cardinality(InMonth(m, CountedAll)) \in Nat
    BY InMonthFinite DEF QuotaInv
  <2>3. Cardinality(InMonth(m, CountedAll)') \in Nat
    BY InMonthFinite, FS_Subset, FS_CardinalityType
  <2> QED BY <2>1, <2>2, <2>3, BudgetAssumption
<1>3. ASSUME NEW m \in Months, NEW P
      PROVE  /\ Counted(m, P)' \subseteq Counted(m, P)
             /\ Cardinality(Counted(m, P)') <= Cardinality(Counted(m, P))
             /\ Cardinality(Counted(m, P)') \in Nat
             /\ Cardinality(Counted(m, P)) \in Nat
  <2>1. Counted(m, P)' \in SUBSET Counted(m, P)
    BY DEF Counted, CountedAll
  <2> QED BY <2>1, CountedSubset, FS_Subset, FS_CardinalityType
<1>4. BudgetsRespected'
  <2> SUFFICES ASSUME NEW m \in Months
               PROVE  /\ Counted(m, {"normal", "reminder"})' # {} =>
                           Cardinality(Counted(m, {"normal", "reminder"})') <= AppHardCap - CriticalReserve
                      /\ Cardinality(Counted(m, {"reminder"})') <= SoftBudget
    BY DEF BudgetsRespected
  <2>1. /\ Counted(m, {"normal", "reminder"}) # {} =>
             Cardinality(Counted(m, {"normal", "reminder"})) <= AppHardCap - CriticalReserve
        /\ Cardinality(Counted(m, {"reminder"})) <= SoftBudget
    BY DEF QuotaInv, BudgetsRespected
  <2>2. Counted(m, {"normal", "reminder"})' # {} =>
             Cardinality(Counted(m, {"normal", "reminder"})') <= AppHardCap - CriticalReserve
    BY <1>3, <2>1, BudgetAssumption
  <2>3. Cardinality(Counted(m, {"reminder"})') <= SoftBudget
    BY <1>3, <2>1, BudgetAssumption
  <2> QED BY <2>2, <2>3
<1> QED BY <1>1, <1>2, <1>4 DEF QuotaInv
-----------------------------------------------------------------------------
(* The steps.                                                              *)

\* A reservation that is admitted: every threshold bounds the month's count
\* with the new one in it, because the usage is at least that count.
LEMMA ReserveKeepsInv ==
  ASSUME QuotaInv, QuotaTypeOK', NEW r \in Row, Reserve(r)
  PROVE  QuotaInv'
<1>1. CASE ~(reservation[r].status = "none" /\ Permitted(r))
  <2>1. reservation' = reservation /\ quota' = quota
    BY <1>1 DEF Reserve
  <2> QED BY <2>1, CountsKept DEF InMonth
<1>2. CASE reservation[r].status = "none" /\ Permitted(r)
  <2>1. /\ reservation' = [reservation EXCEPT ![r] = [status |-> "reserved", month |-> month]]
        /\ quota' = quota /\ month' = month
    BY <1>2 DEF Reserve
  <2>2. month \in Months /\ reservation \in [Row -> Reservation]
    BY DEF QuotaInv, QuotaTypeOK
  <2> DEFINE all == InMonth(month, CountedAll)
  <2>3. r \notin all
    BY <1>2 DEF InMonth, CountedAll, Active
  <2>4. \A m \in Months : InMonth(m, CountedAll)' =
          IF m = month THEN InMonth(m, CountedAll) \cup {r} ELSE InMonth(m, CountedAll)
    BY <1>2, <2>1, <2>2 DEF InMonth, CountedAll, Active
  <2>5. \A m \in Months : InMonth(m, {"committed"})' = InMonth(m, {"committed"})
    BY <1>2, <2>1, <2>2 DEF InMonth
  <2>6. Cardinality(all \cup {r}) = Cardinality(all) + 1
    BY <2>3, InMonthFinite, FS_AddElement
  <2>7. Cardinality(all) = Cardinality(InMonth(month, Active)) + quota[month].localSuccess
    BY <2>2, CountedIsOpenPlusCommitted DEF QuotaInv, CountedOnce
  <2>8. Cardinality(all) \in Nat /\ Cardinality(InMonth(month, Active)) \in Nat
    BY InMonthFinite
  <2>9. quota[month].localSuccess \in Nat /\ quota[month].consumed \in Nat
        /\ quota[month].limit \in Nat
    BY <2>2 DEF QuotaInv, QuotaTypeOK, QuotaRow
  <2>10. Cardinality(all) <= EffectiveUsage /\ EffectiveUsage \in Nat
    BY <2>7, <2>8, <2>9 DEF EffectiveUsage, Larger, ActiveReserved
  <2>11. EffectiveHardLimit <= AppHardCap /\ EffectiveHardLimit \in Nat
    BY <2>9, BudgetAssumption DEF EffectiveHardLimit, Smaller
  <2>12. EffectiveUsage + 1 <= Threshold(Priority[r])
    BY <1>2 DEF Permitted
  <2>13. Priority[r] \in Priorities
    BY RowAssumption
  <2>14. Cardinality(all) + 1 <= AppHardCap
    BY <2>8, <2>10, <2>11, <2>12, <2>13, BudgetAssumption DEF Threshold, Smaller, Priorities
  <2>15. Priority[r] \in {"normal", "reminder"} =>
           Cardinality(all) + 1 <= AppHardCap - CriticalReserve
    BY <2>8, <2>10, <2>11, <2>12, <2>13, BudgetAssumption DEF Threshold, Smaller
  <2>16. Priority[r] = "reminder" => Cardinality(all) + 1 <= SoftBudget
    BY <2>8, <2>10, <2>11, <2>12, <2>13, BudgetAssumption DEF Threshold, Smaller
  <2>17. CountedOnce'
    BY <2>1, <2>5 DEF QuotaInv, CountedOnce
  <2>18. \A m \in Months : Cardinality(InMonth(m, CountedAll)') <= AppHardCap
    BY <2>4, <2>6, <2>14 DEF QuotaInv
  <2>19. \A m \in Months : \A P :
           (m = month /\ Priority[r] \in P) =>
             Cardinality(Counted(m, P)') \in Nat /\ Cardinality(Counted(m, P)') <= Cardinality(all) + 1
    <3> SUFFICES ASSUME NEW m \in Months, NEW P, m = month, Priority[r] \in P
                 PROVE  Cardinality(Counted(m, P)') \in Nat
                        /\ Cardinality(Counted(m, P)') <= Cardinality(all) + 1
      OBVIOUS
    <3>1. Counted(m, P)' \in SUBSET (all \cup {r})
      BY <2>1, <2>2, <2>4 DEF Counted, CountedAll
    <3>2. IsFiniteSet(all \cup {r})
      BY InMonthFinite, FS_AddElement
    <3> QED BY <2>6, <3>1, <3>2, FS_Subset, FS_CardinalityType
  <2>20. \A m \in Months : \A P :
           ~(m = month /\ Priority[r] \in P) => Counted(m, P)' = Counted(m, P)
    BY <1>2, <2>1, <2>2 DEF Counted, InMonth, Active
  <2>21. BudgetsRespected'
    <3> SUFFICES ASSUME NEW m \in Months
                 PROVE  /\ Counted(m, {"normal", "reminder"})' # {} =>
                             Cardinality(Counted(m, {"normal", "reminder"})') <= AppHardCap - CriticalReserve
                        /\ Cardinality(Counted(m, {"reminder"})') <= SoftBudget
      BY DEF BudgetsRespected
    <3>1. Counted(m, {"normal", "reminder"})' # {} =>
             Cardinality(Counted(m, {"normal", "reminder"})') <= AppHardCap - CriticalReserve
      <4>1. CASE m = month /\ Priority[r] \in {"normal", "reminder"}
        BY <2>8, <2>15, <2>19, <4>1, BudgetAssumption
      <4>2. CASE ~(m = month /\ Priority[r] \in {"normal", "reminder"})
        BY <2>20, <4>2 DEF QuotaInv, BudgetsRespected
      <4> QED BY <4>1, <4>2
    <3>2. Cardinality(Counted(m, {"reminder"})') <= SoftBudget
      <4>1. CASE m = month /\ Priority[r] \in {"reminder"}
        BY <2>8, <2>16, <2>19, <4>1, BudgetAssumption
      <4>2. CASE ~(m = month /\ Priority[r] \in {"reminder"})
        BY <2>20, <4>2 DEF QuotaInv, BudgetsRespected
      <4> QED BY <4>1, <4>2
    <3> QED BY <3>1, <3>2
  <2> QED BY <2>17, <2>18, <2>21 DEF QuotaInv
<1> QED BY <1>1, <1>2

\* A commit moves one reservation from open to committed and adds one to the
\* counter: the month's count stays what it was.
LEMMA CommitKeepsInv ==
  ASSUME QuotaInv, QuotaTypeOK', NEW r \in Row, Commit(r)
  PROVE  QuotaInv'
<1>1. CASE reservation[r].status = "committed"
  <2>1. reservation' = reservation /\ quota' = quota
    BY <1>1 DEF Commit
  <2> QED BY <2>1, CountsKept DEF InMonth
<1>2. CASE reservation[r].status # "committed"
  <2> DEFINE n == reservation[r].month
  <2>1. /\ reservation[r].status \in Active
        /\ reservation' = [reservation EXCEPT ![r].status = "committed"]
        /\ quota' = [quota EXCEPT ![n].localSuccess = @ + 1]
    BY <1>2 DEF Commit
  <2>2. /\ n \in Months /\ reservation \in [Row -> Reservation]
        /\ quota \in [Months -> QuotaRow]
    BY <2>1 DEF QuotaInv, QuotaTypeOK, Active
  <2>3. /\ \A s \in Row : reservation'[s].month = reservation[s].month
        /\ \A s \in Row : reservation'[s].status =
                            IF s = r THEN "committed" ELSE reservation[s].status
    BY <2>1, <2>2 DEF Reservation
  <2>4. \A m : InMonth(m, CountedAll)' = InMonth(m, CountedAll)
    BY <2>1, <2>3 DEF InMonth, CountedAll
  <2>5. \A m : InMonth(m, {"committed"})' =
          IF m = n THEN InMonth(m, {"committed"}) \cup {r} ELSE InMonth(m, {"committed"})
    BY <1>2, <2>3 DEF InMonth
  <2>6. r \notin InMonth(n, {"committed"})
    BY <1>2 DEF InMonth
  <2>7. Cardinality(InMonth(n, {"committed"}) \cup {r}) = Cardinality(InMonth(n, {"committed"})) + 1
    BY <2>6, InMonthFinite, FS_AddElement
  <2>8. \A m \in Months : quota'[m].localSuccess =
          IF m = n THEN quota[m].localSuccess + 1 ELSE quota[m].localSuccess
    BY <2>1, <2>2 DEF QuotaRow
  <2>9. CountedOnce'
    BY <2>5, <2>7, <2>8 DEF QuotaInv, CountedOnce
  <2>10. \A m, P : Counted(m, P)' = Counted(m, P)
    BY <2>4 DEF Counted, CountedAll
  <2>11. BudgetsRespected'
    BY <2>10 DEF QuotaInv, BudgetsRespected
  <2> QED BY <2>4, <2>9, <2>11 DEF QuotaInv
<1> QED BY <1>1, <1>2

LEMMA QuotaInvStep == QuotaInv /\ [QuotaNext]_quotaVars => QuotaInv'
<1> SUFFICES ASSUME QuotaInv, [QuotaNext]_quotaVars PROVE QuotaInv'
  OBVIOUS
<1>0. QuotaTypeOK /\ QuotaTypeOK'
  BY QuotaTypeStep DEF QuotaInv
<1>a. /\ reservation \in [Row -> Reservation] /\ quota \in [Months -> QuotaRow]
      /\ month \in Months
  BY <1>0 DEF QuotaTypeOK
<1>1. ASSUME NEW r \in Row, Reserve(r) PROVE QuotaInv'
  BY <1>0, <1>1, ReserveKeepsInv
<1>2. ASSUME NEW r \in Row, Commit(r) PROVE QuotaInv'
  BY <1>0, <1>2, CommitKeepsInv
<1>3. ASSUME NEW r \in Row, Release(r) \/ MarkAmbiguous(r) PROVE QuotaInv'
  <2>1. /\ quota' = quota
        /\ \A s \in Row : reservation'[s].month = reservation[s].month
        /\ \A s \in Row \ {r} : reservation'[s].status = reservation[s].status
        /\ reservation[r].status # "committed"
        /\ reservation'[r].status \in {"released", "ambiguous"}
        /\ reservation'[r].status = "ambiguous" => reservation[r].status \in Active
    BY <1>3, <1>a DEF Release, MarkAmbiguous, Active, Reservation
  <2>2. \A m : InMonth(m, {"committed"})' = InMonth(m, {"committed"})
    BY <2>1 DEF InMonth
  <2>3. \A m : InMonth(m, CountedAll)' \subseteq InMonth(m, CountedAll)
    BY <2>1 DEF InMonth, CountedAll, Active
  <2> QED BY <1>0, <2>1, <2>2, <2>3, CountsKept
<1>4. ASSUME NEW report \in ProviderReports, RefreshProviderUsage(report) PROVE QuotaInv'
  <2>1. \A m \in Months : quota'[m].localSuccess = quota[m].localSuccess
    BY <1>4, <1>a DEF RefreshProviderUsage, QuotaRow
  <2> QED BY <1>0, <1>4, <2>1, CountsKept DEF RefreshProviderUsage, InMonth
<1>5. CASE AgeQuota /\ UNCHANGED <<month, reservation>>
  <2>1. \A m \in Months : quota'[m].localSuccess = quota[m].localSuccess
    BY <1>5, <1>a DEF AgeQuota, QuotaRow
  <2> QED BY <1>0, <1>5, <2>1, CountsKept DEF InMonth
<1>6. CASE NewMonth
  BY <1>0, <1>6, CountsKept DEF NewMonth, InMonth
<1>7. CASE UNCHANGED quotaVars
  BY <1>0, <1>7, CountsKept DEF quotaVars, InMonth
<1> QED BY <1>1, <1>2, <1>3, <1>4, <1>5, <1>6, <1>7 DEF QuotaNext

LEMMA QuotaInvAlways == QuotaSpec => []QuotaInv
BY QuotaInvInit, QuotaInvStep, PTL DEF QuotaSpec

\* local_counted_success is the number of committed reservations of its month.
THEOREM CommitsCountOnce == QuotaSpec => []CountedOnce
<1>1. QuotaInv => CountedOnce
  BY DEF QuotaInv
<1> QED BY <1>1, QuotaInvAlways, PTL

\* What the server counts of a month, committed and still open, stays within the
\* hard cap; a reservation given back is not counted, whatever became of its message.
THEOREM HardCapHolds == QuotaSpec => []HardCapRespected
<1>1. QuotaInv => HardCapRespected
  <2>1. \A m \in Months : Counted(m, Priorities) = InMonth(m, CountedAll)
    BY RowAssumption DEF Counted, InMonth, CountedAll
  <2> QED BY <2>1 DEF QuotaInv, HardCapRespected
<1> QED BY <1>1, QuotaInvAlways, PTL

\* Normal and reminder pushes leave the critical reserve, and reminders stay
\* within the soft budget.
THEOREM BudgetsHold == QuotaSpec => []BudgetsRespected
<1>1. QuotaInv => BudgetsRespected
  BY DEF QuotaInv
<1> QED BY <1>1, QuotaInvAlways, PTL
=============================================================================
