----------------------------- MODULE GoogleProofs -----------------------------
(* For every set of events, workers and channels and every budget: as long as no
   run commits after it has lost its job, what the cache lacks is still ahead of
   the stored sync token, and a request for a sync is answered by a listing begun
   after it.

   The argument follows the run that holds the job.  What it has staged is what
   Google has of the events of the pages it has read, except for those changed
   since its listing began; the events of no page it has read are unchanged since
   its token, or it lists everything.  Only its commit touches the cache.

   The types are kept for any sets the changes and the days may be counted in: in the
   naturals for that argument, and within the budgets for type correctness.  The
   channels are followed from their opening to the end of their use. *)
EXTENDS GoogleWatch, TLAPS

\* A run of the worker, the changes counted in C and the days in D.
RunIn(C, D) ==
  [at : {"idle", "context", "first", "more", "commit", "list", "rebuild", "report", "sorry"},
   base : C \cup {None}, staged : [Event -> C \cup {None}], todo : SUBSET Event, next : C,
   seen : [Event -> C], day : D]

Jobs == [status : {"none", "queued", "processing", "done", "dead"}, rerun : BOOLEAN,
         attempts : 0..MaxAttempts, holder : Worker \cup {None}, lapsed : BOOLEAN]

TypedIn(C, D) ==
  /\ google \in [event : [Event -> C], at : [Event -> C], clock : C, oldest : C]
  /\ today \in D
  /\ store \in [cache : [Event -> C], token : C \cup {None}, shown : [Event -> C], day : D]
  /\ job \in Jobs
  /\ run \in [Worker -> RunIn(C, D)]
  /\ asked \in C /\ read \in C /\ late \in BOOLEAN

Stamp == Nat \cup {None}
SomeRun == RunIn(Nat, Nat)
Typed == TypedIn(Nat, Nat)

\* Nobody knows of a change to come.
InThePast ==
  /\ \A e \in Event : google.at[e] <= google.clock
  /\ store.token # None => store.token <= google.clock
  /\ \A w \in Worker : /\ run[w].next <= google.clock
                       /\ run[w].base # None => run[w].base <= google.clock
  /\ asked <= google.clock

\* The cache holds what Google has, of the events not changed since `stamp`.
CurrentTo(stamp) ==
  \A e \in Event : store.cache[e] # google.event[e] => google.at[e] > stamp

\* What a run has staged of an event.
StagedRight(r, e) ==
  /\ e \in r.todo => r.staged[e] = None
  /\ e \notin r.todo /\ google.at[e] <= r.next =>
       IF r.staged[e] = None THEN r.base # None /\ google.at[e] <= r.base
                             ELSE r.staged[e] = google.event[e]

ListsFaithfully(r) ==
  /\ r.at \in {"first", "more", "commit"} /\ r.base # None => CurrentTo(r.base)
  /\ r.at \in {"context", "first"} => r.staged = Unlisted
  /\ r.at \in {"more", "commit"} => \A e \in Event : StagedRight(r, e)
  /\ r.at = "commit" => r.todo = {}

\* A run that nobody has asked to run again has read everything asked for.
AnswersAll(r) ==
  /\ r.at \in {"more", "commit"} => asked <= r.next
  /\ r.at \in {"list", "rebuild", "report"} => asked <= read

HolderRight ==
  \A w \in Worker : HoldsJob(w) =>
    /\ ListsFaithfully(run[w])
    /\ ~job.rerun => AnswersAll(run[w])

OnTime == ~late => NothingMissed /\ HolderRight /\ (job.status = "done" => asked <= read)

IInv == Typed /\ InThePast /\ OnTime

-----------------------------------------------------------------------------
LEMMA RestingIsARun ==
  ASSUME NEW C, NEW D, 0 \in C, 0 \in D PROVE Resting \in RunIn(C, D)
BY DEF Resting, RunIn, Unlisted, NoChange

LEMMA InitRight == Init => IInv
<1> SUFFICES ASSUME Init PROVE IInv
  OBVIOUS
<1> USE SyncAssumption DEF Init, SyncInit
<1>2. Typed
  <2>1. run \in [Worker -> RunIn(Nat, Nat)]
    BY RestingIsARun
  <2>2. NoChange \in [Event -> Nat] /\ NoJob.attempts \in 0..MaxAttempts
    BY DEF NoChange, NoJob
  <2> QED BY <2>1, <2>2 DEF Typed, TypedIn, Jobs, NoJob
<1>3. InThePast
  BY DEF InThePast, NoChange, Resting
<1>4. OnTime
  BY DEF OnTime, NothingMissed, HolderRight, HoldsJob, NoJob, NoChange
<1> QED BY <1>2, <1>3, <1>4 DEF IInv

\* A page brings stamps.
LEMMA PageTyped ==
  ASSUME NEW C, NEW D, TypedIn(C, D), NEW r \in RunIn(C, D), NEW page \in SUBSET Event
  PROVE  WithPage(r, page) \in [Event -> C \cup {None}]
BY DEF TypedIn, RunIn, WithPage

LEMMA ReconciledTyped ==
  ASSUME NEW C, NEW D, TypedIn(C, D), 0 \in C, NEW w \in Worker
  PROVE  Reconciled(run[w]) \in [Event -> C]
BY DEF TypedIn, RunIn, Reconciled

\* What the holder of the job commits is current to the moment its listing began.
LEMMA CommitIsCurrent ==
  ASSUME Typed, NEW w \in Worker, ListsFaithfully(run[w]), run[w].at = "commit"
  PROVE  \A e \in Event : Reconciled(run[w])[e] # google.event[e] => google.at[e] > run[w].next
<1> SUFFICES ASSUME NEW e \in Event, Reconciled(run[w])[e] # google.event[e],
                    ~(google.at[e] > run[w].next)
             PROVE  FALSE
  OBVIOUS
<1>1. run[w].next \in Nat /\ google.at[e] \in Nat /\ run[w].base \in Stamp
  <2>1. run[w] \in SomeRun /\ google.at \in [Event -> Nat]
    BY DEF Typed, TypedIn, SomeRun
  <2> QED BY <2>1 DEF SomeRun, RunIn, Stamp
<1>2. google.at[e] <= run[w].next
  BY <1>1
<1>3. StagedRight(run[w], e) /\ run[w].todo = {}
  BY DEF ListsFaithfully
<1>4. CASE run[w].staged[e] # None
  BY <1>2, <1>3, <1>4 DEF StagedRight, Reconciled
<1>5. CASE run[w].staged[e] = None
  <2>1. run[w].base # None /\ google.at[e] <= run[w].base
    BY <1>2, <1>3, <1>5 DEF StagedRight
  <2>2. Reconciled(run[w])[e] = store.cache[e]
    BY <1>5, <2>1 DEF Reconciled
  <2>3. google.at[e] > run[w].base
    BY <2>1, <2>2 DEF ListsFaithfully, CurrentTo
  <2> QED BY <1>1, <2>1, <2>3 DEF Stamp
<1> QED BY <1>4, <1>5

\* Every step keeps the types.
LEMMA TypesKeptIn ==
  ASSUME NEW C, NEW D, TypedIn(C, D), C \subseteq Nat, 0 \in C, google'.clock \in C,
         D \subseteq Nat, 0 \in D, today' \in D, [Next]_vars
  PROVE  TypedIn(C, D)'
<1> USE SyncAssumption DEF TypedIn, Jobs, NoJob
<1>r. Resting \in RunIn(C, D)
  BY RestingIsARun
<1>s. ASSUME NEW w \in Worker, NEW at \in {"idle", "context", "first", "more", "commit", "list",
                 "rebuild", "report", "sorry"}, run' = [run EXCEPT ![w] = [Resting EXCEPT !.at = at]]
      PROVE  run' \in [Worker -> RunIn(C, D)]
  <2>1. [Resting EXCEPT !.at = at] \in RunIn(C, D)
    BY <1>r DEF RunIn
  <2> QED BY <1>s, <2>1
<1>e. ASSUME google_enqueue_sync
      PROVE  asked' \in C /\ job' \in Jobs
  <2>1. job' = job \/ job' = [job EXCEPT !.rerun = TRUE] \/ job' = [NoJob EXCEPT !.status = "queued"]
    BY <1>e DEF google_enqueue_sync
  <2>3. asked' \in C
    BY <1>e DEF google_enqueue_sync
  <2>4. CASE job' = [NoJob EXCEPT !.status = "queued"]
    <3>1. 0 \in 0..MaxAttempts
      OBVIOUS
    <3> QED BY <2>3, <2>4, <3>1
  <2>5. CASE job' = [job EXCEPT !.rerun = TRUE]
    BY <2>3, <2>5
  <2> QED BY <2>1, <2>3, <2>4, <2>5
<1>1. ASSUME NEW e \in Event, Change(e) PROVE TypedIn(C, D)'
  <2> PICK content \in {0, google.clock + 1} :
        google' = [google EXCEPT !.event[e] = content, !.at[e] = google.clock + 1,
                                 !.clock = @ + 1]
    BY <1>1 DEF Change
  <2>0. google'.clock = google.clock + 1
    OBVIOUS
  <2>1. content \in C /\ google.clock + 1 \in C
    BY <2>0
  <2>2. [google.event EXCEPT ![e] = content] \in [Event -> C]
        /\ [google.at EXCEPT ![e] = google.clock + 1] \in [Event -> C]
    BY <2>1
  <2>3. google' = [event |-> [google.event EXCEPT ![e] = content],
                   at |-> [google.at EXCEPT ![e] = google.clock + 1],
                   clock |-> google.clock + 1, oldest |-> google.oldest]
    OBVIOUS
  <2> QED BY <1>1, <2>1, <2>2, <2>3 DEF Change
<1>2. ASSUME ForgetTokens PROVE TypedIn(C, D)'
  BY <1>2 DEF ForgetTokens
<1>3. ASSUME NextDay PROVE TypedIn(C, D)'
  BY <1>3 DEF NextDay
<1>4. ASSUME EnqueueStale PROVE TypedIn(C, D)'
  BY <1>4, <1>e DEF EnqueueStale
<1>5. ASSUME Lapse PROVE TypedIn(C, D)'
  BY <1>5 DEF Lapse
<1>6. ASSUME complete_google_oauth PROVE TypedIn(C, D)'
  BY <1>6 DEF complete_google_oauth
<1>7. ASSUME NEW w \in Worker, claim_google_sync_job(w) PROVE TypedIn(C, D)'
  <2>1. (IF job.attempts < MaxAttempts THEN job.attempts + 1 ELSE job.attempts) \in 0..MaxAttempts
    OBVIOUS
  <2>2. run' \in [Worker -> RunIn(C, D)]
    BY <1>7, <1>s DEF claim_google_sync_job
  <2> QED BY <1>7, <2>1, <2>2 DEF claim_google_sync_job
<1>8. ASSUME NEW w \in Worker, ReadContext(w) PROVE TypedIn(C, D)'
  <2>0. run[w] \in RunIn(C, D) /\ store.token \in C \cup {None}
    OBVIOUS
  <2>1. [run[w] EXCEPT !.at = "first", !.base = store.token] \in RunIn(C, D)
    BY <2>0 DEF RunIn
  <2>2. run' = [run EXCEPT ![w] = [run[w] EXCEPT !.at = "first", !.base = store.token]]
    BY <1>8 DEF ReadContext
  <2> QED BY <1>8, <2>1, <2>2 DEF ReadContext
<1>9. ASSUME NEW w \in Worker, NEW page \in SUBSET Event, StageFirst(w, page) PROVE TypedIn(C, D)'
  <2>1. WithPage(run[w], page) \in [Event -> C \cup {None}]
    BY PageTyped
  <2> DEFINE at == IF page = Event THEN "commit" ELSE "more"
  <2>0. run[w] \in RunIn(C, D) /\ google.clock \in C /\ Event \ page \in SUBSET Event
        /\ at \in {"commit", "more"}
    OBVIOUS
  <2> HIDE DEF at
  <2>2. [run[w] EXCEPT !.staged = WithPage(run[w], page), !.next = google.clock,
                       !.todo = Event \ page, !.at = at] \in RunIn(C, D)
    BY <2>0, <2>1 DEF RunIn
  <2>3. run' = [run EXCEPT ![w] = [run[w] EXCEPT !.staged = WithPage(run[w], page),
          !.next = google.clock, !.todo = Event \ page, !.at = at]]
    BY <1>9 DEF StageFirst, at
  <2>4. run' \in [Worker -> RunIn(C, D)]
    BY <2>2, <2>3
  <2> QED BY <1>9, <2>4 DEF StageFirst
<1>10. ASSUME NEW w \in Worker, StageRest(w) PROVE TypedIn(C, D)'
  <2>0. run[w] \in RunIn(C, D) /\ run[w].todo \in SUBSET Event
    BY DEF RunIn
  <2>1. WithPage(run[w], run[w].todo) \in [Event -> C \cup {None}]
    BY <2>0, PageTyped
  <2>2. [run[w] EXCEPT !.staged = WithPage(run[w], run[w].todo), !.todo = {}, !.at = "commit"] \in RunIn(C, D)
    BY <2>0, <2>1 DEF RunIn
  <2>3. run' = [run EXCEPT ![w] = [run[w] EXCEPT !.staged = WithPage(run[w], run[w].todo),
                                                 !.todo = {}, !.at = "commit"]]
    BY <1>10 DEF StageRest
  <2>4. run' \in [Worker -> RunIn(C, D)]
    BY <2>2, <2>3
  <2> QED BY <1>10, <2>4 DEF StageRest
<1>11. ASSUME NEW w \in Worker, StartOver(w) PROVE TypedIn(C, D)'
  BY <1>11, <1>s DEF StartOver
<1>12. ASSUME NEW w \in Worker, Commit(w) PROVE TypedIn(C, D)'
  <2>1. run' \in [Worker -> RunIn(C, D)] /\ run[w].next \in C
    BY <1>12, <1>s DEF Commit, RunIn
  <2> QED BY <1>12, <2>1, ReconciledTyped DEF Commit, commit_google_sync
<1>13. ASSUME NEW w \in Worker, ListOccurrences(w) PROVE TypedIn(C, D)'
  <2>0. run[w] \in RunIn(C, D) /\ google.event \in [Event -> C] /\ today \in D
    OBVIOUS
  <2>1. [run[w] EXCEPT !.seen = google.event, !.day = today, !.at = "rebuild"] \in RunIn(C, D)
    BY <2>0 DEF RunIn
  <2>2. run' = [run EXCEPT ![w] =
                  [run[w] EXCEPT !.seen = google.event, !.day = today, !.at = "rebuild"]]
    BY <1>13 DEF ListOccurrences
  <2>3. run' \in [Worker -> RunIn(C, D)]
    BY <2>1, <2>2
  <2> QED BY <1>13, <2>3 DEF ListOccurrences
<1>14. ASSUME NEW w \in Worker, rebuild_google_occurrence_projection(w) PROVE TypedIn(C, D)'
  <2>1. run' \in [Worker -> RunIn(C, D)] /\ run[w].seen \in [Event -> C] /\ run[w].day \in D
    BY <1>14, <1>s DEF rebuild_google_occurrence_projection, RunIn
  <2> QED BY <1>14, <2>1 DEF rebuild_google_occurrence_projection
<1>15. ASSUME NEW w \in Worker, Report(w) PROVE TypedIn(C, D)'
  BY <1>15, <1>r DEF Report, complete_google_sync_job, Finished
<1>16. ASSUME NEW w \in Worker, ReportFailure(w) PROVE TypedIn(C, D)'
  BY <1>16, <1>r DEF ReportFailure, complete_google_sync_job, Failed
<1>17. ASSUME NEW w \in Worker, Fail(w) PROVE TypedIn(C, D)'
  <2>1. run' \in [Worker -> RunIn(C, D)] /\ run[w].next \in C
    BY <1>17, <1>s DEF Fail, GiveUp, RunIn
  <2>2. CASE UNCHANGED <<store, read, late>>
    BY <1>17, <2>1, <2>2 DEF Fail
  <2>3. CASE commit_google_sync(w)
    BY <1>17, <2>1, <2>3, ReconciledTyped DEF Fail, commit_google_sync
  <2> QED BY <1>17, <2>2, <2>3 DEF Fail
<1>18. ASSUME NEW w \in Worker, Die(w) PROVE TypedIn(C, D)'
  BY <1>18, <1>r DEF Die
<1>19. ASSUME NEW w \in Worker, mark_google_reauth_required(w) PROVE TypedIn(C, D)'
  <2>1. run' \in [Worker -> RunIn(C, D)]
    BY <1>19, <1>s DEF mark_google_reauth_required, GiveUp
  <2> QED BY <1>19, <2>1 DEF mark_google_reauth_required
<1>20. ASSUME NEW w \in Worker, revalidate_google_calendar_eligibility(w) PROVE TypedIn(C, D)'
  <2>1. run' \in [Worker -> RunIn(C, D)]
    BY <1>20, <1>s DEF revalidate_google_calendar_eligibility, GiveUp
  <2> QED BY <1>20, <2>1 DEF revalidate_google_calendar_eligibility
<1>21. ASSUME NEW c \in Channel, Announce(c) PROVE TypedIn(C, D)'
  BY <1>21, <1>e DEF Announce
<1>22. ASSUME NEW c \in Channel, Age(c) PROVE TypedIn(C, D)'
  BY <1>22 DEF Age
<1>23. ASSUME NEW c \in Channel, CreateChannel(c) PROVE TypedIn(C, D)'
  BY <1>23 DEF CreateChannel
<1>24. ASSUME NEW c \in Channel, StopChannel(c) PROVE TypedIn(C, D)'
  BY <1>24 DEF StopChannel
<1>25. ASSUME register_google_watch_channel PROVE TypedIn(C, D)'
  BY <1>25 DEF register_google_watch_channel
<1>26. ASSUME mark_google_watch_stopped PROVE TypedIn(C, D)'
  BY <1>26 DEF mark_google_watch_stopped
<1>27. ASSUME RenewalFails PROVE TypedIn(C, D)'
  BY <1>27 DEF RenewalFails
<1>28. ASSUME RenewalCutOff PROVE TypedIn(C, D)'
  <2>1. \/ job' = job
        \/ job' = [job EXCEPT !.status = "dead", !.holder = None, !.lapsed = FALSE]
    BY <1>28 DEF RenewalCutOff
  <2>2. UNCHANGED <<google, today, store, run, asked, read, late>>
    BY <1>28 DEF RenewalCutOff
  <2> QED BY <2>1, <2>2
<1>29. ASSUME UNCHANGED vars PROVE TypedIn(C, D)'
  BY <1>29 DEF vars
<1> QED
  BY <1>1, <1>2, <1>3, <1>4, <1>5, <1>6, <1>7, <1>8, <1>9, <1>10, <1>11, <1>12, <1>13, <1>14,
       <1>15, <1>16, <1>17, <1>18, <1>19, <1>20, <1>21, <1>22, <1>23, <1>24, <1>25, <1>26,
       <1>27, <1>28, <1>29 DEF Next, Sync, SyncNext, Work

\* What a step spends: a change or a day as the clock it is counted against moves on, or
\* trouble or a renewal while neither does.
Spends ==
  \/ /\ left.changes > 0 /\ left' = [left EXCEPT !.changes = @ - 1]
     /\ google'.clock = google.clock + 1 /\ today' = today
  \/ /\ left.days > 0 /\ left' = [left EXCEPT !.days = @ - 1]
     /\ google' = google /\ today' = today + 1
  \/ /\ \/ left' = left
        \/ left.trouble > 0 /\ left' = [left EXCEPT !.trouble = @ - 1]
        \/ left.renewals > 0 /\ left' = [left EXCEPT !.renewals = @ - 1]
     /\ google'.clock = google.clock /\ today' = today

LEMMA StepSpends ==
  ASSUME NEW C, NEW D, TypedIn(C, D), [Next]_vars PROVE Spends
<1> USE DEF Spends
<1>0. google \in [event : [Event -> C], at : [Event -> C], clock : C, oldest : C]
  BY DEF TypedIn
<1>1. ASSUME NEW e \in Event, Change(e) PROVE Spends
  BY <1>0, <1>1 DEF Change
<1>2. ASSUME ForgetTokens PROVE Spends
  BY <1>0, <1>2 DEF ForgetTokens
<1>3. ASSUME NextDay \/ EnqueueStale \/ Lapse \/ complete_google_oauth PROVE Spends
  BY <1>3 DEF NextDay, EnqueueStale, Lapse, complete_google_oauth
<1>4. ASSUME NEW w \in Worker, claim_google_sync_job(w) \/ Work(w) PROVE Spends
  <2>1. UNCHANGED <<google, today, left>>
    BY <1>4 DEF claim_google_sync_job, Work, ReadContext, StageFirst, StageRest, StartOver, Commit,
                ListOccurrences, rebuild_google_occurrence_projection, Report, ReportFailure
  <2> QED BY <2>1
<1>5. ASSUME NEW w \in Worker,
             \/ Fail(w) \/ Die(w)
             \/ mark_google_reauth_required(w) \/ revalidate_google_calendar_eligibility(w)
      PROVE  Spends
  BY <1>5 DEF Fail, Die, mark_google_reauth_required, revalidate_google_calendar_eligibility
<1>6. ASSUME NEW c \in Channel, Announce(c) \/ Age(c) \/ CreateChannel(c) \/ StopChannel(c)
      PROVE  Spends
  BY <1>6 DEF Announce, Age, CreateChannel, StopChannel
<1>7. ASSUME \/ register_google_watch_channel \/ mark_google_watch_stopped
             \/ RenewalFails \/ RenewalCutOff
      PROVE  Spends
  BY <1>7 DEF register_google_watch_channel, mark_google_watch_stopped, RenewalFails, RenewalCutOff
<1>8. ASSUME UNCHANGED vars PROVE Spends
  BY <1>8 DEF vars
<1> QED
  BY <1>1, <1>2, <1>3, <1>4, <1>5, <1>6, <1>7, <1>8 DEF Next, Sync, SyncNext

LEMMA TypesKept ==
  ASSUME Typed, [Next]_vars PROVE Typed'
<1>1. google.clock \in Nat /\ today \in Nat
  BY DEF Typed, TypedIn
<1>2. Spends
  BY StepSpends DEF Typed
<1>3. google'.clock \in Nat /\ today' \in Nat
  BY <1>1, <1>2 DEF Spends
<1> QED BY <1>3, TypesKeptIn DEF Typed

\* No step makes anybody know of a change to come.
LEMMA PastKept ==
  ASSUME Typed, InThePast, [Next]_vars PROVE InThePast'
<1> USE SyncAssumption DEF Typed, TypedIn, InThePast, SomeRun, RunIn, Stamp, Jobs, NoJob, Resting
<1>1. ASSUME NEW e \in Event, Change(e) PROVE InThePast'
  <2>1. /\ UNCHANGED <<store, run, asked>> /\ google'.clock = google.clock + 1
        /\ \A d \in Event : google'.at[d] \in {google.at[d], google.clock + 1}
    BY <1>1 DEF Change
  <2>2. \A n \in Nat : n <= google.clock => n <= google'.clock
    BY <2>1
  <2>3. \A d \in Event : google'.at[d] <= google'.clock
    BY <2>1, <2>2
  <2>4. store'.token # None => store'.token <= google'.clock
    BY <2>1, <2>2
  <2>5. \A v \in Worker : /\ run'[v].next <= google'.clock
                          /\ run'[v].base # None => run'[v].base <= google'.clock
    <3> SUFFICES ASSUME NEW v \in Worker
                 PROVE  /\ run[v].next <= google'.clock
                        /\ run[v].base # None => run[v].base <= google'.clock
      BY <2>1
    <3>1. run[v].next \in Nat /\ (run[v].base # None => run[v].base \in Nat)
      OBVIOUS
    <3>2. run[v].next <= google.clock /\ (run[v].base # None => run[v].base <= google.clock)
      OBVIOUS
    <3> HIDE DEF Typed, InThePast
    <3> QED BY <2>2, <3>1, <3>2
  <2> QED BY <2>1, <2>2, <2>3, <2>4, <2>5
<1>2. ASSUME ForgetTokens PROVE InThePast'
  BY <1>2 DEF ForgetTokens
<1>3. ASSUME NextDay PROVE InThePast'
  BY <1>3 DEF NextDay
<1>4. ASSUME EnqueueStale PROVE InThePast'
  BY <1>4 DEF EnqueueStale, google_enqueue_sync
<1>5. ASSUME Lapse PROVE InThePast'
  BY <1>5 DEF Lapse
<1>6. ASSUME complete_google_oauth PROVE InThePast'
  BY <1>6 DEF complete_google_oauth
<1>7. ASSUME NEW w \in Worker, claim_google_sync_job(w) PROVE InThePast'
  BY <1>7 DEF claim_google_sync_job
<1>8. ASSUME NEW w \in Worker, ReadContext(w) PROVE InThePast'
  BY <1>8 DEF ReadContext
<1>9. ASSUME NEW w \in Worker, NEW page \in SUBSET Event, StageFirst(w, page) PROVE InThePast'
  BY <1>9 DEF StageFirst
<1>10. ASSUME NEW w \in Worker, StageRest(w) PROVE InThePast'
  BY <1>10 DEF StageRest
<1>11. ASSUME NEW w \in Worker, StartOver(w) PROVE InThePast'
  BY <1>11 DEF StartOver
<1>12. ASSUME NEW w \in Worker, Commit(w) PROVE InThePast'
  <2>1. \A v \in Worker : /\ run'[v].next <= google.clock
                          /\ run'[v].base # None => run'[v].base <= google.clock
    BY <1>12 DEF Commit
  <2>2. UNCHANGED <<google, asked>> /\ store'.token = run[w].next
    BY <1>12 DEF Commit, commit_google_sync
  <2>3. run[w].next <= google.clock
    OBVIOUS
  <2> HIDE DEF Typed
  <2> QED BY <2>1, <2>2, <2>3
<1>13. ASSUME NEW w \in Worker, ListOccurrences(w) PROVE InThePast'
  BY <1>13 DEF ListOccurrences
<1>14. ASSUME NEW w \in Worker, rebuild_google_occurrence_projection(w) PROVE InThePast'
  BY <1>14 DEF rebuild_google_occurrence_projection
<1>15. ASSUME NEW w \in Worker, Report(w) PROVE InThePast'
  BY <1>15 DEF Report, complete_google_sync_job, Finished
<1>16. ASSUME NEW w \in Worker, ReportFailure(w) PROVE InThePast'
  BY <1>16 DEF ReportFailure, complete_google_sync_job, Failed
<1>17. ASSUME NEW w \in Worker, Fail(w) PROVE InThePast'
  <2>1. \A v \in Worker : /\ run'[v].next <= google.clock
                          /\ run'[v].base # None => run'[v].base <= google.clock
    BY <1>17 DEF Fail, GiveUp
  <2>2. UNCHANGED <<google,
       asked>> /\ (store'.token = store.token \/ store'.token = run[w].next)
    BY <1>17 DEF Fail, commit_google_sync
  <2>3. store'.token # None => store'.token <= google.clock
    BY <2>2
  <2> HIDE DEF Typed
  <2> QED BY <2>1, <2>2, <2>3
<1>18. ASSUME NEW w \in Worker, Die(w) PROVE InThePast'
  BY <1>18 DEF Die
<1>19. ASSUME NEW w \in Worker, mark_google_reauth_required(w) PROVE InThePast'
  BY <1>19 DEF mark_google_reauth_required, GiveUp
<1>20. ASSUME NEW w \in Worker, revalidate_google_calendar_eligibility(w) PROVE InThePast'
  BY <1>20 DEF revalidate_google_calendar_eligibility, GiveUp
<1>21. ASSUME NEW c \in Channel, Announce(c) PROVE InThePast'
  BY <1>21 DEF Announce, google_enqueue_sync
<1>22. ASSUME NEW c \in Channel, Age(c) PROVE InThePast'
  BY <1>22 DEF Age
<1>23. ASSUME NEW c \in Channel, CreateChannel(c) PROVE InThePast'
  BY <1>23 DEF CreateChannel
<1>24. ASSUME NEW c \in Channel, StopChannel(c) PROVE InThePast'
  BY <1>24 DEF StopChannel
<1>25. ASSUME register_google_watch_channel PROVE InThePast'
  BY <1>25 DEF register_google_watch_channel
<1>26. ASSUME mark_google_watch_stopped PROVE InThePast'
  BY <1>26 DEF mark_google_watch_stopped
<1>27. ASSUME RenewalFails PROVE InThePast'
  BY <1>27 DEF RenewalFails
<1>28. ASSUME RenewalCutOff PROVE InThePast'
  BY <1>28 DEF RenewalCutOff
<1>29. ASSUME UNCHANGED vars PROVE InThePast'
  BY <1>29 DEF vars
<1> QED
  BY <1>1, <1>2, <1>3, <1>4, <1>5, <1>6, <1>7, <1>8, <1>9, <1>10, <1>11, <1>12, <1>13, <1>14,
       <1>15, <1>16, <1>17, <1>18, <1>19, <1>20, <1>21, <1>22, <1>23, <1>24, <1>25, <1>26,
       <1>27, <1>28, <1>29 DEF Next, Sync, SyncNext, Work

\* A change leaves everything true that was said of the past.
LEMMA ChangeKeeps ==
  ASSUME Typed, InThePast, OnTime, NEW e \in Event, Change(e) PROVE OnTime'
<1>1. UNCHANGED <<store, job, run, asked, read, late>>
  BY DEF Change
<1>g. google \in [event : [Event -> Nat], at : [Event -> Nat], clock : Nat, oldest : Nat]
  BY DEF Typed, TypedIn
<1>2. ASSUME NEW d \in Event, NEW n \in Nat, n <= google.clock, ~(google'.at[d] > n)
      PROVE  google'.event[d] = google.event[d] /\ google'.at[d] = google.at[d]
  <2>1. google'.at[d] = google.clock + 1 \/
        (google'.event[d] = google.event[d] /\ google'.at[d] = google.at[d])
    BY <1>g DEF Change
  <2>2. google.clock \in Nat
    BY <1>g
  <2> QED BY <1>2, <2>1, <2>2
<1>3. \A n \in Nat : n <= google.clock /\ CurrentTo(n) => CurrentTo(n)'
  <2> SUFFICES ASSUME NEW n \in Nat, n <= google.clock, CurrentTo(n), NEW d \in Event,
                      store.cache[d] # google'.event[d], ~(google'.at[d] > n)
               PROVE  FALSE
    BY <1>1 DEF CurrentTo
  <2>1. google'.event[d] = google.event[d] /\ google'.at[d] = google.at[d]
    BY <1>2
  <2> QED BY <2>1 DEF CurrentTo
<1>4. ~late => NothingMissed'
  <2> SUFFICES ASSUME ~late, store.token # None PROVE CurrentTo(store.token)'
    BY <1>1 DEF NothingMissed, CurrentTo
  <2>1. store.token \in Nat /\ store.token <= google.clock
    BY DEF Typed, TypedIn, InThePast
  <2>2. CurrentTo(store.token)
    BY DEF OnTime, NothingMissed, CurrentTo
  <2> QED BY <1>1, <1>3, <2>1, <2>2 DEF CurrentTo
<1>5. ASSUME NEW w \in Worker, ListsFaithfully(run[w]) PROVE ListsFaithfully(run[w])'
  <2>0. run[w] \in SomeRun
    BY DEF Typed, TypedIn, SomeRun
  <2>1. run[w].next \in Nat /\ run[w].next <= google.clock
    BY <2>0 DEF SomeRun, RunIn, InThePast
  <2>2. run[w].base # None => run[w].base \in Nat /\ run[w].base <= google.clock
    BY <2>0 DEF SomeRun, RunIn, InThePast
  <2>3. run[w].base # None /\ CurrentTo(run[w].base) => CurrentTo(run[w].base)'
    BY <1>1, <1>3, <2>2 DEF CurrentTo
  <2>4. ASSUME NEW d \in Event, StagedRight(run[w], d) PROVE StagedRight(run[w], d)'
    <3>1. google'.at[d] \in Nat
      BY <1>g DEF Change
    <3>2. google'.at[d] <= run[w].next =>
            google'.event[d] = google.event[d] /\ google'.at[d] = google.at[d]
      BY <1>2, <2>1, <3>1
    <3> QED BY <1>1, <2>4, <3>2 DEF StagedRight
  <2> QED BY <1>1, <1>5, <2>3, <2>4 DEF ListsFaithfully
<1>6. ~late => HolderRight'
  BY <1>1, <1>5 DEF OnTime, HolderRight, HoldsJob, AnswersAll
<1> QED BY <1>1, <1>4, <1>6 DEF OnTime

\* Reading a page keeps the listing of the holder right.
LEMMA PageKeeps ==
  ASSUME Typed, InThePast, OnTime, NEW w \in Worker, NEW page \in SUBSET Event,
         UNCHANGED <<google, store, job, asked, read, late>>,
         run[w].at \in {"first", "more"},
         run[w].at = "more" => page = run[w].todo,
         run' = [run EXCEPT ![w] = run'[w]],
         run'[w].staged = WithPage(run[w], page), run'[w].base = run[w].base,
         run'[w].at \in {"more", "commit"}, run'[w].at = "commit" => run'[w].todo = {},
         run'[w].todo = IF run[w].at = "first" THEN Event \ page ELSE {},
         run'[w].next = IF run[w].at = "first" THEN google.clock ELSE run[w].next
  PROVE  OnTime'
<1> SUFFICES ASSUME ~late PROVE OnTime'
  BY DEF OnTime
<1>1. NothingMissed' /\ (job'.status = "done" => asked' <= read')
  BY DEF OnTime, NothingMissed
<1>2. ASSUME HoldsJob(w) PROVE ListsFaithfully(run'[w])
  <2>1. ListsFaithfully(run[w])
    BY <1>2 DEF OnTime, HolderRight
  <2>2. ASSUME NEW e \in Event PROVE StagedRight(run'[w], e)
    <3>0. /\ google.at[e] \in Nat /\ google.event[e] \in Nat
          /\ run[w].base = None \/ run[w].base \in Nat
      BY DEF Typed, TypedIn, SomeRun, RunIn, Stamp
    <3>1. CASE run[w].at = "first"
      <4>1. run[w].staged[e] = None
        BY <2>1, <3>1 DEF ListsFaithfully, Unlisted
      <4>2. run'[w].staged[e] = IF e \in page /\ (run[w].base = None \/ google.at[e] > run[w].base)
                                THEN google.event[e] ELSE None
        BY <4>1 DEF WithPage
      <4>3. e \in run'[w].todo <=> e \notin page
        BY <3>1
      <4> QED BY <3>0, <4>2, <4>3, SyncAssumption DEF StagedRight
    <3>2. CASE run[w].at = "more"
      <4>1. StagedRight(run[w], e)
        BY <2>1, <3>2 DEF ListsFaithfully
      <4>2. CASE e \in run[w].todo
        <5>1. run[w].staged[e] = None
          BY <4>1, <4>2 DEF StagedRight
        <5>2. run'[w].staged[e] = IF run[w].base = None \/ google.at[e] > run[w].base
                                  THEN google.event[e] ELSE None
          BY <3>2, <4>2, <5>1 DEF WithPage
        <5> QED BY <3>0, <3>2, <5>2, SyncAssumption DEF StagedRight
      <4>3. CASE e \notin run[w].todo
        <5>1. run'[w].staged[e] = run[w].staged[e]
          BY <3>2, <4>3 DEF WithPage
        <5> QED BY <3>2, <4>1, <4>3, <5>1 DEF StagedRight
      <4> QED BY <4>2, <4>3
    <3> QED BY <3>1, <3>2
  <2>3. run'[w].base # None => CurrentTo(run'[w].base)
    BY <2>1 DEF ListsFaithfully
  <2> QED BY <2>2, <2>3 DEF ListsFaithfully
<1>3. ASSUME HoldsJob(w), ~job.rerun PROVE AnswersAll(run'[w])
  BY <1>3 DEF AnswersAll, OnTime, HolderRight, InThePast
<1>4. HolderRight'
  <2> SUFFICES ASSUME NEW v \in Worker, HoldsJob(v)
               PROVE  ListsFaithfully(run'[v]) /\ (~job.rerun => AnswersAll(run'[v]))
    BY DEF HolderRight, HoldsJob, ListsFaithfully, AnswersAll, CurrentTo, StagedRight
  <2>1. CASE v = w
    BY <1>2, <1>3, <2>1
  <2>2. CASE v # w
    <3>1. run'[v] = run[v]
      BY <2>2 DEF Typed, TypedIn
    <3> QED BY <3>1 DEF OnTime, HolderRight
  <2> QED BY <2>1, <2>2
<1> QED BY <1>1, <1>4 DEF OnTime

\* Every step keeps the cache and the listing of the holder right.
LEMMA OnTimeKept ==
  ASSUME Typed, InThePast, OnTime, [Next]_vars PROVE OnTime'
<1> USE SyncAssumption DEF Typed, TypedIn, InThePast, OnTime, NothingMissed, HolderRight, HoldsJob,
       ListsFaithfully, AnswersAll, CurrentTo, StagedRight
<1>1. ASSUME NEW e \in Event, Change(e) PROVE OnTime'
  BY <1>1, ChangeKeeps
<1>2. ASSUME ForgetTokens PROVE OnTime'
  BY <1>2 DEF ForgetTokens
<1>3. ASSUME NextDay PROVE OnTime'
  BY <1>3 DEF NextDay
<1>4. ASSUME EnqueueStale PROVE OnTime'
  BY <1>4 DEF EnqueueStale, google_enqueue_sync
<1>5. ASSUME Lapse PROVE OnTime'
  BY <1>5 DEF Lapse
<1>6. ASSUME complete_google_oauth PROVE OnTime'
  BY <1>6 DEF complete_google_oauth
<1>7. ASSUME NEW w \in Worker, claim_google_sync_job(w) PROVE OnTime'
  BY <1>7 DEF claim_google_sync_job, Resting
<1>8. ASSUME NEW w \in Worker, ReadContext(w) PROVE OnTime'
  BY <1>8 DEF ReadContext
<1>9. ASSUME NEW w \in Worker, NEW page \in SUBSET Event, StageFirst(w, page) PROVE OnTime'
  <2> HIDE DEF Typed, InThePast, OnTime
  <2>0. run[w] \in SomeRun /\ run \in [Worker -> SomeRun]
    BY DEF Typed, TypedIn, SomeRun
  <2>1. run' = [run EXCEPT ![w] = run'[w]] /\ run[w].at = "first"
        /\ run'[w].staged = WithPage(run[w], page) /\ run'[w].base = run[w].base
        /\ run'[w].at = (IF page = Event THEN "commit" ELSE "more")
        /\ run'[w].todo = Event \ page /\ run'[w].next = google.clock
    BY <1>9, <2>0 DEF StageFirst, SomeRun, RunIn
  <2>2. UNCHANGED <<google, store, job, asked, read, late>>
    BY <1>9 DEF StageFirst
  <2> QED BY <2>1, <2>2, PageKeeps
<1>10. ASSUME NEW w \in Worker, StageRest(w) PROVE OnTime'
  <2> HIDE DEF Typed, InThePast, OnTime
  <2>0. run[w] \in SomeRun /\ run \in [Worker -> SomeRun]
    BY DEF Typed, TypedIn, SomeRun
  <2>1. run' = [run EXCEPT ![w] = run'[w]] /\ run[w].at = "more"
        /\ run'[w].staged = WithPage(run[w], run[w].todo) /\ run'[w].base = run[w].base
        /\ run'[w].at = "commit" /\ run'[w].todo = {} /\ run'[w].next = run[w].next
    BY <1>10, <2>0 DEF StageRest, SomeRun, RunIn
  <2>2. UNCHANGED <<google, store, job, asked, read, late>> /\ run[w].todo \in SUBSET Event
    BY <1>10 DEF StageRest, Typed, TypedIn, SomeRun, RunIn
  <2> QED BY <2>1, <2>2, PageKeeps
<1>11. ASSUME NEW w \in Worker, StartOver(w) PROVE OnTime'
  BY <1>11 DEF StartOver, Resting
<1>12. ASSUME NEW w \in Worker, Commit(w) PROVE OnTime'
  <2>1. UNCHANGED <<google, job, asked>> /\ store'.token = run[w].next /\ read' = run[w].next
        /\ store'.cache = Reconciled(run[w]) /\ late' = (late \/ ~HoldsJob(w))
    BY <1>12 DEF Commit, commit_google_sync
  <2>2. CASE ~HoldsJob(w)
    <3>1. late'
      BY <2>1, <2>2
    <3> QED BY <3>1 DEF OnTime
  <2>3. CASE HoldsJob(w) /\ ~late
    <3>1. ListsFaithfully(run[w]) /\ run[w].at = "commit"
      BY <1>12, <2>3 DEF Commit
    <3>2. NothingMissed'
      <4> HIDE DEF ListsFaithfully
      <4> QED BY <2>1, <3>1, CommitIsCurrent
    <3>3. HolderRight'
      BY <1>12, <2>1, <2>3 DEF Commit, Resting
    <3> QED BY <2>1, <2>3, <3>2, <3>3
  <2>4. CASE late
    BY <2>1, <2>4
  <2> QED BY <2>2, <2>3, <2>4
<1>13. ASSUME NEW w \in Worker, ListOccurrences(w) PROVE OnTime'
  BY <1>13 DEF ListOccurrences
<1>14. ASSUME NEW w \in Worker, rebuild_google_occurrence_projection(w) PROVE OnTime'
  BY <1>14 DEF rebuild_google_occurrence_projection
<1>15. ASSUME NEW w \in Worker, Report(w) PROVE OnTime'
  BY <1>15 DEF Report, complete_google_sync_job, Finished
<1>16. ASSUME NEW w \in Worker, ReportFailure(w) PROVE OnTime'
  BY <1>16 DEF ReportFailure, complete_google_sync_job, Failed
<1>17. ASSUME NEW w \in Worker, Fail(w) PROVE OnTime'
  <2>1. CASE UNCHANGED <<store, read, late>>
    BY <1>17, <2>1 DEF Fail, GiveUp, Resting
  <2>2. CASE run[w].at = "commit" /\ commit_google_sync(w)
    <3>1. UNCHANGED <<google, job, asked>> /\ store'.token = run[w].next
          /\ store'.cache = Reconciled(run[w]) /\ late' = (late \/ ~HoldsJob(w))
      BY <1>17, <2>2 DEF Fail, commit_google_sync
    <3>2. CASE late \/ ~HoldsJob(w)
      BY <3>1, <3>2
    <3>3. CASE ~late /\ HoldsJob(w)
      <4>1. ListsFaithfully(run[w])
        BY <3>3
      <4>2. NothingMissed'
        <5> HIDE DEF ListsFaithfully
        <5> QED BY <2>2, <3>1, <4>1, CommitIsCurrent
      <4>3. HolderRight'
        BY <1>17, <3>1, <3>3 DEF Fail, GiveUp, Resting
      <4> QED BY <3>1, <3>3, <4>2, <4>3
    <3> QED BY <3>2, <3>3
  <2> QED BY <1>17, <2>1, <2>2 DEF Fail
<1>18. ASSUME NEW w \in Worker, Die(w) PROVE OnTime'
  BY <1>18 DEF Die, Resting
<1>19. ASSUME NEW w \in Worker, mark_google_reauth_required(w) PROVE OnTime'
  BY <1>19 DEF mark_google_reauth_required, GiveUp
<1>20. ASSUME NEW w \in Worker, revalidate_google_calendar_eligibility(w) PROVE OnTime'
  BY <1>20 DEF revalidate_google_calendar_eligibility, GiveUp
<1>21. ASSUME NEW c \in Channel, Announce(c) PROVE OnTime'
  BY <1>21 DEF Announce, google_enqueue_sync
<1>22. ASSUME NEW c \in Channel, Age(c) PROVE OnTime'
  BY <1>22 DEF Age
<1>23. ASSUME NEW c \in Channel, CreateChannel(c) PROVE OnTime'
  BY <1>23 DEF CreateChannel
<1>24. ASSUME NEW c \in Channel, StopChannel(c) PROVE OnTime'
  BY <1>24 DEF StopChannel
<1>25. ASSUME register_google_watch_channel PROVE OnTime'
  BY <1>25 DEF register_google_watch_channel
<1>26. ASSUME mark_google_watch_stopped PROVE OnTime'
  BY <1>26 DEF mark_google_watch_stopped
<1>27. ASSUME RenewalFails PROVE OnTime'
  BY <1>27 DEF RenewalFails
<1>28. ASSUME RenewalCutOff PROVE OnTime'
  <2>1. /\ UNCHANGED <<google, store, run, asked, read, late>>
        /\ \/ job' = job
           \/ job' = [job EXCEPT !.status = "dead", !.holder = None, !.lapsed = FALSE]
    BY <1>28 DEF RenewalCutOff
  <2>2. CASE job' = job
    BY <2>1, <2>2
  <2>3. CASE job' = [job EXCEPT !.status = "dead", !.holder = None, !.lapsed = FALSE]
    BY <2>1, <2>3
  <2> QED BY <2>1, <2>2, <2>3
<1>29. ASSUME UNCHANGED vars PROVE OnTime'
  BY <1>29 DEF vars
<1> QED
  BY <1>1, <1>2, <1>3, <1>4, <1>5, <1>6, <1>7, <1>8, <1>9, <1>10, <1>11, <1>12, <1>13, <1>14,
       <1>15, <1>16, <1>17, <1>18, <1>19, <1>20, <1>21, <1>22, <1>23, <1>24, <1>25, <1>26,
       <1>27, <1>28, <1>29 DEF Next, Sync, SyncNext, Work

LEMMA Inductive == IInv /\ [Next]_vars => IInv'
BY TypesKept, PastKept, OnTimeKept DEF IInv

LEMMA AlwaysRight == Spec => []IInv
BY InitRight, Inductive, PTL DEF Spec

\* Nothing is missed: whatever changes, failures, deaths, lapses, 410s and failures to
\* answer come between the requests of a run, an event the cache shows otherwise than
\* Google is still to be listed - unless a run committed after it had lost its job.
THEOREM NothingIsMissed == Spec => []NothingMissedOnTime
<1>1. IInv => NothingMissedOnTime
  BY DEF IInv, OnTime, NothingMissedOnTime
<1> QED BY <1>1, AlwaysRight, PTL

\* A sync asked for while a run is under way is not swallowed by it.
THEOREM RequestsAreRead == Spec => []EveryRequestIsRead
<1>1. IInv => EveryRequestIsRead
  BY DEF IInv, OnTime, EveryRequestIsRead
<1> QED BY <1>1, AlwaysRight, PTL

-----------------------------------------------------------------------------
\* The types, with what each counter can come to: a change or a day is spent for every
\* tick of the clock it is counted against.
LeftTyped == left \in [changes : Changes, trouble : Nat, renewals : Nat, days : Day]

WithinBudget ==
  \E b \in Budgets : /\ google.clock + left.changes <= b.changes
                     /\ today + left.days <= b.days

ChannelRow == [app : {"none", "active", "retiring", "stopped"},
               google : {"none", "open", "closed"},
               age : {"new", "ending", "expired"}]
Channels   == [Channel -> ChannelRow]

WatchTyped ==
  /\ conn \in [active : BOOLEAN, reauth : BOOLEAN]
  /\ chan \in Channels
  /\ renewal \in [at : {"idle", "register", "mark"}, ch : Channel \cup {None}]

JobHeld == (job.status = "processing") <=> (job.holder # None)

TypesInv == TypedIn(Changes, Day) /\ LeftTyped /\ WithinBudget /\ WatchTyped /\ JobHeld

\* What a budget allows is an initial segment of the naturals.
LEMMA Counters ==
  /\ Changes \subseteq Nat /\ Day \subseteq Nat
  /\ \A n \in Changes : \A m \in Nat : m <= n => m \in Changes
  /\ \A n \in Day : \A m \in Nat : m <= n => m \in Day
  /\ \A b \in Budgets : \A m \in Nat : /\ m <= b.changes => m \in Changes
                                       /\ m <= b.days => m \in Day
<1>1. \A b \in Budgets : b.changes \in Nat /\ b.days \in Nat
  BY SyncAssumption
<1> QED BY <1>1 DEF Changes, Day

LEMMA TypesStart == Init => TypesInv
<1> SUFFICES ASSUME Init PROVE TypesInv
  OBVIOUS
<1> USE SyncAssumption DEF Init, SyncInit
<1>0. PICK b \in Budgets : left = b
  OBVIOUS
<1>1. /\ b \in [changes : Nat, trouble : Nat, renewals : Nat, days : Nat]
      /\ 0 \in Changes /\ 0 \in Day /\ b.changes \in Changes /\ b.days \in Day
  BY Counters
<1>2. TypedIn(Changes, Day)
  <2>1. run \in [Worker -> RunIn(Changes, Day)]
    BY <1>1, RestingIsARun
  <2>2. NoChange \in [Event -> Changes] /\ 0 \in 0..MaxAttempts
    BY <1>1 DEF NoChange
  <2> QED BY <1>1, <2>1, <2>2 DEF TypedIn, Jobs, NoJob
<1>3. LeftTyped
  BY <1>0, <1>1 DEF LeftTyped
<1>4. WithinBudget
  BY <1>0, <1>1 DEF WithinBudget
<1>5. WatchTyped /\ JobHeld
  BY DEF WatchTyped, Channels, ChannelRow, Unused, NoRenewal, JobHeld, NoJob
<1> QED BY <1>2, <1>3, <1>4, <1>5 DEF TypesInv

\* No step spends what there is not.
LEMMA BudgetKept ==
  ASSUME TypesInv, [Next]_vars
  PROVE  LeftTyped' /\ WithinBudget' /\ google'.clock \in Changes /\ today' \in Day
<1>1. Spends
  BY StepSpends DEF TypesInv
<1>2. PICK b \in Budgets : google.clock + left.changes <= b.changes /\ today + left.days <= b.days
  BY DEF TypesInv, WithinBudget
<1>3. /\ google.clock \in Nat /\ today \in Nat /\ left.changes \in Nat /\ left.days \in Nat
      /\ b.changes \in Nat /\ b.days \in Nat
  BY Counters, SyncAssumption DEF TypesInv, TypedIn, LeftTyped
<1>4. LeftTyped'
  <2>1. left \in [changes : Changes, trouble : Nat, renewals : Nat, days : Day]
    BY DEF TypesInv, LeftTyped
  <2>2. /\ left.changes > 0 => left.changes - 1 \in Changes
        /\ left.days > 0 => left.days - 1 \in Day
        /\ left.trouble > 0 => left.trouble - 1 \in Nat
        /\ left.renewals > 0 => left.renewals - 1 \in Nat
    BY <1>3, <2>1, Counters
  <2> QED BY <1>1, <2>1, <2>2 DEF Spends, LeftTyped
<1>5. google'.clock + left'.changes <= b.changes /\ today' + left'.days <= b.days
  <2>1. left \in [changes : Changes, trouble : Nat, renewals : Nat, days : Day]
    BY DEF TypesInv, LeftTyped
  <2> QED BY <1>1, <1>2, <1>3, <2>1 DEF Spends
<1>6. google'.clock \in Nat /\ today' \in Nat /\ left'.changes \in Nat /\ left'.days \in Nat
  BY <1>1, <1>3, <1>4, Counters DEF Spends, LeftTyped
<1>7. google'.clock <= b.changes /\ today' <= b.days
  BY <1>3, <1>5, <1>6
<1> QED BY <1>4, <1>5, <1>6, <1>7, Counters DEF WithinBudget

\* A job is held while it is processed, and only then.
LEMMA HoldingKept ==
  ASSUME TypesInv, [Next]_vars PROVE JobHeld'
<1> USE SyncAssumption DEF JobHeld
<1>0. JobHeld /\ job \in Jobs
  BY DEF TypesInv, TypedIn
<1> USE DEF Jobs
<1>1. ASSUME google_enqueue_sync PROVE JobHeld'
  BY <1>0, <1>1 DEF google_enqueue_sync, NoJob
<1>2. ASSUME job' = [job EXCEPT !.status = "dead", !.holder = None, !.lapsed = FALSE] PROVE JobHeld'
  BY <1>0, <1>2
<1>3. ASSUME UNCHANGED job PROVE JobHeld'
  BY <1>0, <1>3
<1>4. ASSUME Lapse PROVE JobHeld'
  BY <1>0, <1>4 DEF Lapse
<1>5. ASSUME NEW w \in Worker, claim_google_sync_job(w) PROVE JobHeld'
  BY <1>0, <1>5 DEF claim_google_sync_job
<1>6. ASSUME NEW w \in Worker, Work(w) PROVE JobHeld'
  <2>1. CASE Report(w)
    BY <1>0, <2>1 DEF Report, complete_google_sync_job, Finished
  <2>2. CASE ReportFailure(w)
    BY <1>0, <2>2 DEF ReportFailure, complete_google_sync_job, Failed
  <2>3. CASE UNCHANGED job
    BY <1>3, <2>3
  <2> QED
    BY <1>6, <2>1, <2>2, <2>3 DEF Work, ReadContext, StageFirst, StageRest, StartOver, Commit,
       ListOccurrences, rebuild_google_occurrence_projection
<1>7. ASSUME NEW w \in Worker,
             \/ Fail(w) \/ Die(w)
             \/ mark_google_reauth_required(w) \/ revalidate_google_calendar_eligibility(w)
      PROVE  JobHeld'
  BY <1>2, <1>3, <1>7 DEF Fail, Die, mark_google_reauth_required,
     revalidate_google_calendar_eligibility
<1>8. ASSUME NEW c \in Channel, Announce(c) \/ Age(c) \/ CreateChannel(c) \/ StopChannel(c)
      PROVE  JobHeld'
  BY <1>1, <1>3, <1>8 DEF Announce, Age, CreateChannel, StopChannel
<1>9. ASSUME \/ register_google_watch_channel \/ mark_google_watch_stopped
             \/ RenewalFails \/ RenewalCutOff
      PROVE  JobHeld'
  BY <1>2, <1>3, <1>9 DEF register_google_watch_channel, mark_google_watch_stopped, RenewalFails,
     RenewalCutOff
<1>10. ASSUME \/ \E e \in Event : Change(e)
              \/ ForgetTokens \/ NextDay \/ EnqueueStale \/ complete_google_oauth
       PROVE  JobHeld'
  BY <1>1, <1>3, <1>10 DEF Change, ForgetTokens, NextDay, EnqueueStale, complete_google_oauth
<1>11. ASSUME UNCHANGED vars PROVE JobHeld'
  BY <1>3, <1>11 DEF vars
<1> QED
  BY <1>4, <1>5, <1>6, <1>7, <1>8, <1>9, <1>10, <1>11 DEF Next, Sync, SyncNext

\* A channel that ages stays what it is to the app, and open unless it runs out.
LEMMA AgeRows ==
  ASSUME chan \in Channels, NEW c \in Channel, Age(c)
  PROVE  /\ chan' \in Channels /\ UNCHANGED renewal
         /\ \A d \in Channel :
              /\ chan'[d].app = chan[d].app
              /\ chan[d].google = "open" \/ chan[d].age = "expired"
                   => chan'[d].google = "open" \/ chan'[d].age = "expired"
<1> DEFINE ending  == [chan[c] EXCEPT !.age = "ending"]
           expired == [chan[c] EXCEPT !.age = "expired", !.google = "closed"]
<1>1. /\ UNCHANGED renewal /\ chan[c].age # "expired"
      /\ \E r \in {ending, expired} : chan' = [chan EXCEPT ![c] = r]
  BY DEF Age
<1>2. /\ ending \in ChannelRow /\ ending.app = chan[c].app /\ ending.google = chan[c].google
      /\ expired \in ChannelRow /\ expired.app = chan[c].app /\ expired.age = "expired"
  BY DEF Channels, ChannelRow
<1> HIDE DEF ending, expired
<1> QED BY <1>1, <1>2 DEF Channels

\* The connection and the channels keep their types.
LEMMA WatchTypesKept ==
  ASSUME WatchTyped, [Next]_vars PROVE WatchTyped'
<1> USE DEF WatchTyped, Channels, ChannelRow
<1>1. ASSUME UNCHANGED <<chan, renewal>>, UNCHANGED conn PROVE WatchTyped'
  BY <1>1
<1>2. ASSUME UNCHANGED <<chan, renewal>>,
             conn' \in {[conn EXCEPT !.reauth = TRUE], [active |-> FALSE, reauth |-> FALSE],
                        [active |-> TRUE, reauth |-> FALSE]}
      PROVE  WatchTyped'
  <2>1. conn' \in [active : BOOLEAN, reauth : BOOLEAN]
    <3>1. conn \in [active : BOOLEAN, reauth : BOOLEAN]
      OBVIOUS
    <3>2. [conn EXCEPT !.reauth = TRUE] \in [active : BOOLEAN, reauth : BOOLEAN]
      BY <3>1
    <3>3. /\ [active |-> FALSE, reauth |-> FALSE] \in [active : BOOLEAN, reauth : BOOLEAN]
          /\ [active |-> TRUE, reauth |-> FALSE] \in [active : BOOLEAN, reauth : BOOLEAN]
      OBVIOUS
    <3> QED BY ONLY <1>2, <3>2, <3>3, Zenon
  <2> QED BY <1>2, <2>1
<1>3. ASSUME Sync PROVE WatchTyped'
  <2>1. UNCHANGED <<chan, renewal>>
    BY <1>3 DEF Sync
  <2>2. ASSUME NEW w \in Worker, claim_google_sync_job(w) \/ Work(w) \/ Fail(w) \/ Die(w)
        PROVE  UNCHANGED conn
    BY <2>2 DEF claim_google_sync_job, Work, ReadContext, StageFirst, StageRest, StartOver, Commit,
       ListOccurrences, rebuild_google_occurrence_projection, Report, ReportFailure, Fail, Die
  <2>3. ASSUME NEW w \in Worker,
               mark_google_reauth_required(w) \/ revalidate_google_calendar_eligibility(w)
        PROVE  conn' \in {[conn EXCEPT !.reauth = TRUE], [active |-> FALSE, reauth |-> FALSE]}
    BY <2>3 DEF mark_google_reauth_required, revalidate_google_calendar_eligibility
  <2>4. ASSUME \/ \E e \in Event : Change(e)
               \/ ForgetTokens \/ NextDay \/ EnqueueStale \/ Lapse \/ complete_google_oauth
        PROVE  UNCHANGED conn \/ conn' = [active |-> TRUE, reauth |-> FALSE]
    BY <2>4 DEF Change, ForgetTokens, NextDay, EnqueueStale, Lapse, complete_google_oauth
  <2> HIDE DEF WatchTyped, Channels, ChannelRow
  <2> QED BY <1>1, <1>2, <1>3, <2>1, <2>2, <2>3, <2>4 DEF Sync, SyncNext
<1>4. ASSUME NEW c \in Channel, Announce(c) PROVE WatchTyped'
  BY <1>4 DEF Announce
<1>5. ASSUME NEW c \in Channel, Age(c) PROVE WatchTyped'
  <2>1. chan' \in Channels /\ UNCHANGED <<renewal, conn>>
    BY <1>5, AgeRows DEF Age
  <2> QED BY <2>1
<1>6. ASSUME NEW c \in Channel, CreateChannel(c) PROVE WatchTyped'
  BY <1>6 DEF CreateChannel, Adopt
<1>7. ASSUME NEW c \in Channel, StopChannel(c) PROVE WatchTyped'
  BY <1>7 DEF StopChannel, Adopt
<1>8. ASSUME register_google_watch_channel PROVE WatchTyped'
  BY <1>8 DEF register_google_watch_channel, NoRenewal
<1>9. ASSUME mark_google_watch_stopped PROVE WatchTyped'
  <2>1. PICK app \in {"none", "active", "retiring", "stopped"} :
          chan' = [chan EXCEPT ![renewal.ch].app = app]
    <3>1. chan' = [chan EXCEPT ![renewal.ch].app =
                     IF chan[renewal.ch].app \in {"active", "retiring"} THEN "stopped"
                     ELSE chan[renewal.ch].app]
      BY <1>9 DEF mark_google_watch_stopped
    <3>2. CASE renewal.ch \in Channel
      BY <3>1, <3>2
    <3>3. CASE renewal.ch \notin Channel
      <4>1. chan' = [chan EXCEPT ![renewal.ch].app = "none"]
        BY <3>1, <3>3
      <4> QED BY <4>1
    <3> QED BY <3>2, <3>3
  <2>2. chan' \in Channels
    BY <2>1
  <2> QED BY <1>9, <2>2 DEF mark_google_watch_stopped, NoRenewal
<1>10. ASSUME RenewalFails PROVE WatchTyped'
  BY <1>10 DEF RenewalFails, NoRenewal
<1>11. ASSUME RenewalCutOff PROVE WatchTyped'
  BY <1>1, <1>2, <1>11 DEF RenewalCutOff
<1>12. ASSUME UNCHANGED vars PROVE WatchTyped'
  BY <1>12 DEF vars
<1> QED
  BY <1>3, <1>4, <1>5, <1>6, <1>7, <1>8, <1>9, <1>10, <1>11, <1>12 DEF Next

LEMMA TypesGoOn == TypesInv /\ [Next]_vars => TypesInv'
<1> SUFFICES ASSUME TypesInv, [Next]_vars PROVE TypesInv'
  OBVIOUS
<1>1. LeftTyped' /\ WithinBudget' /\ google'.clock \in Changes /\ today' \in Day
  BY BudgetKept
<1>2. 0 \in Changes /\ 0 \in Day
  <2>1. google'.clock \in Nat /\ google'.clock >= 0 /\ today' \in Nat /\ today' >= 0
    <3>1. Changes \subseteq Nat /\ Day \subseteq Nat
      BY Counters
    <3>2. google'.clock \in Nat /\ today' \in Nat
      BY <1>1, <3>1
    <3> QED BY <3>2
  <2>2. \A n \in Changes : 0 <= n => 0 \in Changes
    BY Counters
  <2>3. \A n \in Day : 0 <= n => 0 \in Day
    BY Counters
  <2> HIDE DEF Changes, Day
  <2> QED BY <1>1, <2>1, <2>2, <2>3
<1>3. TypedIn(Changes, Day)'
  BY <1>1, <1>2, Counters, TypesKeptIn DEF TypesInv
<1> QED BY <1>1, <1>3, HoldingKept, WatchTypesKept DEF TypesInv

\* Type correctness: no counter runs past what was to happen, no job is attempted more
\* often than it may be, and it is held exactly while it is processed.
THEOREM GoogleTypes == Spec => []TypeOK
<1>1. TypesInv => TypeOK
  BY DEF TypesInv, TypedIn, Jobs, RunIn, RunRecord, LeftTyped, WatchTyped, Channels, ChannelRow, JobHeld, TypeOK
<1> QED BY <1>1, TypesStart, TypesGoOn, PTL DEF Spec

-----------------------------------------------------------------------------
\* The channel in use is one Google serves until it runs out; the cron job retires it only
\* as it registers another, and stops only what it has retired.
ChannelsInUse ==
  /\ renewal.at = "register" =>
       /\ renewal.ch \in Channel /\ chan[renewal.ch].app = "none"
       /\ chan[renewal.ch].google = "open" \/ chan[renewal.ch].age = "expired"
  /\ renewal.at = "mark" => renewal.ch \in Channel /\ chan[renewal.ch].app = "retiring"
  /\ \A c \in Channel :
       chan[c].app = "active" => chan[c].google = "open" \/ chan[c].age = "expired"
  /\ (\E c \in Channel : chan[c].app # "none") => \E c \in Channel : chan[c].app = "active"

LEMMA ChannelsKept ==
  ASSUME WatchTyped, ChannelsInUse, [Next]_vars PROVE ChannelsInUse'
<1> USE DEF ChannelsInUse
<1>0. chan \in Channels
  BY DEF WatchTyped
<1> USE DEF Channels, ChannelRow
<1>1. ASSUME UNCHANGED <<chan, renewal>> PROVE ChannelsInUse'
  BY <1>1
<1>2. ASSUME NEW c \in Channel, Age(c) PROVE ChannelsInUse'
  BY <1>0, <1>2, AgeRows
<1>3. ASSUME NEW c \in Channel, CreateChannel(c) PROVE ChannelsInUse'
  BY <1>0, <1>3 DEF CreateChannel, Adopt, Unused
<1>4. ASSUME NEW c \in Channel, StopChannel(c) PROVE ChannelsInUse'
  BY <1>0, <1>4 DEF StopChannel, Adopt
<1>5. ASSUME register_google_watch_channel PROVE ChannelsInUse'
  BY <1>0, <1>5 DEF register_google_watch_channel, NoRenewal
<1>6. ASSUME mark_google_watch_stopped PROVE ChannelsInUse'
  BY <1>0, <1>6 DEF mark_google_watch_stopped, NoRenewal
<1>7. ASSUME RenewalFails PROVE ChannelsInUse'
  BY <1>0, <1>7 DEF RenewalFails, NoRenewal
<1> HIDE DEF ChannelsInUse, Channels, ChannelRow
<1> QED
  BY <1>1, <1>2, <1>3, <1>4, <1>5, <1>6, <1>7 DEF Next, Sync, Announce, RenewalCutOff, vars

\* Replacing a channel leaves no gap, whatever of the renewal fails and however the steps of
\* one run lie among the ageing of the channels: only the channel registered last, running
\* out before it is replaced, can leave the calendar unwatched.
THEOREM WatchIsUnbroken == Spec => []WatchUnbroken
<1>1. Init => WatchTyped /\ ChannelsInUse
  BY TypesStart DEF TypesInv, Init, Unused, NoRenewal, ChannelsInUse
<1>2. WatchTyped /\ ChannelsInUse /\ [Next]_vars => (WatchTyped /\ ChannelsInUse)'
  BY WatchTypesKept, ChannelsKept
<1>3. ChannelsInUse => WatchUnbroken
  BY DEF ChannelsInUse, WatchUnbroken, Admitted
<1> QED BY <1>1, <1>2, <1>3, PTL DEF Spec
=============================================================================
