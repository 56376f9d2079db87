------------------------------- MODULE GoogleSync -------------------------------
(* The copy of a household's Google calendar: the queue of sync jobs, the worker
   process-google-sync, and what it keeps - the canonical cache with its sync
   token, and the rolling snapshot of occurrences.

   One calendar connection.  An event's content is the number of the change that
   wrote it, 0 when there is no such event; a sync token is the number of the last
   change its holder has been told of. *)
EXTENDS Naturals, FiniteSets

CONSTANTS Event, Worker, None, MaxAttempts,
          Budgets      \* what may happen: [changes, trouble, renewals, days]

ASSUME SyncAssumption ==
  /\ None \notin Worker \cup Nat /\ MaxAttempts \in Nat \ {0}
  /\ Budgets \subseteq [changes : Nat, trouble : Nat, renewals : Nat, days : Nat]

VARIABLES
  google,      \* the events at Google, and when each last changed
  today,       \* the day in Tokyo
  conn,        \* the row of calendar_connections: active, reauth
  store,       \* calendar_events_cache, google_sync_state, the occurrence snapshot
  job,         \* the newest row of google_sync_jobs
  run,         \* the runs of the worker
  asked, read, \* history: the newest change when a sync was last asked for, and when
               \* the listing last committed began
  late,        \* history: a run committed after it had lost its job
  left         \* what is left of the budget

syncVars == <<google, today, conn, store, job, run, asked, read, late, left>>

Changes == UNION {0..b.changes : b \in Budgets}
Day == UNION {0..b.days : b \in Budgets}
NoChange == [e \in Event |-> 0]
Unlisted == [e \in Event |-> None]

NoJob == [status |-> "none", rerun |-> FALSE, attempts |-> 0, holder |-> None, lapsed |-> FALSE]
Resting == [at |-> "idle", base |-> None, staged |-> Unlisted, todo |-> {}, next |-> 0,
            seen |-> NoChange, day |-> 0]

-----------------------------------------------------------------------------
\* Google.

Change(e) ==
  /\ left.changes > 0
  /\ left' = [left EXCEPT !.changes = @ - 1]
  /\ \E content \in {0, google.clock + 1} :
       google' = [google EXCEPT !.event[e] = content, !.at[e] = google.clock + 1,
                                !.clock = @ + 1]
  /\ UNCHANGED <<today, conn, store, job, run, asked, read, late>>

\* Tokens handed out so far are answered 410 from now on.
ForgetTokens ==
  /\ left.trouble > 0 /\ google.oldest < google.clock
  /\ left' = [left EXCEPT !.trouble = @ - 1]
  /\ google' = [google EXCEPT !.oldest = google.clock]
  /\ UNCHANGED <<today, conn, store, job, run, asked, read, late>>

NextDay ==
  /\ left.days > 0
  /\ left' = [left EXCEPT !.days = @ - 1]
  /\ today' = today + 1
  /\ UNCHANGED <<google, conn, store, job, run, asked, read, late>>

-----------------------------------------------------------------------------
\* The queue.

Active == job.status \in {"queued", "processing"}

\* Mutant: a request made while a run is under way is taken to be answered by it.
google_enqueue_syncOnce ==
  /\ asked' = google.clock
  /\ job' = IF Active THEN job ELSE [NoJob EXCEPT !.status = "queued"]

google_enqueue_sync ==
  /\ asked' = google.clock
  /\ job' = CASE job.status = "queued" -> job
              [] job.status = "processing" -> [job EXCEPT !.rerun = TRUE]
              [] OTHER -> [NoJob EXCEPT !.status = "queued"]

\* The sweep every half hour, and the app when its calendar is opened.
EnqueueStale ==
  /\ conn.active /\ ~conn.reauth
  /\ google_enqueue_sync
  /\ UNCHANGED <<google, today, conn, store, run, read, late, left>>

\* Mutant: a job whose run is gone is never taken up again.
claimQueuedOnly(w) ==
  /\ run[w].at = "idle" /\ job.status = "queued"
  /\ job' = [job EXCEPT !.status = "processing", !.holder = w, !.lapsed = FALSE,
                        !.attempts = IF @ < MaxAttempts THEN @ + 1 ELSE @]
  /\ run' = [run EXCEPT ![w] = [Resting EXCEPT !.at = "context"]]
  /\ UNCHANGED <<google, today, conn, store, asked, read, late, left>>

claim_google_sync_job(w) ==
  /\ run[w].at = "idle"
  /\ job.status = "queued" \/ (job.status = "processing" /\ job.lapsed)
  /\ job' = [job EXCEPT !.status = "processing", !.holder = w, !.lapsed = FALSE,
                        !.attempts = IF @ < MaxAttempts THEN @ + 1 ELSE @]
  /\ run' = [run EXCEPT ![w] = [Resting EXCEPT !.at = "context"]]
  /\ UNCHANGED <<google, today, conn, store, asked, read, late, left>>

\* The lease runs out; under a run that is still at work, it counts as trouble.
Lapse ==
  /\ job.status = "processing" /\ ~job.lapsed
  /\ \/ run[job.holder].at = "idle" /\ UNCHANGED left
     \/ run[job.holder].at # "idle" /\ left.trouble > 0
        /\ left' = [left EXCEPT !.trouble = @ - 1]
  /\ job' = [job EXCEPT !.lapsed = TRUE]
  /\ UNCHANGED <<google, today, conn, store, run, asked, read, late>>

HoldsJob(w) == job.status = "processing" /\ job.holder = w

Finished ==
  IF job.rerun THEN [job EXCEPT !.status = "queued", !.holder = None, !.rerun = FALSE,
                                !.lapsed = FALSE]
               ELSE [job EXCEPT !.status = "done", !.holder = None, !.lapsed = FALSE]

\* Mutant: the lease of a failed run is left on the row.
FailedUnderLease ==
  [job EXCEPT !.status = IF job.attempts >= MaxAttempts THEN "dead" ELSE "queued"]

Failed ==
  [job EXCEPT !.status = IF job.attempts >= MaxAttempts THEN "dead" ELSE "queued",
              !.holder = None, !.lapsed = FALSE]

complete_google_sync_job(w, outcome) == job' = IF HoldsJob(w) THEN outcome ELSE job

-----------------------------------------------------------------------------
\* A run of the worker.

GiveUp(w) == run' = [run EXCEPT ![w] = [Resting EXCEPT !.at = "sorry"]]

ReadContext(w) ==
  /\ run[w].at = "context"
  /\ run' = [run EXCEPT ![w] = [@ EXCEPT !.at = "first", !.base = store.token]]
  /\ UNCHANGED <<google, today, conn, store, job, asked, read, late, left>>

\* What a page brings: a full listing the events there are, an incremental one those
\* changed since its token.
WithPage(r, page) ==
  [e \in Event |-> IF /\ e \in page
                      /\ r.base = None \/ google.at[e] > r.base
                   THEN google.event[e] ELSE r.staged[e]]

Gone(r) == r.base # None /\ r.base < google.oldest

\* Mutant: the new token is stored with the first page.
StageFirstAndAdvance(w, page) ==
  /\ run[w].at = "first" /\ ~Gone(run[w])
  /\ run' = [run EXCEPT ![w] = [@ EXCEPT !.staged = WithPage(run[w], page), !.next = google.clock,
                                         !.todo = Event \ page,
                                         !.at = IF page = Event THEN "commit" ELSE "more"]]
  /\ store' = [store EXCEPT !.token = google.clock]
  /\ UNCHANGED <<google, today, conn, job, asked, read, late, left>>

\* Stage the first page; the token of the listing is of this moment.
StageFirst(w, page) ==
  /\ run[w].at = "first" /\ ~Gone(run[w])
  /\ run' = [run EXCEPT ![w] = [@ EXCEPT !.staged = WithPage(run[w], page), !.next = google.clock,
                                         !.todo = Event \ page,
                                         !.at = IF page = Event THEN "commit" ELSE "more"]]
  /\ UNCHANGED <<google, today, conn, store, job, asked, read, late, left>>

StageRest(w) ==
  /\ run[w].at = "more" /\ ~Gone(run[w])
  /\ run' = [run EXCEPT ![w] = [@ EXCEPT !.staged = WithPage(run[w], run[w].todo), !.todo = {},
                                         !.at = "commit"]]
  /\ UNCHANGED <<google, today, conn, store, job, asked, read, late, left>>

\* 410: the stored token is dropped and a full listing begins under a new run id.
StartOver(w) ==
  /\ run[w].at \in {"first", "more"} /\ Gone(run[w])
  /\ store' = [store EXCEPT !.token = None]
  /\ run' = [run EXCEPT ![w] = [Resting EXCEPT !.at = "first"]]
  /\ UNCHANGED <<google, today, conn, job, asked, read, late, left>>

Reconciled(r) ==
  [e \in Event |-> IF r.staged[e] # None THEN r.staged[e]
                   ELSE IF r.base = None THEN 0 ELSE store.cache[e]]

commit_google_sync(w) ==
  /\ store' = [store EXCEPT !.cache = Reconciled(run[w]), !.token = run[w].next]
  /\ read' = run[w].next
  /\ late' = (late \/ ~HoldsJob(w))

Commit(w) ==
  /\ run[w].at = "commit"
  /\ commit_google_sync(w)
  /\ run' = [run EXCEPT ![w] = [Resting EXCEPT !.at = "list"]]
  /\ UNCHANGED <<google, today, conn, job, asked, left>>

ListOccurrences(w) ==
  /\ run[w].at = "list"
  /\ run' = [run EXCEPT ![w] = [@ EXCEPT !.seen = google.event, !.day = today, !.at = "rebuild"]]
  /\ UNCHANGED <<google, today, conn, store, job, asked, read, late, left>>

\* A snapshot of an earlier day than the one kept is dropped.
rebuild_google_occurrence_projection(w) ==
  /\ run[w].at = "rebuild"
  /\ store' = IF run[w].day < store.day THEN store
              ELSE [store EXCEPT !.shown = run[w].seen, !.day = run[w].day]
  /\ run' = [run EXCEPT ![w] = [Resting EXCEPT !.at = "report"]]
  /\ UNCHANGED <<google, today, conn, job, asked, read, late, left>>

Report(w) ==
  /\ run[w].at = "report"
  /\ complete_google_sync_job(w, Finished)
  /\ run' = [run EXCEPT ![w] = Resting]
  /\ UNCHANGED <<google, today, conn, store, asked, read, late, left>>

ReportFailure(w) ==
  /\ run[w].at = "sorry"
  /\ complete_google_sync_job(w, Failed)
  /\ run' = [run EXCEPT ![w] = Resting]
  /\ UNCHANGED <<google, today, conn, store, asked, read, late, left>>

-----------------------------------------------------------------------------
\* Trouble.

\* A request fails; a commit may have landed all the same.
Fail(w) ==
  /\ run[w].at \in {"context", "first", "more", "commit", "list", "rebuild"}
  /\ left.trouble > 0
  /\ left' = [left EXCEPT !.trouble = @ - 1]
  /\ GiveUp(w)
  /\ \/ UNCHANGED <<store, read, late>>
     \/ run[w].at = "commit" /\ commit_google_sync(w)
  /\ UNCHANGED <<google, today, conn, job, asked>>

\* The platform ends the run, with its last request unanswered.
Die(w) ==
  /\ run[w].at # "idle" /\ left.trouble > 0
  /\ left' = [left EXCEPT !.trouble = @ - 1]
  /\ run' = [run EXCEPT ![w] = Resting]
  /\ UNCHANGED <<google, today, conn, store, job, asked, read, late>>

\* invalid_grant when the access token is fetched.
mark_google_reauth_required(w) ==
  /\ run[w].at = "context" /\ left.trouble > 0
  /\ left' = [left EXCEPT !.trouble = @ - 1]
  /\ conn' = [conn EXCEPT !.reauth = TRUE]
  /\ GiveUp(w)
  /\ UNCHANGED <<google, today, store, job, asked, read, late>>

\* 403, and the calendar list no longer has the calendar.
revalidate_google_calendar_eligibility(w) ==
  /\ run[w].at \in {"first", "more", "list"} /\ left.trouble > 0
  /\ left' = [left EXCEPT !.trouble = @ - 1]
  /\ conn' = [active |-> FALSE, reauth |-> FALSE]
  /\ job' = IF Active THEN [job EXCEPT !.status = "dead", !.holder = None, !.lapsed = FALSE]
            ELSE job
  /\ GiveUp(w)
  /\ UNCHANGED <<google, today, store, asked, read, late>>

\* The family connects the calendar again.
complete_google_oauth ==
  /\ ~conn.active \/ conn.reauth
  /\ conn' = [active |-> TRUE, reauth |-> FALSE]
  /\ UNCHANGED <<google, today, store, job, run, asked, read, late, left>>

-----------------------------------------------------------------------------
SyncInit ==
  /\ google = [event |-> NoChange, at |-> NoChange, clock |-> 0, oldest |-> 0]
  /\ today = 0
  /\ conn = [active |-> TRUE, reauth |-> FALSE]
  /\ store = [cache |-> NoChange, token |-> None, shown |-> NoChange, day |-> 0]
  /\ job = NoJob
  /\ run = [w \in Worker |-> Resting]
  /\ asked = 0 /\ read = 0
  /\ late = FALSE
  /\ left \in Budgets

\* What a run does unless something fails it.
Work(w) ==
  \/ ReadContext(w) \/ StageRest(w) \/ StartOver(w) \/ Commit(w) \/ ListOccurrences(w)
  \/ \E page \in SUBSET Event : StageFirst(w, page)
  \/ rebuild_google_occurrence_projection(w) \/ Report(w) \/ ReportFailure(w)

SyncNext ==
  \/ \E e \in Event : Change(e)
  \/ ForgetTokens \/ NextDay \/ EnqueueStale \/ Lapse \/ complete_google_oauth
  \/ \E w \in Worker :
       \/ claim_google_sync_job(w) \/ Work(w) \/ Fail(w) \/ Die(w)
       \/ mark_google_reauth_required(w) \/ revalidate_google_calendar_eligibility(w)
=============================================================================
