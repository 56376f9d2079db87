----------------------------- MODULE GoogleWatch -----------------------------
(* The watch channels through which Google announces changes, the cron job
   renew-google-watch that replaces them before they expire, the webhook that
   admits their announcements - composed with the sync queue they feed, and the
   properties of the whole. *)
EXTENDS GoogleSync

CONSTANT Channel

VARIABLES
  chan,        \* a channel: app (its row), google (as Google has it), age
  renewal      \* the run of the cron job: at, ch

vars == <<google, today, conn, store, job, run, asked, read, late, left, chan, renewal>>

NoRenewal == [at |-> "idle", ch |-> None]
Unused == [app |-> "none", google |-> "none", age |-> "new"]

Admitted(c) == chan[c].app \in {"active", "retiring"} /\ chan[c].age # "expired"

Adopt(at, ch) == renewal' = [at |-> at, ch |-> ch]

-----------------------------------------------------------------------------
\* The webhook: an announcement on a channel the app knows asks for a sync.
Announce(c) ==
  /\ chan[c].google = "open" /\ asked < google.clock
  /\ Admitted(c)
  /\ google_enqueue_sync
  /\ UNCHANGED <<google, today, conn, store, run, read, late, left, chan, renewal>>

\* A channel comes within an hour of its end, and ends.
Age(c) ==
  /\ chan[c].google # "none" /\ chan[c].age # "expired"
  /\ \/ chan[c].age = "new" /\ chan' = [chan EXCEPT ![c].age = "ending"] /\ UNCHANGED left
     \/ chan[c].age = "ending" /\ left.trouble > 0
        /\ left' = [left EXCEPT !.trouble = @ - 1]
        /\ chan' = [chan EXCEPT ![c] = [@ EXCEPT !.age = "expired", !.google = "closed"]]
  /\ UNCHANGED <<google, today, conn, store, job, run, asked, read, late, renewal>>

NeedsWatch ==
  /\ conn.active /\ ~conn.reauth
  /\ ~\E c \in Channel : chan[c].app = "active" /\ chan[c].age = "new"

\* A new channel is opened at Google under a fresh id ...
CreateChannel(c) ==
  /\ renewal.at = "idle" /\ left.renewals > 0
  /\ left' = [left EXCEPT !.renewals = @ - 1]
  /\ NeedsWatch /\ chan[c] = Unused
  /\ chan' = [chan EXCEPT ![c].google = "open"]
  /\ Adopt("register", c)
  /\ UNCHANGED <<google, today, conn, store, job, run, asked, read, late>>

\* Mutant: the new channel is retired along with the old ones.
registerRetiringAll ==
  /\ renewal.at = "register"
  /\ chan' = [c \in Channel |->
       IF c = renewal.ch \/ chan[c].app = "active" THEN [chan[c] EXCEPT !.app = "retiring"]
       ELSE chan[c]]
  /\ renewal' = NoRenewal
  /\ UNCHANGED <<google, today, conn, store, job, run, asked, read, late, left>>

\* ... and only then takes over from the one in use, which still counts for a while.
register_google_watch_channel ==
  /\ renewal.at = "register"
  /\ chan' = [c \in Channel |->
       IF c = renewal.ch THEN [chan[c] EXCEPT !.app = "active"]
       ELSE IF chan[c].app = "active" THEN [chan[c] EXCEPT !.app = "retiring"] ELSE chan[c]]
  /\ renewal' = NoRenewal
  /\ UNCHANGED <<google, today, conn, store, job, run, asked, read, late, left>>

StopChannel(c) ==
  /\ renewal.at = "idle" /\ chan[c].app = "retiring"
  /\ chan' = [chan EXCEPT ![c].google = "closed"]
  /\ Adopt("mark", c)
  /\ UNCHANGED <<google, today, conn, store, job, run, asked, read, late, left>>

mark_google_watch_stopped ==
  /\ renewal.at = "mark"
  /\ chan' = [chan EXCEPT ![renewal.ch].app =
                IF @ \in {"active", "retiring"} THEN "stopped" ELSE @]
  /\ renewal' = NoRenewal
  /\ UNCHANGED <<google, today, conn, store, job, run, asked, read, late, left>>

\* A request of the cron job fails, or its run ends: the next run begins afresh.
RenewalFails ==
  /\ renewal.at # "idle" /\ left.trouble > 0
  /\ left' = [left EXCEPT !.trouble = @ - 1]
  /\ renewal' = NoRenewal
  /\ UNCHANGED <<google, today, conn, store, job, run, asked, read, late, chan>>

\* invalid_grant, or a 403 and no such calendar any more, while a channel is looked after.
RenewalCutOff ==
  /\ renewal.at = "idle" /\ left.trouble > 0
  /\ NeedsWatch \/ \E c \in Channel : chan[c].app = "retiring"
  /\ left' = [left EXCEPT !.trouble = @ - 1]
  /\ \/ conn' = [conn EXCEPT !.reauth = TRUE] /\ UNCHANGED job
     \/ conn' = [active |-> FALSE, reauth |-> FALSE]
        /\ job' = IF Active THEN [job EXCEPT !.status = "dead", !.holder = None,
                                             !.lapsed = FALSE] ELSE job
  /\ UNCHANGED <<google, today, store, run, asked, read, late, chan, renewal>>

-----------------------------------------------------------------------------
Init ==
  /\ SyncInit
  /\ chan = [c \in Channel |-> Unused]
  /\ renewal = NoRenewal

Sync == SyncNext /\ UNCHANGED <<chan, renewal>>

Next ==
  \/ Sync
  \/ \E c \in Channel : Announce(c) \/ Age(c) \/ CreateChannel(c) \/ StopChannel(c)
  \/ register_google_watch_channel \/ mark_google_watch_stopped
  \/ RenewalFails \/ RenewalCutOff

Spec == Init /\ [][Next]_vars

WatchUnchanged == UNCHANGED <<chan, renewal>>

\* The cron jobs run again and again, some run goes on while there is one that is not
\* failed, and a lease does not outlast a run that is gone.
Fairness ==
  /\ WF_vars(EnqueueStale /\ WatchUnchanged)
  /\ WF_vars(Lapse /\ WatchUnchanged)
  /\ WF_vars((\E w \in Worker : claim_google_sync_job(w) \/ Work(w)) /\ WatchUnchanged)

FairSpec == Spec /\ Fairness

-----------------------------------------------------------------------------
RunRecord == [at : {"idle", "context", "first", "more", "commit", "list", "rebuild", "report",
                    "sorry"},
              base : Changes \cup {None}, staged : [Event -> Changes \cup {None}],
              todo : SUBSET Event, next : Changes, seen : [Event -> Changes],
              day : Day]

TypeOK ==
  /\ google \in [event : [Event -> Changes], at : [Event -> Changes], clock : Changes,
                 oldest : Changes]
  /\ today \in Day
  /\ conn \in [active : BOOLEAN, reauth : BOOLEAN]
  /\ store \in [cache : [Event -> Changes], token : Changes \cup {None},
                shown : [Event -> Changes], day : Day]
  /\ job \in [status : {"none", "queued", "processing", "done", "dead"}, rerun : BOOLEAN,
              attempts : 0..MaxAttempts, holder : Worker \cup {None}, lapsed : BOOLEAN]
  /\ (job.status = "processing") <=> (job.holder # None)
  /\ run \in [Worker -> RunRecord]
  /\ asked \in Changes /\ read \in Changes /\ late \in BOOLEAN
  /\ left \in [changes : Changes, trouble : Nat, renewals : Nat, days : Day]
  /\ chan \in [Channel -> [app : {"none", "active", "retiring", "stopped"},
                           google : {"none", "open", "closed"},
                           age : {"new", "ending", "expired"}]]
  /\ renewal \in [at : {"idle", "register", "mark"}, ch : Channel \cup {None}]

\* Nothing is missed: an event the cache shows otherwise than Google has changed
\* since the stored sync token, so the next listing brings it - however listings,
\* changes, 410s, failures and deaths between two requests interleave.
NothingMissed ==
  store.token # None =>
    \A e \in Event : store.cache[e] # google.event[e] => google.at[e] > store.token

\* As long as no run commits after it has lost its job, nothing is missed.
NothingMissedOnTime == ~late => NothingMissed

\* Whoever asks for a sync - the webhook, the sweep, the app - is answered by a
\* listing begun afterwards before the queue is done: a request made while a run is
\* under way is not swallowed by it.
EveryRequestIsRead == job.status = "done" /\ ~late => asked <= read

\* Replacing a channel leaves no gap: once a channel is registered, there is always one that
\* Google serves and the webhook admits, unless the channel registered last ran out before
\* another could take over.  Channels that were replaced or stopped excuse nothing.
WatchUnbroken ==
  (\E c \in Channel : chan[c].app # "none") =>
    \/ \E c \in Channel : chan[c].google = "open" /\ Admitted(c)
    \/ \E c \in Channel : chan[c].app = "active" /\ chan[c].age = "expired"

Mirrored == store.cache = google.event /\ store.shown = google.event

\* When the calendar comes to rest, the cache and the snapshot come to show it,
\* unless the connection is cut off or a run has committed late.
MirrorCatchesUp == <>[](Mirrored \/ late \/ ~conn.active \/ conn.reauth)
=============================================================================
