--------------------------- MODULE CalendarMirror ---------------------------
(***************************************************************************)
(* The Family Ops -> Google Calendar mirror of one task.                   *)
(*                                                                         *)
(* A task change commits in the household database and leaves a row in     *)
(* private.family_ops_calendar_mirrors; process-family-ops-calendar-outbox *)
(* (one run a minute, runs may overlap) claims the row under a lease, reads *)
(* the event at Google, asks the database for leave to write              *)
(* (server_tx_authorize_...), sends the write with If-Match, and completes  *)
(* or fails the row.  The leave is a durable fence: one unresolved fence   *)
(* per event and calendar.  Switching the family calendar leaves a job to  *)
(* delete the event in the old one, done by the same worker.               *)
(*                                                                         *)
(* Content is the number of the decision (task.ver) it was built from.     *)
(* An ETag is kept as what its reader can tell: the read is still current, *)
(* or the event has changed since.  Google is external: it applies an      *)
(* insert when there is no event, a patch or delete when the ETag is       *)
(* current.                                                                *)
(***************************************************************************)
EXTENDS Naturals, FiniteSets

CONSTANTS Worker,      \* concurrent runs of the outbox function
          Conn,        \* the household's Google calendars
          Lease,       \* lease tokens: gen_random_uuid(), one not in use
          None,
          MaxVersion,  \* bound: decisions about the task
          MaxActs,     \* bound: target changes and edits of the event in Google
          MaxTrouble   \* bound: failures of Google, of the network, of a run

ASSUME MirrorAssumption ==
  /\ None \notin Conn \cup Lease
  /\ MaxVersion \in Nat \ {0} /\ MaxActs \in Nat /\ MaxTrouble \in Nat

VARIABLES
  task,     \* [ver, want]: the canonical task
  row,      \* its mirror row; history: ver, the decision it was last claimed with,
            \* and passed, whether a reconciliation has left it out since it was queued
  cleanup,  \* per calendar: the target deletion job
  fence,    \* per calendar: the unresolved provider mutation fence
  conn,     \* per calendar: [active, orphan]
  target,   \* the family write target
  cal,      \* per calendar: [ver, top], what Google holds and ever held
  flight,   \* write requests on their way to Google
  worker,   \* what each run holds in memory
  acts, trouble

database == <<task, row, cleanup, fence, conn, target>>
vars == <<database, cal, flight, worker, acts, trouble>>

Held    == {"processing"}
Waiting == {"pending", "failed"}

NoRow == [state |-> "none", action |-> "upsert", conn |-> None,
          lease |-> None, live |-> FALSE, known |-> FALSE, ver |-> 0, passed |-> FALSE]

NoFence == [state |-> "none", lease |-> None, late |-> FALSE]

Idle == [pc |-> "idle", job |-> "mirror", lease |-> None, conn |-> None,
         action |-> "upsert", ver |-> 0, known |-> FALSE, seen |-> "none",
         again |-> FALSE]

Decision    == [ver : 1 .. MaxVersion, want : {"shown", "unfit", "hidden", "cancelled"}]
MirrorRow   == [state : {"none", "pending", "processing", "synced", "failed", "deleted", "blocked"},
                action : {"upsert", "delete"}, conn : Conn \cup {None},
                lease : Lease \cup {None}, live : BOOLEAN, known : BOOLEAN,
               ver : 0 .. MaxVersion, passed : BOOLEAN]
DeletionJob == [state : {"none", "pending", "processing", "deleted", "failed", "blocked"},
                lease : Lease \cup {None}, live : BOOLEAN, ver : 0 .. MaxVersion]
Fence       == [state : {"none", "inflight", "uncertain"}, lease : Lease \cup {None}, late : BOOLEAN]
Request     == [by : Lease, conn : Conn, op : {"insert", "patch", "delete"},
                ver : 0 .. MaxVersion, fresh : BOOLEAN]
RunState    == [pc : {"idle", "read", "ask", "wait", "reread", "finish", "fail"},
                job : {"mirror", "cleanup"}, lease : Lease \cup {None},
                conn : Conn \cup {None}, action : {"upsert", "delete"},
                ver : 0 .. MaxVersion, known : BOOLEAN,
                seen : {"none", "gone", "current", "stale"}, again : BOOLEAN]

TypeOK ==
  /\ task \in Decision
  /\ row \in MirrorRow /\ (row.state \in Held <=> row.lease # None)
  /\ cleanup \in [Conn -> DeletionJob]
  /\ fence \in [Conn -> Fence]
  /\ conn \in [Conn -> [active : BOOLEAN, orphan : BOOLEAN]]
  /\ target \in Conn \cup {None}
  /\ cal \in [Conn -> [ver : 0 .. MaxVersion, top : 0 .. MaxVersion]]
  /\ flight \subseteq Request
  /\ worker \in [Worker -> RunState]
  /\ acts \in 0 .. MaxActs
  /\ trouble \in 0 .. MaxTrouble

Init ==
  /\ task = [ver |-> 1, want |-> "hidden"]
  /\ row = NoRow
  /\ cleanup = [c \in Conn |-> [state |-> "none", lease |-> None,
                                live |-> FALSE, ver |-> 0]]
  /\ fence = [c \in Conn |-> NoFence]
  /\ conn = [c \in Conn |-> [active |-> TRUE, orphan |-> FALSE]]
  /\ target \in Conn
  /\ cal = [c \in Conn |-> [ver |-> 0, top |-> 0]]
  /\ flight = {}
  /\ worker = [w \in Worker |-> Idle]
  /\ acts = 0
  /\ trouble = 0

-----------------------------------------------------------------------------
(* The household side: triggers on task_instances and on the target.       *)

Usable(c) == c # None /\ c \in Conn /\ conn[c].active

\* Mutant of Queued: the lease of the run at work is kept.
QueuedUnderLease(r, action, c) ==
  [r EXCEPT !.state = "pending", !.action = action, !.conn = c, !.passed = FALSE]

\* A new desired state takes the row from whoever holds it.
Queued(r, action, c) ==
  [r EXCEPT !.state = "pending", !.action = action, !.conn = c,
            !.lease = None, !.live = FALSE, !.passed = FALSE]

\* enqueue_family_ops_calendar_projection for a task that is on the calendar:
\* nothing is queued while the household has no usable write target.
Enqueued(want, c, usable) ==
  IF usable
  THEN Queued(row, IF want = "cancelled" THEN "delete" ELSE "upsert", c)
  ELSE row

\* The task is put on the calendar, or edited while it is there; "unfit" is
\* a task whose end is not after its start.
Edit(want) ==
  /\ task.want # "cancelled" /\ task.ver < MaxVersion
  /\ want \in {"shown", "unfit"}
  /\ task' = [ver |-> task.ver + 1, want |-> want]
  /\ row' = Enqueued(want, target, Usable(target))
  /\ UNCHANGED <<cleanup, fence, conn, target, cal, flight, worker, acts,
                 trouble>>

Cancel ==
  /\ task.want \in {"shown", "unfit"} /\ task.ver < MaxVersion
  /\ task' = [ver |-> task.ver + 1, want |-> "cancelled"]
  /\ row' = Enqueued("cancelled", target, Usable(target))
  /\ UNCHANGED <<cleanup, fence, conn, target, cal, flight, worker, acts,
                 trouble>>

\* Taken off the calendar: the projection is skipped for a hidden task, a
\* second trigger queues the deletion where the row points.
Hide ==
  /\ task.want \in {"shown", "unfit"} /\ task.ver < MaxVersion
  /\ task' = [ver |-> task.ver + 1, want |-> "hidden"]
  /\ row' = IF row.state = "none" THEN row ELSE Queued(row, "delete", row.conn)
  /\ UNCHANGED <<cleanup, fence, conn, target, cal, flight, worker, acts,
                 trouble>>

\* server_tx_reconcile_family_ops_calendar: a task on the calendar is queued
\* again for calendar c if its day is one of the next sixty, from today.  How
\* far off the day is, is not kept here: the task may be near or not.  One
\* that is not is passed over, and its row stays what it is.
Reconciled(c, near) ==
  IF task.want = "hidden" THEN row
  ELSE IF near THEN Enqueued(task.want, c, TRUE)
  ELSE [row EXCEPT !.passed = TRUE]

\* The family picks another calendar; the candidate was verified at Google
\* before.  The known event of the old one, whatever its day, is left to a
\* deletion job, which stems from no newer decision than the row's last claim.
\* (Picking the same one again only reconciles, as Reconnect does.)
SetTarget(c, near) ==
  /\ conn[c].active /\ target # c
  /\ acts < MaxActs /\ acts' = acts + 1
  /\ cleanup' =
       IF target # None /\ row.conn = target /\ row.known
       THEN [cleanup EXCEPT ![target] =
               [state |-> "pending", lease |-> None, live |-> FALSE,
                ver |-> row.ver]]
       ELSE cleanup
  /\ target' = c
  /\ row' = Reconciled(c, near)
  /\ UNCHANGED <<task, fence, conn, cal, flight, worker, trouble>>

\* OAuth again: the calendar is active; as the target it is reconciled.
Reconnect(c, near) ==
  /\ ~conn[c].active
  /\ conn' = [conn EXCEPT ![c].active = TRUE]
  /\ row' = IF target = c THEN Reconciled(c, near) ELSE row
  /\ UNCHANGED <<task, cleanup, fence, target, cal, flight, worker, acts,
                 trouble>>

-----------------------------------------------------------------------------
(* Claims.                                                                 *)

Claimable(j) ==
  \/ j.state \in Waiting
  \/ j.state \in Held /\ ~j.live

LeasesInUse ==
  {worker[w].lease : w \in Worker} \cup {row.lease}
    \cup {cleanup[c].lease : c \in Conn} \cup {fence[c].lease : c \in Conn}
    \cup {f.by : f \in flight}

FreshLease == CHOOSE l \in Lease : l \notin LeasesInUse

CanLease == Lease \ LeasesInUse # {}

\* Deletion jobs come first.
ClaimCleanup(w, c) ==
  /\ worker[w].pc = "idle" /\ CanLease
  /\ Claimable(cleanup[c])
  /\ cleanup' = [cleanup EXCEPT ![c] = [@ EXCEPT !.state = "processing",
                                                 !.lease = FreshLease, !.live = TRUE]]
  /\ worker' = [worker EXCEPT ![w] =
       [Idle EXCEPT !.pc = "read", !.job = "cleanup", !.lease = FreshLease,
                    !.conn = c, !.action = "delete", !.ver = cleanup[c].ver,
                    !.known = TRUE]]
  /\ UNCHANGED <<task, row, fence, conn, target, cal, flight, acts, trouble>>

\* The payload is built from the task as it is at the claim; a task that
\* cannot be shown is parked, one that must not be shown is deleted.
ClaimMirror(w) ==
  /\ worker[w].pc = "idle" /\ CanLease
  /\ \A c \in Conn : ~Claimable(cleanup[c])
  /\ Claimable(row)
  /\ LET gone == row.action = "delete" \/ task.want \in {"hidden", "cancelled"}
     IN IF ~gone /\ task.want = "unfit"
        THEN /\ row' = [row EXCEPT !.state = "failed", !.lease = None,
                                   !.live = FALSE]
             /\ UNCHANGED worker
        ELSE /\ row' = [row EXCEPT !.state = "processing",
                                   !.lease = FreshLease, !.live = TRUE,
                                   !.ver = task.ver]
             /\ worker' = [worker EXCEPT ![w] =
                  [Idle EXCEPT !.pc = "read", !.lease = FreshLease,
                       !.conn = row.conn, !.ver = task.ver, !.known = row.known,
                       !.action = IF gone THEN "delete" ELSE "upsert"]]
  /\ UNCHANGED <<task, cleanup, fence, conn, target, cal, flight, acts,
                 trouble>>

-----------------------------------------------------------------------------
(* Reading the event, asking leave, writing.                               *)

Exists(c) == cal[c].ver > 0

\* What a run still needs once it knows how its job ends.
Ends(me, pc) ==
  [Idle EXCEPT !.pc = pc, !.job = me.job, !.lease = me.lease, !.conn = me.conn,
               !.action = me.action]

\* The event is read with its ETag.  A deletion of an event that is not
\* there, or of one whose id was never recorded, is done; an event that went
\* away between a refused patch and its retry is an error.
Read(w) ==
  /\ worker[w].pc \in {"read", "reread"}
  /\ LET me == worker[w]
         there == Exists(me.conn)
         next == IF me.action = "delete" /\ ~(me.known /\ there) THEN "finish"
                 ELSE IF me.pc = "reread" /\ ~there THEN "fail"
                 ELSE "ask"
     IN worker' = [worker EXCEPT ![w] =
          IF next = "ask"
          THEN [me EXCEPT !.pc = next, !.again = (me.pc = "reread"),
                          !.seen = IF there THEN "current" ELSE "gone"]
          ELSE Ends(me, next)]
  /\ UNCHANGED <<database, cal, flight, acts, trouble>>

\* Mutant of Holds: any processing row will do.
HoldsAny(me) ==
  (IF me.job = "mirror" THEN row ELSE cleanup[me.conn]).state \in Held

Holds(me) ==
  LET j == IF me.job = "mirror" THEN row ELSE cleanup[me.conn]
  IN j.state \in Held /\ j.lease = me.lease

HoldsLive(me) ==
  Holds(me) /\ (IF me.job = "mirror" THEN row ELSE cleanup[me.conn]).live

\* Mutant of MayWrite: an open deletion of the event is not looked at.
MayWriteOver(me) ==
  /\ HoldsLive(me)
  /\ me.job = "mirror" =>
       /\ row.conn = me.conn
       /\ conn[me.conn].active /\ target = me.conn
       /\ ~conn[me.conn].orphan

\* Who may write to this event at all: the current target, with no deletion
\* job open on the event and no event of unknown fate behind it.
MayWrite(me) ==
  /\ HoldsLive(me)
  /\ me.job = "mirror" =>
       /\ row.conn = me.conn
       /\ conn[me.conn].active /\ target = me.conn
       /\ cleanup[me.conn].state \in {"none", "deleted"}
       /\ ~conn[me.conn].orphan

\* Mutant of FenceSeenBy: a fence past its deadline is taken as settled.
FenceUntilDeadline(me) ==
  LET f == fence[me.conn]
  IN IF f.state = "inflight" /\ (f.late \/ f.lease = me.lease)
     THEN NoFence ELSE f

\* The fence as the authorization finds it: past its deadline it is
\* uncertain, and the run's own earlier request has been answered.
FenceSeenBy(me) ==
  LET f == fence[me.conn]
  IN IF f.state = "inflight" /\ f.late
     THEN [NoFence EXCEPT !.state = "uncertain"]
     ELSE IF f.state = "inflight" /\ f.lease = me.lease THEN NoFence ELSE f

Sent(me) ==
  [by |-> me.lease, conn |-> me.conn, ver |-> me.ver,
   fresh |-> (me.seen = "current"),
   op |-> IF me.action = "delete" THEN "delete"
          ELSE IF me.seen = "gone" THEN "insert" ELSE "patch"]

\* Leave is refused: the run ends without touching the job.
Refused(w) ==
  /\ worker[w].pc = "ask"
  /\ LET me == worker[w]
     IN \/ ~MayWrite(me) /\ UNCHANGED fence
        \/ /\ MayWrite(me) /\ FenceSeenBy(me).state # "none"
           /\ fence' = [fence EXCEPT ![me.conn] = FenceSeenBy(me)]
  /\ worker' = [worker EXCEPT ![w] = Idle]
  /\ UNCHANGED <<task, row, cleanup, conn, target, cal, flight, acts, trouble>>

\* Leave is given with a fence of its own, and the request departs.
Send(w) ==
  /\ worker[w].pc = "ask"
  /\ MayWrite(worker[w]) /\ FenceSeenBy(worker[w]).state = "none"
  /\ fence' = [fence EXCEPT ![worker[w].conn] =
                 [state |-> "inflight", lease |-> worker[w].lease,
                  late |-> FALSE]]
  /\ flight' = flight \cup {Sent(worker[w])}
  /\ worker' = [worker EXCEPT ![w].pc = "wait"]
  /\ UNCHANGED <<task, row, cleanup, conn, target, cal, acts, trouble>>

-----------------------------------------------------------------------------
(* Google (external) and the answers.                                      *)

\* Everyone who read the event on c before it changed holds an old ETag.
OutdatedFor(c, ws) ==
  [w \in Worker |-> IF ws[w].conn = c /\ ws[w].seen = "current"
                    THEN [ws[w] EXCEPT !.seen = "stale"] ELSE ws[w]]

OutdatedIn(c, fs) ==
  {IF f.conn = c THEN [f EXCEPT !.fresh = FALSE] ELSE f : f \in fs}

Applies(f) ==
  IF f.op = "insert" THEN ~Exists(f.conn) ELSE Exists(f.conn) /\ f.fresh

\* 409 on an insert is verified to be our own event, 404 and 410 on a
\* deletion are its success, 412 is retried once on a fresh read.
Answered(f, me) ==
  IF Applies(f) \/ f.op = "insert" \/ (f.op = "delete" /\ ~Exists(f.conn))
  THEN Ends(me, "finish")
  ELSE IF Exists(f.conn) /\ ~me.again
       THEN [me EXCEPT !.pc = "reread", !.seen = "none"] ELSE Ends(me, "fail")

\* A request reaches Google and is answered, to whoever still waits for it.
Land(f) ==
  LET told == [w \in Worker |->
        IF worker[w].pc = "wait" /\ worker[w].lease = f.by
        THEN Answered(f, worker[w]) ELSE worker[w]]
      rest == flight \ {f}
  IN /\ f \in flight
     /\ IF Applies(f)
        THEN /\ cal' = [cal EXCEPT ![f.conn] =
                  [ver |-> IF f.op = "delete" THEN 0 ELSE f.ver, top |-> f.ver]]
             /\ flight' = OutdatedIn(f.conn, rest)
             /\ worker' = OutdatedFor(f.conn, told)
        ELSE cal' = cal /\ flight' = rest /\ worker' = told
     /\ UNCHANGED <<database, acts, trouble>>

\* The family changes what the mirror does not own (a reminder, a colour).
Touch(c) ==
  /\ acts < MaxActs /\ Exists(c)
  /\ acts' = acts + 1
  /\ flight' = OutdatedIn(c, flight)
  /\ worker' = OutdatedFor(c, worker)
  /\ UNCHANGED <<database, cal, trouble>>

Troubled == trouble < MaxTrouble /\ trouble' = trouble + 1

Mine(w) == {f \in flight : f.by = worker[w].lease}

\* No answer or an error: a provider error, a lost connection, the request
\* deadline.  The request may still be on its way.
NoAnswer(w) ==
  /\ Troubled
  /\ worker[w].pc \in {"read", "reread", "wait"}
  /\ flight' \in {flight, flight \ Mine(w)}
  /\ worker' = [worker EXCEPT ![w] = Ends(@, "fail")]
  /\ UNCHANGED <<database, cal, acts>>

\* invalid_grant on the token of a mirror write: the connection waits for a
\* new authorization.
GrantLost(w) ==
  /\ Troubled
  /\ worker[w].pc = "read" /\ worker[w].job = "mirror"
  /\ conn' = [conn EXCEPT ![worker[w].conn].active = FALSE]
  /\ worker' = [worker EXCEPT ![w] = Ends(@, "fail")]
  /\ UNCHANGED <<task, row, cleanup, fence, target, cal, flight, acts>>

Unblocked == {"pending", "processing", "failed"}

Blocked(j) ==
  IF j.state \in Unblocked
  THEN [j EXCEPT !.state = "blocked", !.lease = None, !.live = FALSE] ELSE j

\* 403, and the calendar list no longer offers the calendar for writing: it
\* stops being the target and what was mirrored there is an orphan.
AccessLost(w) ==
  /\ Troubled
  /\ worker[w].pc \in {"read", "reread", "wait"}
  /\ LET c == worker[w].conn
     IN /\ conn' = [conn EXCEPT ![c] =
              [active |-> FALSE,
               orphan |-> @.orphan \/ (target = c /\ row.conn = c /\ row.known)]]
        /\ target' = IF target = c THEN None ELSE target
        /\ row' = IF row.conn = c THEN Blocked(row) ELSE row
        /\ cleanup' = [cleanup EXCEPT ![c] = Blocked(@)]
  /\ flight' = flight \ Mine(w)
  /\ worker' = [worker EXCEPT ![w] = Ends(@, "fail")]
  /\ UNCHANGED <<task, fence, cal, acts>>

\* Closing the job closes the run's own request with it, in one transaction:
\* without the lease it changes nothing.
Closed(w, state, unresolved) ==
  LET me == worker[w]
      done(j) == [j EXCEPT !.state = state, !.lease = None, !.live = FALSE]
  IN /\ worker' = [worker EXCEPT ![w] = Idle]
     /\ IF ~Holds(me) THEN UNCHANGED <<row, cleanup, fence>>
        ELSE /\ fence' = IF fence[me.conn].state = "inflight"
                            /\ fence[me.conn].lease = me.lease
                         THEN [fence EXCEPT ![me.conn] = unresolved] ELSE fence
             /\ IF me.job = "cleanup"
                THEN cleanup' = [cleanup EXCEPT ![me.conn] = done(@)]
                     /\ UNCHANGED row
                ELSE /\ row' = IF state = "failed" THEN done(row)
                               ELSE [done(row) EXCEPT
                                       !.action = me.action,
                                       !.known = @ \/ me.action = "upsert"]
                     /\ UNCHANGED cleanup
     /\ UNCHANGED <<task, conn, target, cal, flight, acts, trouble>>

Finish(w) ==
  /\ worker[w].pc = "finish"
  /\ Closed(w, IF worker[w].action = "delete" THEN "deleted" ELSE "synced",
            NoFence)

\* A failure leaves the outcome of the run's own request uncertain.
Fail(w) ==
  /\ worker[w].pc = "fail"
  /\ Closed(w, "failed", [NoFence EXCEPT !.state = "uncertain"])

-----------------------------------------------------------------------------
(* Time and crashes.                                                       *)

Crash(w) ==
  /\ Troubled
  /\ worker[w].pc # "idle"
  /\ worker' = [worker EXCEPT ![w] = Idle]
  /\ UNCHANGED <<database, cal, flight, acts>>

\* The request deadline, 20 s, ends before the lease it was given under.
Deadline(c) ==
  /\ fence[c].state = "inflight" /\ ~fence[c].late
  /\ fence' = [fence EXCEPT ![c].late = TRUE]
  /\ UNCHANGED <<task, row, cleanup, conn, target, cal, flight, worker, acts,
                 trouble>>

\* A lease runs out under a run that is gone, or (bounded) one that hangs.
MayLapse(j, c) ==
  /\ j.state \in Held /\ j.live
  /\ ~(fence[c].state = "inflight" /\ fence[c].lease = j.lease /\ ~fence[c].late)
  /\ IF \E w \in Worker : worker[w].lease = j.lease
     THEN Troubled ELSE UNCHANGED trouble

RowLapses ==
  /\ row.conn # None /\ MayLapse(row, row.conn)
  /\ row' = [row EXCEPT !.live = FALSE]
  /\ UNCHANGED <<task, cleanup, fence, conn, target, cal, flight, worker, acts>>

CleanupLapses(c) ==
  /\ MayLapse(cleanup[c], c)
  /\ cleanup' = [cleanup EXCEPT ![c].live = FALSE]
  /\ UNCHANGED <<task, row, fence, conn, target, cal, flight, worker, acts>>

-----------------------------------------------------------------------------
Household ==
  \/ \E want \in {"shown", "unfit"} : Edit(want)
  \/ Cancel
  \/ Hide
  \/ \E c \in Conn, near \in BOOLEAN : SetTarget(c, near) \/ Reconnect(c, near)

Work(w) ==
  \/ ClaimMirror(w)
  \/ \E c \in Conn : ClaimCleanup(w, c)
  \/ Read(w) \/ Refused(w) \/ Send(w) \/ Finish(w) \/ Fail(w)

Misfortune(w) == NoAnswer(w) \/ GrantLost(w) \/ AccessLost(w) \/ Crash(w)

Clock == RowLapses \/ \E c \in Conn : CleanupLapses(c) \/ Deadline(c)

Next ==
  \/ Household
  \/ \E w \in Worker : Work(w) \/ Misfortune(w)
  \/ \E f \in flight : Land(f)
  \/ \E c \in Conn : Touch(c)
  \/ Clock

Spec == Init /\ [][Next]_vars

\* The function is called every minute and each call runs to its end; leases
\* and deadlines pass; a request in flight arrives.
FairSpec ==
  /\ Spec
  /\ \A w \in Worker : WF_vars(Work(w))
  /\ WF_vars(\E f \in flight : Land(f))
  /\ WF_vars(Clock)

-----------------------------------------------------------------------------
(* Properties.                                                             *)

\* At most one write to the event of one calendar is ever on its way,
\* whatever leases expired and whichever runs crashed or were answered late
\* (the durable fence of server_tx_authorize_family_ops_calendar_mirror).
OneRequestAtATime ==
  \A f, g \in flight : f.conn = g.conn => f = g

\* A row of the current target that says "synced" tells the truth: the task
\* is on the calendar and Google shows its newest content.  One that says
\* "deleted" of an event it knows leaves nothing there, unless a write of
\* unknown outcome is open (such a write is not waited for by a deletion
\* that finds no event: it may still arrive and leave a ghost).  Excepted is
\* a task whose day was too far off, or past, when the target was picked or
\* reconnected, until it is decided about again: nobody queues it, and its
\* row goes on saying what was true before.
SyncedMeansMirrored ==
  row.conn = target /\ Usable(target) =>
    /\ row.state = "synced" /\ ~row.passed =>
         task.want = "shown" /\ cal[target].ver = task.ver
    /\ row.state = "deleted" /\ row.known /\ fence[target].state = "none" =>
         ~Exists(target)

\* Every calendar follows the family's decisions in their order.
Promise ==
  INSTANCE CalendarPromise WITH
    decision <- task.ver,
    shows <- [c \in Conn |-> cal[c].ver],
    newest <- [c \in Conn |-> cal[c].top]

KeepsThePromise == Promise!PromiseSpec

\* process-family-ops-calendar-outbox/index.ts:3-4: provider errors become
\* retryable failures.  So what the family wants shown is, again and again,
\* what its usable calendar shows.
CatchesUp ==
  []<>(task.want = "shown" /\ Usable(target) => cal[target].ver = task.ver)
=============================================================================
