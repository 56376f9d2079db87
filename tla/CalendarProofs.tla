--------------------------- MODULE CalendarProofs ---------------------------
(* For every set of runs, calendars and leases, and whatever Google, the network
   and the clock do: the mirror's state is well typed, at most one write to the
   event of a calendar is on its way, every calendar follows the family's
   decisions in the order they were taken (CalendarMirror implements
   CalendarPromise), and a row that says it is settled tells the truth.

   The argument: a request on its way is fenced, and the fence names the run that
   sent it or is of unknown outcome; nobody gets leave past such a fence.  Who
   still holds its job under its lease has content at least as new as all that was
   ever sent to that calendar, so what Google applies never goes back. *)
EXTENDS CalendarMirror, TLAPS

\* A run in one of these places may still send a write.
Writing == {"read", "ask", "wait", "reread"}

(* Idle runs hold no lease, others one of their own and a calendar; a row that was
   ever queued has a calendar; deletion jobs delete. *)
Seats ==
  /\ row.state # "none" => row.conn \in Conn
  /\ \A w \in Worker :
       IF worker[w].pc = "idle" THEN worker[w].lease = None
       ELSE worker[w].lease \in Lease /\ worker[w].conn \in Conn
  /\ \A w \in Worker : worker[w].job = "cleanup" => worker[w].action = "delete"
  /\ \A v, w \in Worker :
       worker[v].lease = worker[w].lease /\ worker[v].lease # None => v = w

(* Every request on its way is behind the fence of its calendar, which is of unknown
   outcome or the sender's; a sender that is still there waits or has given up. *)
Fenced ==
  \A f \in flight :
    /\ \/ fence[f.conn].state = "uncertain"
       \/ fence[f.conn].state = "inflight" /\ fence[f.conn].lease = f.by
    /\ \A w \in Worker : worker[w].lease = f.by =>
         worker[w].conn = f.conn /\ worker[w].pc \in {"wait", "fail"}

(* All that calendar c ever showed, or may come to show, is no newer than decision v. *)
Bounded(v, c) ==
  /\ cal[c].top <= v
  /\ \A f \in flight : f.conn = c => f.ver <= v

(* Nothing at Google, in a run or in a deletion job stems from a newer decision than the
   row's last claim, and that from none not taken; a request on its way is no older
   than what its calendar has followed. *)
Ages ==
  /\ row.ver <= task.ver
  /\ \A c \in Conn : Bounded(row.ver, c) /\ cleanup[c].ver <= row.ver
  /\ \A w \in Worker : worker[w].ver <= row.ver
  /\ \A f \in flight : cal[f.conn].top <= f.ver

(* The run that holds the row and may still write has the content of its last claim:
   no calendar, request or deletion job has any newer one. *)
HolderIsUpToDate ==
  \A w \in Worker :
    worker[w].pc \in Writing /\ worker[w].job = "mirror" /\ row.lease = worker[w].lease =>
      worker[w].conn = row.conn /\ worker[w].ver = row.ver

(* An open deletion is no older than all there is at its calendar, and its run knows it. *)
DeletionIsUpToDate ==
  /\ \A c \in Conn : cleanup[c].state \notin {"none", "deleted"} => Bounded(cleanup[c].ver, c)
  /\ \A w \in Worker :
       worker[w].pc \in Writing /\ worker[w].job = "cleanup"
         /\ cleanup[worker[w].conn].lease = worker[w].lease =>
       worker[w].ver = cleanup[worker[w].conn].ver

-----------------------------------------------------------------------------
(* What the steps are built from has the right types.                      *)

(* A claim can take a lease nobody holds. *)
LEMMA Leased ==
  ASSUME CanLease
  PROVE  FreshLease \in Lease /\ FreshLease \notin LeasesInUse
BY DEF CanLease, FreshLease

(* A free fence, an uncertain one and an idle run are well typed. *)
LEMMA SmallTyped ==
  /\ NoFence \in Fence
  /\ [NoFence EXCEPT !.state = "uncertain"] \in Fence
  /\ Idle \in RunState
<1>1. 0 \in 0 .. MaxVersion
  BY MirrorAssumption
<1>2. NoFence \in Fence /\ [NoFence EXCEPT !.state = "uncertain"] \in Fence
  BY DEF NoFence, Fence
<1>3. Idle \in RunState
  BY <1>1 DEF Idle, RunState
<1> QED BY <1>2, <1>3

(* A queued row is well typed and nobody holds it. *)
LEMMA QueuedTyped ==
  ASSUME NEW r \in MirrorRow, NEW action \in {"upsert", "delete"}, NEW c \in Conn \cup {None}
  PROVE  /\ Queued(r, action, c) \in MirrorRow
         /\ Queued(r, action, c).state = "pending"
         /\ Queued(r, action, c).lease = None
         /\ Queued(r, action, c).conn = c
         /\ Queued(r, action, c).ver = r.ver
BY DEF Queued, MirrorRow

\* A row is queued, with nobody holding it.
Requeued == \E action \in {"upsert", "delete"}, c \in Conn : row' = Queued(row, action, c)

(* A projection queues the row or leaves it. *)
LEMMA EnqueuedTyped ==
  ASSUME NEW want, NEW c, NEW usable \in BOOLEAN, usable => c \in Conn,
         row' = Enqueued(want, c, usable)
  PROVE  row' = row \/ Requeued
BY DEF Enqueued, Requeued

\* A row is left as it is, but for being passed over.
LeftAlone == row' = row \/ row' = [row EXCEPT !.passed = TRUE]

(* So does a reconciliation, which may pass it over. *)
LEMMA ReconciledTyped ==
  ASSUME NEW c \in Conn, NEW near \in BOOLEAN, row' = Reconciled(c, near)
  PROVE  LeftAlone \/ Requeued
BY DEF Reconciled, Enqueued, Requeued, LeftAlone

(* A row that was queued, or left, is well typed. *)
LEMMA RequeuedTyped ==
  ASSUME TypeOK, LeftAlone \/ Requeued
  PROVE  /\ row' \in MirrorRow /\ (row'.state \in Held <=> row'.lease # None)
         /\ row'.ver = row.ver
<1>1. row \in MirrorRow /\ (row.state \in Held <=> row.lease # None)
  BY DEF TypeOK
<1>2. ASSUME NEW action \in {"upsert", "delete"}, NEW c \in Conn, row' = Queued(row, action, c)
      PROVE  row' \in MirrorRow /\ row'.state = "pending" /\ row'.lease = None /\ row'.ver = row.ver
  BY <1>1, <1>2, QueuedTyped
<1>3. CASE LeftAlone
  BY <1>1, <1>3 DEF LeftAlone, MirrorRow
<1> QED BY <1>1, <1>2, <1>3 DEF Requeued, Held

(* A run whose job ends keeps its lease, calendar and job, and no content. *)
LEMMA EndsTyped ==
  ASSUME NEW me \in RunState, NEW pc \in {"finish", "fail"}
  PROVE  /\ Ends(me, pc) \in RunState
         /\ Ends(me, pc).pc = pc /\ Ends(me, pc).lease = me.lease /\ Ends(me, pc).conn = me.conn
         /\ Ends(me, pc).job = me.job /\ Ends(me, pc).action = me.action /\ Ends(me, pc).ver = 0
<1>1. 0 \in 0 .. MaxVersion
  BY MirrorAssumption
<1> QED BY <1>1 DEF Ends, Idle, RunState

(* Outdated ETags change no type. *)
LEMMA OutdatedTyped ==
  ASSUME NEW c \in Conn, NEW ws \in [Worker -> RunState], NEW fs \in SUBSET Request
  PROVE  OutdatedFor(c, ws) \in [Worker -> RunState] /\ OutdatedIn(c, fs) \subseteq Request
<1>1. ASSUME NEW w \in Worker PROVE OutdatedFor(c, ws)[w] \in RunState
  BY DEF OutdatedFor, RunState
<1>2. OutdatedFor(c, ws) \in [Worker -> RunState]
  BY <1>1 DEF OutdatedFor
<1>3. ASSUME NEW f \in fs PROVE (IF f.conn = c THEN [f EXCEPT !.fresh = FALSE] ELSE f) \in Request
  BY DEF Request
<1> QED BY <1>2, <1>3 DEF OutdatedIn

(* An answered run ends, or reads again with the same content. *)
LEMMA AnsweredTyped ==
  ASSUME NEW f, NEW me \in RunState
  PROVE  /\ Answered(f, me) \in RunState
         /\ Answered(f, me).lease = me.lease /\ Answered(f, me).conn = me.conn
         /\ Answered(f, me).job = me.job
         /\ Answered(f, me).pc \in {"finish", "fail", "reread"}
         /\ Answered(f, me).pc = "reread" => Answered(f, me).ver = me.ver
<1>1. [me EXCEPT !.pc = "reread", !.seen = "none"] \in RunState
  BY DEF RunState
<1> QED BY <1>1, EndsTyped DEF Answered, RunState

(* A request carries its sender's lease, calendar and content. *)
LEMMA SentTyped ==
  ASSUME NEW me \in RunState, me.lease \in Lease, me.conn \in Conn
  PROVE  /\ Sent(me) \in Request
         /\ Sent(me).by = me.lease /\ Sent(me).conn = me.conn /\ Sent(me).ver = me.ver
BY DEF Sent, Request, RunState

\* Closing a job keeps the types, and changes only who holds what.
LEMMA ClosedTyped ==
  ASSUME TypeOK, NEW w \in Worker, NEW state \in {"synced", "deleted", "failed"},
         NEW unresolved \in Fence, Closed(w, state, unresolved),
         worker[w].job = "cleanup" => state # "synced"
  PROVE  TypeOK'
<1> DEFINE me == worker[w]
<1>0. me \in RunState /\ row \in MirrorRow
  BY DEF TypeOK
<1>1. worker' \in [Worker -> RunState]
  BY SmallTyped DEF TypeOK, Closed
<1>2. fence' \in [Conn -> Fence]
  BY DEF TypeOK, Closed
<1>3. ASSUME NEW j \in DeletionJob, state # "synced"
      PROVE  [j EXCEPT !.state = state, !.lease = None, !.live = FALSE] \in DeletionJob
  BY <1>3 DEF DeletionJob
<1>4. me.job = "cleanup" => state # "synced"
  OBVIOUS
<1>5. cleanup' \in [Conn -> DeletionJob]
  <2>1. CASE me.conn \in Conn
    <3>1. cleanup[me.conn] \in DeletionJob
      BY <2>1 DEF TypeOK
    <3> HIDE DEF me
    <3>2. me = worker[w]
      BY DEF me
    <3> QED BY <1>3, <1>4, <2>1, <3>1, <3>2 DEF TypeOK, Closed
  <2>2. CASE me.conn \notin Conn
    BY <2>2 DEF TypeOK, Closed
  <2> QED BY <2>1, <2>2
<1>6. row' \in MirrorRow /\ (row'.state \in Held <=> row'.lease # None)
  <2>1. ASSUME NEW action \in {"upsert", "delete"}, NEW known \in BOOLEAN
        PROVE  [state |-> state, action |-> action, conn |-> row.conn, lease |-> None,
                live |-> FALSE, known |-> known, ver |-> row.ver, passed |-> row.passed] \in MirrorRow
    BY <1>0 DEF MirrorRow
  <2>2. \/ row' = row
        \/ row' = [row EXCEPT !.state = state, !.lease = None, !.live = FALSE]
        \/ row' = [row EXCEPT !.state = state, !.lease = None, !.live = FALSE,
                              !.action = me.action, !.known = @ \/ me.action = "upsert"]
    BY DEF Closed
  <2>3. row' = row
        \/ \E action \in {"upsert", "delete"}, known \in BOOLEAN :
             row' = [state |-> state, action |-> action, conn |-> row.conn, lease |-> None,
                     live |-> FALSE, known |-> known, ver |-> row.ver, passed |-> row.passed]
    BY <1>0, <2>2 DEF MirrorRow, RunState
  <2>4. CASE row' = row
    BY <2>4 DEF TypeOK
  <2>5. ASSUME NEW action \in {"upsert", "delete"}, NEW known \in BOOLEAN,
               row' = [state |-> state, action |-> action, conn |-> row.conn, lease |-> None,
                       live |-> FALSE, known |-> known, ver |-> row.ver, passed |-> row.passed]
        PROVE  row' \in MirrorRow /\ (row'.state \in Held <=> row'.lease # None)
    BY <2>1, <2>5 DEF Held
  <2> QED BY <2>3, <2>4, <2>5
<1> QED BY <1>1, <1>2, <1>5, <1>6 DEF TypeOK, Closed

\* Every step keeps the types.
LEMMA TypesKept ==
  ASSUME TypeOK, Seats, [Next]_vars
  PROVE  TypeOK'
<1> USE DEF database
<1>1. ASSUME NEW want \in {"shown", "unfit"}, Edit(want) PROVE TypeOK'
  <2>1. task' \in Decision
    BY <1>1, MirrorAssumption DEF TypeOK, Edit, Decision
  <2>2. LeftAlone \/ Requeued
    BY <1>1, EnqueuedTyped DEF Edit, Usable, TypeOK, LeftAlone
  <2>3. row' \in MirrorRow /\ (row'.state \in Held <=> row'.lease # None)
    BY <2>2, RequeuedTyped
  <2> QED BY <1>1, <2>1, <2>3 DEF TypeOK, Edit, Held
<1>2. ASSUME Cancel PROVE TypeOK'
  <2>1. task' \in Decision
    BY <1>2, MirrorAssumption DEF TypeOK, Cancel, Decision
  <2>2. LeftAlone \/ Requeued
    BY <1>2, EnqueuedTyped DEF Cancel, Usable, TypeOK, LeftAlone
  <2>3. row' \in MirrorRow /\ (row'.state \in Held <=> row'.lease # None)
    BY <2>2, RequeuedTyped
  <2> QED BY <1>2, <2>1, <2>3 DEF TypeOK, Cancel
<1>3. ASSUME Hide PROVE TypeOK'
  <2>1. task' \in Decision
    BY <1>3, MirrorAssumption DEF TypeOK, Hide, Decision
  <2>2. LeftAlone \/ Requeued
    BY <1>3 DEF Hide, Seats, Requeued, LeftAlone
  <2>3. row' \in MirrorRow /\ (row'.state \in Held <=> row'.lease # None)
    BY <2>2, RequeuedTyped
  <2> QED BY <1>3, <2>1, <2>3 DEF TypeOK, Hide
<1>4. ASSUME NEW c \in Conn, NEW near \in BOOLEAN, SetTarget(c, near) PROVE TypeOK'
  <2>1. row' \in MirrorRow /\ (row'.state \in Held <=> row'.lease # None)
    BY <1>4, ReconciledTyped, RequeuedTyped DEF SetTarget
  <2>2. row.ver \in 0 .. MaxVersion
    BY DEF TypeOK, MirrorRow
  <2>3. [state |-> "pending", lease |-> None, live |-> FALSE, ver |-> row.ver] \in DeletionJob
    BY <2>2 DEF DeletionJob
  <2>4. cleanup' \in [Conn -> DeletionJob]
    BY <1>4, <2>3 DEF TypeOK, SetTarget
  <2>5. acts' \in 0 .. MaxActs
    BY <1>4, MirrorAssumption DEF TypeOK, SetTarget
  <2> QED BY <1>4, <2>1, <2>4, <2>5 DEF TypeOK, SetTarget
<1>5. ASSUME NEW c \in Conn, NEW near \in BOOLEAN, Reconnect(c, near) PROVE TypeOK'
  <2>1. row' \in MirrorRow /\ (row'.state \in Held <=> row'.lease # None)
    BY <1>5, ReconciledTyped, RequeuedTyped DEF Reconnect, LeftAlone
  <2>2. conn' \in [Conn -> [active : BOOLEAN, orphan : BOOLEAN]]
    BY <1>5 DEF TypeOK, Reconnect
  <2> QED BY <1>5, <2>1, <2>2 DEF TypeOK, Reconnect
<1>6. ASSUME NEW w \in Worker, ClaimMirror(w) PROVE TypeOK'
  <2>1. row' \in MirrorRow /\ (row'.state \in Held <=> row'.lease # None)
    <3>1. FreshLease \in Lease /\ FreshLease # None /\ row \in MirrorRow
      BY <1>6, Leased, MirrorAssumption DEF TypeOK, ClaimMirror
    <3>2. \/ row' = [row EXCEPT !.state = "failed", !.lease = None, !.live = FALSE]
          \/ row' = [row EXCEPT !.state = "processing", !.lease = FreshLease, !.live = TRUE,
                                !.ver = task.ver]
      BY <1>6 DEF ClaimMirror
    <3>3. task.ver \in 0 .. MaxVersion
      BY MirrorAssumption DEF TypeOK, Decision
    <3> QED BY <3>1, <3>2, <3>3 DEF MirrorRow, Held
  <2>2. task.ver \in 0 .. MaxVersion
    BY MirrorAssumption DEF TypeOK, Decision
  <2>3. ASSUME NEW gone \in BOOLEAN
        PROVE  [Idle EXCEPT !.pc = "read", !.lease = FreshLease, !.conn = row.conn,
                  !.ver = task.ver, !.known = row.known,
                  !.action = IF gone THEN "delete" ELSE "upsert"] \in RunState
    BY <1>6, <2>2, Leased, SmallTyped DEF ClaimMirror, TypeOK, RunState, MirrorRow
  <2>4. worker' \in [Worker -> RunState]
    BY <1>6, <2>3 DEF TypeOK, ClaimMirror
  <2> QED BY <1>6, <2>1, <2>4 DEF TypeOK, ClaimMirror
<1>7. ASSUME NEW w \in Worker, NEW c \in Conn, ClaimCleanup(w, c) PROVE TypeOK'
  <2>1. cleanup' \in [Conn -> DeletionJob]
    <3>1. FreshLease \in Lease /\ cleanup[c] \in DeletionJob
      BY <1>7, Leased DEF TypeOK, ClaimCleanup
    <3>2. [cleanup[c] EXCEPT !.state = "processing", !.lease = FreshLease, !.live = TRUE]
          \in DeletionJob
      BY <3>1 DEF DeletionJob
    <3> QED BY <1>7, <3>2 DEF TypeOK, ClaimCleanup
  <2>2. cleanup[c].ver \in 0 .. MaxVersion
    BY DEF TypeOK, DeletionJob
  <2>3. [Idle EXCEPT !.pc = "read", !.job = "cleanup", !.lease = FreshLease, !.conn = c,
           !.action = "delete", !.ver = cleanup[c].ver, !.known = TRUE] \in RunState
    BY <1>7, <2>2, Leased, SmallTyped DEF ClaimCleanup, RunState
  <2>4. worker' \in [Worker -> RunState]
    BY <1>7, <2>3 DEF TypeOK, ClaimCleanup
  <2> QED BY <1>7, <2>1, <2>4 DEF TypeOK, ClaimCleanup
<1>8. ASSUME NEW w \in Worker, Read(w) PROVE TypeOK'
  <2>1. worker[w] \in RunState
    BY DEF TypeOK
  <2>2. ASSUME NEW again \in BOOLEAN, NEW seen \in {"current", "gone"}
        PROVE  [worker[w] EXCEPT !.pc = "ask", !.again = again, !.seen = seen] \in RunState
    BY <2>1 DEF RunState
  <2>3. worker' \in [Worker -> RunState]
    BY <1>8, <2>1, <2>2, EndsTyped DEF TypeOK, Read
  <2> QED BY <1>8, <2>3 DEF TypeOK, Read
<1>9. ASSUME NEW w \in Worker, Refused(w) PROVE TypeOK'
  <2>1. fence[worker[w].conn] \in Fence \/ worker[w].conn \notin Conn
    BY DEF TypeOK
  <2>2. fence' \in [Conn -> Fence]
    BY <1>9, <2>1, SmallTyped DEF TypeOK, Refused, FenceSeenBy
  <2>3. worker' \in [Worker -> RunState]
    BY <1>9, SmallTyped DEF TypeOK, Refused
  <2> QED BY <1>9, <2>2, <2>3 DEF TypeOK, Refused
<1>10. ASSUME NEW w \in Worker, Send(w) PROVE TypeOK'
  <2>1. worker[w] \in RunState /\ worker[w].lease \in Lease /\ worker[w].conn \in Conn
    BY <1>10 DEF TypeOK, Seats, Send
  <2>2. [state |-> "inflight", lease |-> worker[w].lease, late |-> FALSE] \in Fence
    BY <2>1 DEF Fence
  <2>3. fence' \in [Conn -> Fence]
    BY <1>10, <2>2 DEF TypeOK, Send
  <2>4. flight' \subseteq Request
    BY <1>10, <2>1, SentTyped DEF TypeOK, Send
  <2>5. [worker[w] EXCEPT !.pc = "wait"] \in RunState
    BY <2>1 DEF RunState
  <2>6. worker' \in [Worker -> RunState]
    BY <1>10, <2>5 DEF TypeOK, Send
  <2> QED BY <1>10, <2>3, <2>4, <2>6 DEF TypeOK, Send
<1>11. ASSUME NEW w \in Worker, Finish(w) PROVE TypeOK'
  BY <1>11, SmallTyped, ClosedTyped DEF Finish, Seats, TypeOK, RunState
<1>12. ASSUME NEW w \in Worker, Fail(w) PROVE TypeOK'
  BY <1>12, SmallTyped, ClosedTyped DEF Fail
<1>13. ASSUME NEW w \in Worker, NoAnswer(w) PROVE TypeOK'
  <2>1. worker' \in [Worker -> RunState]
    BY <1>13, EndsTyped DEF TypeOK, NoAnswer
  <2>2. trouble' \in 0 .. MaxTrouble
    BY <1>13, MirrorAssumption DEF TypeOK, NoAnswer, Troubled
  <2> QED BY <1>13, <2>1, <2>2 DEF TypeOK, NoAnswer
<1>14. ASSUME NEW w \in Worker, GrantLost(w) PROVE TypeOK'
  <2>1. worker' \in [Worker -> RunState]
    BY <1>14, EndsTyped DEF TypeOK, GrantLost
  <2>2. trouble' \in 0 .. MaxTrouble
    BY <1>14, MirrorAssumption DEF TypeOK, GrantLost, Troubled
  <2>3. conn' \in [Conn -> [active : BOOLEAN, orphan : BOOLEAN]]
    BY <1>14 DEF TypeOK, GrantLost
  <2> QED BY <1>14, <2>1, <2>2, <2>3 DEF TypeOK, GrantLost
<1>15. ASSUME NEW w \in Worker, AccessLost(w) PROVE TypeOK'
  <2>1. worker' \in [Worker -> RunState]
    BY <1>15, EndsTyped DEF TypeOK, AccessLost
  <2>2. trouble' \in 0 .. MaxTrouble
    BY <1>15, MirrorAssumption DEF TypeOK, AccessLost, Troubled
  <2>3. conn' \in [Conn -> [active : BOOLEAN, orphan : BOOLEAN]]
    BY <1>15 DEF TypeOK, AccessLost
  <2>4. row' \in MirrorRow /\ (row'.state \in Held <=> row'.lease # None)
    BY <1>15 DEF TypeOK, AccessLost, Blocked, Unblocked, MirrorRow, Held
  <2>5. ASSUME NEW j \in DeletionJob PROVE Blocked(j) \in DeletionJob
    BY DEF Blocked, DeletionJob
  <2>6. cleanup' \in [Conn -> DeletionJob]
    BY <1>15, <2>5 DEF TypeOK, AccessLost
  <2>7. target' \in Conn \cup {None}
    BY <1>15 DEF TypeOK, AccessLost
  <2>8. flight' \subseteq Request
    BY <1>15 DEF TypeOK, AccessLost
  <2> QED BY <1>15, <2>1, <2>2, <2>3, <2>4, <2>6, <2>7, <2>8 DEF TypeOK, AccessLost
<1>16. ASSUME NEW w \in Worker, Crash(w) PROVE TypeOK'
  <2>1. worker' \in [Worker -> RunState]
    BY <1>16, SmallTyped DEF TypeOK, Crash
  <2>2. trouble' \in 0 .. MaxTrouble
    BY <1>16, MirrorAssumption DEF TypeOK, Crash, Troubled
  <2> QED BY <1>16, <2>1, <2>2 DEF TypeOK, Crash
<1>17. ASSUME NEW f \in flight, Land(f) PROVE TypeOK'
  <2> DEFINE told == [w \in Worker |->
                IF worker[w].pc = "wait" /\ worker[w].lease = f.by
                THEN Answered(f, worker[w]) ELSE worker[w]]
  <2>1. told \in [Worker -> RunState]
    BY AnsweredTyped DEF TypeOK
  <2>2. f \in Request /\ flight \ {f} \in SUBSET Request
    BY DEF TypeOK
  <2>3. f.conn \in Conn /\ f.ver \in 0 .. MaxVersion /\ 0 \in 0 .. MaxVersion
    BY <2>2, MirrorAssumption DEF Request
  <2>4. cal' \in [Conn -> [ver : 0 .. MaxVersion, top : 0 .. MaxVersion]]
    BY <1>17, <2>3 DEF TypeOK, Land
  <2>5. worker' \in [Worker -> RunState] /\ flight' \subseteq Request
    <3>1. (worker' = OutdatedFor(f.conn, told) /\ flight' = OutdatedIn(f.conn, flight \ {f}))
          \/ (worker' = told /\ flight' = flight \ {f})
      BY <1>17 DEF Land
    <3> HIDE DEF told
    <3> QED BY <2>1, <2>2, <2>3, <3>1, OutdatedTyped
  <2> QED BY <1>17, <2>4, <2>5 DEF TypeOK, Land
<1>18. ASSUME NEW c \in Conn, Touch(c) PROVE TypeOK'
  <2>1. worker' \in [Worker -> RunState] /\ flight' \subseteq Request
    BY <1>18, OutdatedTyped DEF TypeOK, Touch
  <2>2. acts' \in 0 .. MaxActs
    BY <1>18, MirrorAssumption DEF TypeOK, Touch
  <2> QED BY <1>18, <2>1, <2>2 DEF TypeOK, Touch
<1>19. ASSUME RowLapses PROVE TypeOK'
  <2>1. row' \in MirrorRow /\ (row'.state \in Held <=> row'.lease # None)
    BY <1>19 DEF TypeOK, RowLapses, MirrorRow
  <2>2. trouble' \in 0 .. MaxTrouble
    BY <1>19, MirrorAssumption DEF TypeOK, RowLapses, MayLapse, Troubled
  <2> QED BY <1>19, <2>1, <2>2 DEF TypeOK, RowLapses
<1>20. ASSUME NEW c \in Conn, CleanupLapses(c) PROVE TypeOK'
  <2>1. cleanup' \in [Conn -> DeletionJob]
    BY <1>20 DEF TypeOK, CleanupLapses, DeletionJob
  <2>2. trouble' \in 0 .. MaxTrouble
    BY <1>20, MirrorAssumption DEF TypeOK, CleanupLapses, MayLapse, Troubled
  <2> QED BY <1>20, <2>1, <2>2 DEF TypeOK, CleanupLapses
<1>21. ASSUME NEW c \in Conn, Deadline(c) PROVE TypeOK'
  <2>1. fence' \in [Conn -> Fence]
    BY <1>21 DEF TypeOK, Deadline, Fence
  <2> QED BY <1>21, <2>1 DEF TypeOK, Deadline
<1>22. CASE UNCHANGED vars
  BY <1>22 DEF TypeOK, vars
<1> QED BY <1>1, <1>2, <1>3, <1>4, <1>5, <1>6, <1>7, <1>8, <1>9, <1>10, <1>11, <1>12, <1>13,
           <1>14, <1>15, <1>16, <1>17, <1>18, <1>19, <1>20, <1>21, <1>22
        DEF Next, Household, Work, Misfortune, Clock

-----------------------------------------------------------------------------
(* What a step may do to a run, to the row and to the requests.            *)

\* The same run of the same job, further on.
Further(r, s) ==
  /\ s.lease = r.lease /\ s.conn = r.conn /\ s.job = r.job /\ s.action = r.action
  /\ s.pc = "idle" <=> r.pc = "idle"
  /\ s.pc \in Writing => r.pc \in Writing /\ s.ver = r.ver
  /\ s.ver = r.ver \/ s.ver = 0

Advance == \A w \in Worker : Further(worker[w], worker'[w])

Departs(w) == worker' = [worker EXCEPT ![w] = Idle]

\* Of the requests only those in fs are left, and some of them are outdated.
Thinned(fs) == flight' = fs \/ \E c \in Conn : flight' = OutdatedIn(c, fs)

(* What is counted is a number, what is sent has a sender and a calendar. *)
LEMMA Numbers ==
  ASSUME TypeOK
  PROVE  /\ task.ver \in Nat /\ row.ver \in Nat
         /\ \A c \in Conn : cal[c].top \in Nat /\ cleanup[c].ver \in Nat
         /\ \A w \in Worker : worker[w].ver \in Nat
         /\ \A f \in flight : f.ver \in Nat /\ f.conn \in Conn /\ f.by \in Lease
<1>1. task.ver \in Nat /\ row.ver \in Nat
  BY MirrorAssumption DEF TypeOK, Decision, MirrorRow
<1>2. ASSUME NEW c \in Conn PROVE cal[c].top \in Nat /\ cleanup[c].ver \in Nat
  BY MirrorAssumption DEF TypeOK, DeletionJob
<1>3. ASSUME NEW w \in Worker PROVE worker[w].ver \in Nat
  BY MirrorAssumption DEF TypeOK, RunState
<1>4. ASSUME NEW f \in flight PROVE f.ver \in Nat /\ f.conn \in Conn /\ f.by \in Lease
  BY MirrorAssumption DEF TypeOK, Request
<1> QED BY <1>1, <1>2, <1>3, <1>4

(* The requests that are left were there before. *)
LEMMA ThinnedAreOld ==
  ASSUME TypeOK, NEW fs \in SUBSET flight, Thinned(fs)
  PROVE  /\ \A g \in flight' : \E f \in fs : g.by = f.by /\ g.conn = f.conn /\ g.ver = f.ver
         /\ OneRequestAtATime => OneRequestAtATime'
<1>1. CASE flight' = fs
  BY <1>1 DEF OneRequestAtATime
<1>2. ASSUME NEW c \in Conn, flight' = OutdatedIn(c, fs)
      PROVE  /\ \A g \in flight' : \E f \in fs : g.by = f.by /\ g.conn = f.conn /\ g.ver = f.ver
             /\ OneRequestAtATime => OneRequestAtATime'
  <2> DEFINE old(f) == IF f.conn = c THEN [f EXCEPT !.fresh = FALSE] ELSE f
  <2>1. ASSUME NEW f \in fs PROVE old(f).by = f.by /\ old(f).conn = f.conn /\ old(f).ver = f.ver
    BY DEF TypeOK, Request
  <2>2. \A g \in flight' : \E f \in fs : g = old(f)
    BY <1>2 DEF OutdatedIn
  <2> HIDE DEF old
  <2>3. \A g \in flight' : \E f \in fs : g.by = f.by /\ g.conn = f.conn /\ g.ver = f.ver
    BY <2>1, <2>2
  <2>4. ASSUME OneRequestAtATime, NEW g \in flight', NEW h \in flight', g.conn = h.conn PROVE g = h
    <3>1. PICK f \in fs : g = old(f)
      BY <2>2
    <3>2. PICK e \in fs : h = old(e)
      BY <2>2
    <3>3. f.conn = e.conn
      BY <2>1, <2>4, <3>1, <3>2
    <3> QED BY <2>4, <3>1, <3>2, <3>3 DEF OneRequestAtATime
  <2> QED BY <2>3, <2>4 DEF OneRequestAtATime
<1> QED BY <1>1, <1>2 DEF Thinned

(* A read takes a run one place further. *)
LEMMA ReadMoves ==
  ASSUME TypeOK, NEW w \in Worker, Read(w)
  PROVE  \E s \in RunState : /\ worker' = [worker EXCEPT ![w] = s]
                             /\ Further(worker[w], s) /\ s.pc \in {"ask", "finish", "fail"}
<1>1. worker[w] \in RunState /\ worker[w].pc \in {"read", "reread"}
  BY DEF TypeOK, Read
<1>2. ASSUME NEW again \in BOOLEAN, NEW seen \in {"current", "gone"}
      PROVE  LET s == [worker[w] EXCEPT !.pc = "ask", !.again = again, !.seen = seen]
             IN  s \in RunState /\ Further(worker[w], s) /\ s.pc = "ask"
  BY <1>1 DEF RunState, Further, Writing
<1>3. ASSUME NEW pc \in {"finish", "fail"}
      PROVE  Ends(worker[w], pc) \in RunState /\ Further(worker[w], Ends(worker[w], pc))
             /\ Ends(worker[w], pc).pc = pc
  BY <1>1, EndsTyped DEF Further, Writing
<1>4. \/ \E again \in BOOLEAN, seen \in {"current", "gone"} :
           worker' = [worker EXCEPT ![w] = [worker[w] EXCEPT !.pc = "ask", !.again = again, !.seen = seen]]
      \/ \E pc \in {"finish", "fail"} : worker' = [worker EXCEPT ![w] = Ends(worker[w], pc)]
  BY DEF Read
<1> QED BY <1>2, <1>3, <1>4

(* A run that fails moves, and no other. *)
LEMMA FailMoves ==
  ASSUME TypeOK, NEW w \in Worker, worker[w].pc # "idle",
         worker' = [worker EXCEPT ![w] = Ends(@, "fail")]
  PROVE  /\ Advance /\ worker'[w].pc = "fail"
         /\ \A v \in Worker : v # w => worker'[v] = worker[v]
<1>1. worker[w] \in RunState
  BY DEF TypeOK
<1>2. Further(worker[w], Ends(worker[w], "fail")) /\ Ends(worker[w], "fail").pc = "fail"
  BY <1>1, EndsTyped DEF Further, Writing
<1>3. worker'[w] = Ends(worker[w], "fail") /\ \A v \in Worker : v # w => worker'[v] = worker[v]
  BY DEF TypeOK
<1>4. \A v \in Worker : Further(worker[v], worker[v])
  BY DEF Further
<1> QED BY <1>2, <1>3, <1>4 DEF Advance

(* An outdated ETag leaves the run where it is. *)
LEMMA OutdatedMoves ==
  ASSUME NEW c \in Conn, NEW ws \in [Worker -> RunState], NEW w \in Worker
  PROVE  /\ Further(ws[w], OutdatedFor(c, ws)[w])
         /\ OutdatedFor(c, ws)[w].pc = ws[w].pc
BY DEF OutdatedFor, Further, RunState

(* A hand on the event in Google moves no run. *)
LEMMA TouchMoves ==
  ASSUME TypeOK, NEW c \in Conn, Touch(c)
  PROVE  Advance /\ Thinned(flight) /\ \A w \in Worker : worker'[w].pc = worker[w].pc
BY OutdatedMoves DEF TypeOK, Touch, Advance, Thinned

\* Only who waits for the request is told.
LEMMA LandMoves ==
  ASSUME TypeOK, NEW f \in flight, Land(f)
  PROVE  /\ Advance
         /\ Thinned(flight \ {f})
         /\ \A w \in Worker : \/ worker'[w].pc = worker[w].pc
                              \/ worker[w].pc = "wait" /\ worker[w].lease = f.by
<1> DEFINE told == [w \in Worker |->
              IF worker[w].pc = "wait" /\ worker[w].lease = f.by
              THEN Answered(f, worker[w]) ELSE worker[w]]
<1>1. f.conn \in Conn
  BY Numbers
<1>2. told \in [Worker -> RunState]
  BY AnsweredTyped DEF TypeOK
<1>3. ASSUME NEW w \in Worker
      PROVE  /\ Further(worker[w], told[w])
             /\ told[w].pc = worker[w].pc \/ (worker[w].pc = "wait" /\ worker[w].lease = f.by)
  <2>1. worker[w] \in RunState
    BY DEF TypeOK
  <2>2. CASE worker[w].pc = "wait" /\ worker[w].lease = f.by
    <3>1. told[w] = Answered(f, worker[w])
      BY <2>2
    <3>2. Answered(f, worker[w]).action = worker[w].action
          /\ (Answered(f, worker[w]).ver = worker[w].ver \/ Answered(f, worker[w]).ver = 0)
      BY <2>1, EndsTyped DEF Answered, Ends, Idle, RunState
    <3> HIDE DEF told
    <3> QED BY <2>1, <2>2, <3>1, <3>2, AnsweredTyped DEF Further, Writing
  <2>3. CASE ~(worker[w].pc = "wait" /\ worker[w].lease = f.by)
    BY <2>3 DEF Further
  <2> QED BY <2>2, <2>3
<1>4. \/ worker' = OutdatedFor(f.conn, told) /\ flight' = OutdatedIn(f.conn, flight \ {f})
      \/ worker' = told /\ flight' = flight \ {f}
  BY DEF Land
<1> HIDE DEF told
<1>5. ASSUME NEW w \in Worker
      PROVE  /\ Further(worker[w], worker'[w])
             /\ worker'[w].pc = worker[w].pc \/ (worker[w].pc = "wait" /\ worker[w].lease = f.by)
  <2>1. Further(told[w], worker'[w]) /\ worker'[w].pc = told[w].pc
    BY <1>1, <1>2, <1>4, OutdatedMoves DEF Further
  <2> QED BY <1>3, <2>1 DEF Further
<1> QED BY <1>1, <1>4, <1>5 DEF Advance, Thinned

\* A step after which every run that still writes is the same run, further on.
Proceeds == \A w \in Worker : worker'[w].pc \in Writing => Further(worker[w], worker'[w])

\* The row keeps its holder or loses it; the deletion jobs do too.
SameRow ==
  /\ row'.conn = row.conn /\ row'.ver = row.ver /\ row'.passed = row.passed
  /\ row'.lease \in {row.lease, None}

SameJobs ==
  \A c \in Conn : /\ cleanup'[c].ver = cleanup[c].ver
                  /\ cleanup'[c].lease \in {cleanup[c].lease, None}
                  /\ cleanup[c].state \in {"none", "deleted"} => cleanup'[c].state \in {"none", "deleted"}

(* A new lease is nobody's, of runs, rows, fences and requests. *)
LEMMA Fresh ==
  ASSUME TypeOK, CanLease
  PROVE  /\ FreshLease \in Lease /\ FreshLease # None
         /\ row.lease # FreshLease
         /\ \A w \in Worker : worker[w].lease # FreshLease
         /\ \A c \in Conn : cleanup[c].lease # FreshLease /\ fence[c].lease # FreshLease
         /\ \A f \in flight : f.by # FreshLease
BY Leased, MirrorAssumption DEF LeasesInUse

(* A run that is gone writes nothing more. *)
LEMMA Departed ==
  ASSUME TypeOK, NEW w \in Worker, Departs(w)
  PROVE  /\ Proceeds
         /\ worker'[w] = Idle /\ \A v \in Worker : v # w => worker'[v] = worker[v]
<1>1. worker'[w] = Idle /\ \A v \in Worker : v # w => worker'[v] = worker[v]
  BY DEF TypeOK, Departs
<1> QED BY <1>1 DEF Proceeds, Further, Writing, Idle

(* Closing a job ends the run, takes at most its own lease, and settles at most its
   own fence. *)
LEMMA ClosedMoves ==
  ASSUME TypeOK, NEW w \in Worker, NEW state \in {"synced", "deleted", "failed"},
         worker[w].conn \in Conn, NEW unresolved \in Fence, Closed(w, state, unresolved)
  PROVE  /\ Departs(w) /\ SameRow /\ SameJobs
         /\ row.state = "none" => row'.state = "none"
         /\ UNCHANGED <<task, cal, flight>>
         /\ \/ UNCHANGED fence
            \/ /\ fence[worker[w].conn].state = "inflight"
               /\ fence[worker[w].conn].lease = worker[w].lease
               /\ fence' = [fence EXCEPT ![worker[w].conn] = unresolved]
<1>1. row \in MirrorRow /\ worker[w] \in RunState /\ cleanup \in [Conn -> DeletionJob]
  BY DEF TypeOK
<1>2. CASE ~Holds(worker[w])
  BY <1>2 DEF Closed, Departs, SameRow, SameJobs
<1>3. CASE Holds(worker[w]) /\ worker[w].job = "cleanup"
  <2>1. cleanup' = [cleanup EXCEPT ![worker[w].conn] =
                      [@ EXCEPT !.state = state, !.lease = None, !.live = FALSE]]
    BY <1>3 DEF Closed
  <2>2. cleanup[worker[w].conn].state = "processing"
    BY <1>3 DEF Holds, Held
  <2>3. SameJobs
    BY <1>1, <2>1, <2>2 DEF SameJobs, DeletionJob
  <2> QED BY <1>3, <2>3 DEF Closed, Departs, SameRow
<1>4. CASE Holds(worker[w]) /\ worker[w].job # "cleanup"
  <2>1. worker[w].job = "mirror" /\ row.state = "processing"
    BY <1>1, <1>4 DEF Holds, Held, RunState
  <2>2. SameRow
    BY <1>1, <1>4 DEF Closed, SameRow, MirrorRow
  <2>3. SameJobs
    BY <1>4 DEF Closed, SameJobs
  <2> QED BY <1>4, <2>1, <2>2, <2>3 DEF Closed, Departs
<1> QED BY <1>2, <1>3, <1>4

(* A read moves one run, which does not wait for a request. *)
LEMMA ReadAdvances ==
  ASSUME TypeOK, NEW w \in Worker, Read(w)
  PROVE  /\ Advance /\ worker'[w].pc \in {"ask", "finish", "fail"}
         /\ \A v \in Worker : v # w => worker'[v] = worker[v]
<1>1. PICK s \in RunState : /\ worker' = [worker EXCEPT ![w] = s]
                            /\ Further(worker[w], s) /\ s.pc \in {"ask", "finish", "fail"}
  BY ReadMoves
<1>2. worker'[w] = s /\ \A v \in Worker : v # w => worker'[v] = worker[v]
  BY <1>1 DEF TypeOK
<1>3. \A v \in Worker : Further(worker[v], worker[v])
  BY DEF Further
<1> QED BY <1>1, <1>2, <1>3 DEF Advance

(* Finish and Fail both close the job; Finish frees the fence, Fail leaves it uncertain. *)
LEMMA EndMoves ==
  ASSUME TypeOK, Seats, NEW w \in Worker, Finish(w) \/ Fail(w)
  PROVE  /\ Departs(w) /\ SameRow /\ SameJobs
         /\ row.state = "none" => row'.state = "none"
         /\ UNCHANGED <<task, cal, flight>>
         /\ \/ UNCHANGED fence
            \/ /\ fence[worker[w].conn].lease = worker[w].lease
               /\ \/ worker[w].pc = "finish" /\ fence[worker[w].conn].state = "inflight"
                  \/ worker[w].pc = "fail"
               /\ fence' = [fence EXCEPT ![worker[w].conn] =
                              IF worker[w].pc = "finish" THEN NoFence
                              ELSE [NoFence EXCEPT !.state = "uncertain"]]
<1>1. worker[w].conn \in Conn
  BY DEF Seats, Finish, Fail
<1> QED BY <1>1, ClosedMoves, SmallTyped DEF Finish, Fail

-----------------------------------------------------------------------------
(* Seats.                                                                  *)

(* Runs that move keep their seats. *)
LEMMA SeatsAdvance ==
  ASSUME TypeOK, Seats, Advance, row'.state # "none" => row'.conn \in Conn
  PROVE  Seats'
BY DEF Seats, Advance, Further

(* A run that is gone leaves its seat. *)
LEMMA SeatsDepart ==
  ASSUME TypeOK, Seats, NEW w \in Worker, Departs(w), row'.state # "none" => row'.conn \in Conn
  PROVE  Seats'
BY Departed DEF Seats, Idle

\* Whoever claims takes a lease nobody has.
LEMMA SeatsClaim ==
  ASSUME TypeOK, Seats, CanLease, NEW w \in Worker, NEW s,
         s.pc # "idle", s.lease = FreshLease, s.conn \in Conn,
         s.job = "cleanup" => s.action = "delete",
         worker' = [worker EXCEPT ![w] = s], row'.state # "none" => row'.conn \in Conn
  PROVE  Seats'
<1>1. worker'[w] = s /\ \A v \in Worker : v # w => worker'[v] = worker[v]
  BY DEF TypeOK
<1> QED BY <1>1, Fresh DEF Seats

(* Every step keeps the seats. *)
LEMMA SeatsKept ==
  ASSUME TypeOK, Seats, [Next]_vars
  PROVE  Seats'
<1> USE DEF database
<1>1. ASSUME NEW want \in {"shown", "unfit"}, Edit(want) PROVE Seats'
  BY <1>1 DEF Seats, TypeOK, Edit, Enqueued, Queued, Usable, MirrorRow
<1>2. ASSUME Cancel PROVE Seats'
  BY <1>2 DEF Seats, TypeOK, Cancel, Enqueued, Queued, Usable, MirrorRow
<1>3. ASSUME Hide PROVE Seats'
  BY <1>3 DEF Seats, TypeOK, Hide, Queued, MirrorRow
<1>4. ASSUME NEW c \in Conn, NEW near \in BOOLEAN, SetTarget(c, near) \/ Reconnect(c, near) PROVE Seats'
  <2>1. LeftAlone \/ Requeued
    BY <1>4, ReconciledTyped DEF SetTarget, Reconnect, LeftAlone
  <2>2. row'.state # "none" => row'.conn \in Conn
    <3>1. ASSUME NEW action \in {"upsert", "delete"}, NEW d \in Conn, row' = Queued(row, action, d)
          PROVE  row'.conn \in Conn
      <4>1. row \in MirrorRow /\ d \in Conn \cup {None}
        BY DEF TypeOK
      <4> QED BY <3>1, <4>1, QueuedTyped
    <3>2. CASE LeftAlone
      BY <3>2 DEF LeftAlone, Seats, TypeOK, MirrorRow
    <3> QED BY <2>1, <3>1, <3>2 DEF Requeued
  <2> QED BY <1>4, <2>2 DEF Seats, SetTarget, Reconnect
<1>5. ASSUME NEW w \in Worker, ClaimMirror(w) PROVE Seats'
  <2>1. row.conn \in Conn /\ row'.conn = row.conn /\ row \in MirrorRow
    BY <1>5 DEF ClaimMirror, Claimable, Waiting, Held, Seats, TypeOK, MirrorRow
  <2>2. CASE UNCHANGED worker
    BY <2>1, <2>2 DEF Seats
  <2>3. CASE worker' # worker
    <3>1. PICK gone \in BOOLEAN : worker' = [worker EXCEPT ![w] =
            [Idle EXCEPT !.pc = "read", !.lease = FreshLease, !.conn = row.conn, !.ver = task.ver,
                         !.known = row.known, !.action = IF gone THEN "delete" ELSE "upsert"]]
      BY <1>5, <2>3 DEF ClaimMirror
    <3> QED BY <1>5, <2>1, <3>1, SeatsClaim DEF ClaimMirror, Idle
  <2> QED BY <2>2, <2>3
<1>6. ASSUME NEW w \in Worker, NEW c \in Conn, ClaimCleanup(w, c) PROVE Seats'
  BY <1>6, SeatsClaim DEF ClaimCleanup, Idle, Seats
<1>7. ASSUME NEW w \in Worker, Read(w) PROVE Seats'
  BY <1>7, ReadAdvances, SeatsAdvance DEF Read, Seats
<1>8. ASSUME NEW w \in Worker, Refused(w) \/ Crash(w) PROVE Seats'
  BY <1>8, SeatsDepart DEF Refused, Crash, Departs, Seats
<1>9. ASSUME NEW w \in Worker, Send(w) PROVE Seats'
  BY <1>9 DEF Seats, TypeOK, Send, RunState
<1>10. ASSUME NEW w \in Worker, Finish(w) \/ Fail(w) PROVE Seats'
  BY <1>10, EndMoves, SeatsDepart DEF Seats, SameRow
<1>11. ASSUME NEW w \in Worker, NoAnswer(w) \/ GrantLost(w) PROVE Seats'
  BY <1>11, FailMoves, SeatsAdvance DEF NoAnswer, GrantLost, Seats
<1>12. ASSUME NEW w \in Worker, AccessLost(w) PROVE Seats'
  <2>1. row'.state # "none" => row'.conn \in Conn
    BY <1>12 DEF AccessLost, Blocked, Unblocked, Seats, TypeOK, MirrorRow
  <2> QED BY <1>12, <2>1, FailMoves, SeatsAdvance DEF AccessLost
<1>13. ASSUME NEW f \in flight, Land(f) PROVE Seats'
  BY <1>13, LandMoves, SeatsAdvance DEF Land, Seats
<1>14. ASSUME NEW c \in Conn, Touch(c) PROVE Seats'
  BY <1>14, TouchMoves, SeatsAdvance DEF Touch, Seats
<1>15. ASSUME RowLapses PROVE Seats'
  BY <1>15 DEF Seats, TypeOK, RowLapses, MirrorRow
<1>16. ASSUME NEW c \in Conn, CleanupLapses(c) \/ Deadline(c) PROVE Seats'
  BY <1>16 DEF Seats, CleanupLapses, Deadline
<1>17. CASE UNCHANGED vars
  BY <1>17 DEF Seats, vars
<1> QED BY <1>1, <1>2, <1>3, <1>4, <1>5, <1>6, <1>7, <1>8, <1>9, <1>10, <1>11, <1>12, <1>13,
           <1>14, <1>15, <1>16, <1>17 DEF Next, Household, Work, Misfortune, Clock

-----------------------------------------------------------------------------
(* Fences and requests.                                                    *)

(* Leave is only given where nothing is on its way, so no step adds a second request. *)
LEMMA OneRequestKept ==
  ASSUME TypeOK, Seats, Fenced, OneRequestAtATime, [Next]_vars
  PROVE  OneRequestAtATime'
<1> USE DEF database
<1>1. CASE UNCHANGED flight
  BY <1>1 DEF OneRequestAtATime
<1>2. ASSUME NEW w \in Worker, Send(w) PROVE OneRequestAtATime'
  <2> DEFINE me == worker[w]
  <2>1. me \in RunState /\ me.lease \in Lease /\ me.conn \in Conn /\ me.pc = "ask"
    BY <1>2 DEF TypeOK, Seats, Send
  <2>2. ASSUME NEW f \in flight, f.conn = me.conn PROVE FALSE
    <3>1. fence[me.conn].state = "inflight" /\ fence[me.conn].lease = me.lease
      BY <1>2, <2>1, <2>2 DEF Fenced, Send, FenceSeenBy, NoFence
    <3> QED BY <2>1, <2>2, <3>1 DEF Fenced
  <2> HIDE DEF me
  <2>3. flight' = flight \cup {Sent(me)} /\ Sent(me).conn = me.conn
    BY <1>2, <2>1, SentTyped DEF Send, me
  <2> QED BY <2>2, <2>3 DEF OneRequestAtATime
<1>3. ASSUME NEW w \in Worker, NoAnswer(w) \/ AccessLost(w) PROVE OneRequestAtATime'
  BY <1>3 DEF OneRequestAtATime, NoAnswer, AccessLost, Mine
<1>4. ASSUME NEW f \in flight, Land(f) PROVE OneRequestAtATime'
  BY <1>4, LandMoves, ThinnedAreOld
<1>5. ASSUME NEW c \in Conn, Touch(c) PROVE OneRequestAtATime'
  BY <1>5, TouchMoves, ThinnedAreOld
<1>6. ASSUME NEW w \in Worker, Finish(w) \/ Fail(w) PROVE OneRequestAtATime'
  BY <1>1, <1>6, EndMoves
<1>7. CASE Household \/ Clock \/ UNCHANGED vars
  <2>1. UNCHANGED flight
    BY <1>7 DEF Household, Edit, Cancel, Hide, SetTarget, Reconnect, Clock, RowLapses, CleanupLapses,
                Deadline, vars
  <2> QED BY <1>1, <2>1
<1>8. ASSUME NEW w \in Worker, Work(w) PROVE OneRequestAtATime'
  <2>1. UNCHANGED flight \/ Send(w) \/ Finish(w) \/ Fail(w)
    BY <1>8 DEF Work, ClaimMirror, ClaimCleanup, Read, Refused
  <2> QED BY <1>1, <1>2, <1>6, <2>1
<1>9. ASSUME NEW w \in Worker, Misfortune(w) PROVE OneRequestAtATime'
  <2>1. UNCHANGED flight \/ NoAnswer(w) \/ AccessLost(w)
    BY <1>9 DEF Misfortune, GrantLost, Crash
  <2> QED BY <1>1, <1>3, <2>1
<1> QED BY <1>4, <1>5, <1>7, <1>8, <1>9 DEF Next

\* The request that lands was the only one at its calendar.
LEMMA LandLeaves ==
  ASSUME TypeOK, OneRequestAtATime, NEW f \in flight, Land(f)
  PROVE  \A g \in flight' : \E h \in flight : /\ g.by = h.by /\ g.conn = h.conn /\ g.ver = h.ver
                                              /\ h # f /\ h.conn # f.conn
<1>1. flight \ {f} \in SUBSET flight /\ Thinned(flight \ {f})
  BY LandMoves
<1>2. \A g \in flight' : \E h \in flight \ {f} : g.by = h.by /\ g.conn = h.conn /\ g.ver = h.ver
  BY <1>1, ThinnedAreOld
<1> QED BY <1>2 DEF OneRequestAtATime

(* No step takes the fence from a request on its way. *)
LEMMA FencedKept ==
  ASSUME TypeOK, Seats, Fenced, OneRequestAtATime, [Next]_vars
  PROVE  Fenced'
<1> USE DEF database
<1>1. ASSUME UNCHANGED <<fence, flight>>, UNCHANGED worker PROVE Fenced'
  BY <1>1 DEF Fenced
<1>2. CASE Household \/ RowLapses \/ (\E c \in Conn : CleanupLapses(c)) \/ UNCHANGED vars
  <2>1. UNCHANGED <<fence, flight, worker>>
    BY <1>2 DEF Household, Edit, Cancel, Hide, SetTarget, Reconnect, RowLapses, CleanupLapses, vars
  <2> QED BY <1>1, <2>1
<1>3. ASSUME NEW c \in Conn, Deadline(c) PROVE Fenced'
  BY <1>3 DEF Fenced, TypeOK, Deadline, Fence
<1>4. ASSUME NEW w \in Worker, NEW s, CanLease, UNCHANGED <<fence, flight>>, s.lease = FreshLease,
             worker' = [worker EXCEPT ![w] = s]
      PROVE  Fenced'
  <2>1. worker'[w] = s /\ \A v \in Worker : v # w => worker'[v] = worker[v]
    BY <1>4 DEF TypeOK
  <2> QED BY <1>4, <2>1, Fresh DEF Fenced
<1>5. ASSUME NEW w \in Worker, ClaimMirror(w) PROVE Fenced'
  <2>1. CASE UNCHANGED worker
    BY <1>1, <1>5, <2>1 DEF ClaimMirror
  <2>2. CASE worker' # worker
    BY <1>4, <1>5, <2>2 DEF ClaimMirror, Idle
  <2> QED BY <2>1, <2>2
<1>6. ASSUME NEW w \in Worker, NEW c \in Conn, ClaimCleanup(w, c) PROVE Fenced'
  BY <1>4, <1>6 DEF ClaimCleanup, Idle
<1>7. ASSUME NEW w \in Worker, Read(w) PROVE Fenced'
  <2>1. UNCHANGED <<fence, flight>> /\ worker[w].pc \notin {"wait", "fail"}
    BY <1>7 DEF Read
  <2>2. worker'[w].lease = worker[w].lease /\ \A v \in Worker : v # w => worker'[v] = worker[v]
    BY <1>7, ReadAdvances DEF Advance, Further
  <2> QED BY <2>1, <2>2 DEF Fenced
<1>8. ASSUME NEW w \in Worker, Departs(w), UNCHANGED <<fence, flight>> PROVE Fenced'
  BY <1>8, Departed, Numbers, MirrorAssumption DEF Fenced, Idle
<1>9. ASSUME NEW w \in Worker, Refused(w) PROVE Fenced'
  <2> DEFINE c == worker[w].conn
  <2>1. UNCHANGED fence
        \/ /\ fence' = [fence EXCEPT ![c] = [NoFence EXCEPT !.state = "uncertain"]]
           /\ fence[c].state = "inflight"
        \/ fence' = [fence EXCEPT ![c] = fence[c]]
    BY <1>9 DEF Refused, FenceSeenBy, NoFence
  <2>2. Departs(w) /\ UNCHANGED flight /\ c \in Conn
    BY <1>9 DEF Refused, Departs, Seats
  <2>3. CASE UNCHANGED fence
    BY <1>8, <2>2, <2>3
  <2>4. CASE fence' = [fence EXCEPT ![c] = fence[c]]
    BY <1>8, <2>2, <2>4 DEF TypeOK
  <2>5. CASE fence' = [fence EXCEPT ![c] = [NoFence EXCEPT !.state = "uncertain"]]
    <3>1. \A d \in Conn : fence'[d] = fence[d] \/ fence'[d].state = "uncertain"
      BY <2>5 DEF TypeOK, NoFence
    <3> QED BY <2>2, <3>1, Departed, Numbers, MirrorAssumption DEF Fenced, Idle
  <2> QED BY <2>1, <2>3, <2>4, <2>5
<1>10. ASSUME NEW w \in Worker, Send(w) PROVE Fenced'
  <2> DEFINE me == worker[w]
  <2>1. me \in RunState /\ me.lease \in Lease /\ me.lease # None /\ me.conn \in Conn /\ me.pc = "ask"
    BY <1>10, MirrorAssumption DEF TypeOK, Seats, Send
  <2>2. Sent(me).by = me.lease /\ Sent(me).conn = me.conn
    BY <2>1, SentTyped
  <2>3. /\ worker'[w].pc = "wait" /\ worker'[w].lease = me.lease /\ worker'[w].conn = me.conn
        /\ \A v \in Worker : v # w => worker'[v] = worker[v]
    BY <1>10, <2>1 DEF Send, TypeOK, RunState
  <2>4. ASSUME NEW f \in flight, f.conn = me.conn PROVE FALSE
    <3>1. fence[me.conn].state = "inflight" /\ fence[me.conn].lease = me.lease
      BY <1>10, <2>1, <2>4 DEF Fenced, Send, FenceSeenBy, NoFence
    <3> QED BY <2>1, <2>4, <3>1 DEF Fenced
  <2>5. /\ fence'[me.conn].state = "inflight" /\ fence'[me.conn].lease = me.lease
        /\ \A c \in Conn : c # me.conn => fence'[c] = fence[c]
    BY <1>10, <2>1 DEF Send, TypeOK
  <2>6. flight' = flight \cup {Sent(me)}
    BY <1>10 DEF Send
  <2>7. ASSUME NEW f \in flight PROVE f.by # me.lease /\ f.conn \in Conn
    BY <2>1, Numbers DEF Fenced
  <2>8. \A v \in Worker : v # w => worker[v].lease # me.lease
    BY <2>1 DEF Seats
  <2> HIDE DEF me
  <2> QED BY <2>2, <2>3, <2>4, <2>5, <2>6, <2>7, <2>8 DEF Fenced
<1>11. ASSUME NEW w \in Worker, Finish(w) \/ Fail(w) PROVE Fenced'
  <2> DEFINE c == worker[w].conn
  <2>1. Departs(w) /\ UNCHANGED flight /\ c \in Conn /\ worker[w].lease \in Lease
    BY <1>11, EndMoves DEF Finish, Fail, Seats
  <2>2. CASE UNCHANGED fence
    BY <1>8, <2>1, <2>2
  <2>3. CASE worker[w].pc = "finish" /\ fence[c].state = "inflight" /\ fence[c].lease = worker[w].lease
             /\ \A d \in Conn : d # c => fence'[d] = fence[d]
    <3>1. ASSUME NEW f \in flight PROVE f.conn # c
      BY <2>1, <2>3 DEF Fenced
    <3> QED BY <2>1, <2>3, <3>1, Departed, Numbers, MirrorAssumption DEF Fenced, Idle
  <2>4. CASE \A d \in Conn : fence'[d] = fence[d] \/ fence'[d].state = "uncertain"
    BY <2>1, <2>4, Departed, Numbers, MirrorAssumption DEF Fenced, Idle
  <2> QED BY <1>11, <2>1, <2>2, <2>3, <2>4, EndMoves DEF TypeOK, NoFence
<1>12. ASSUME NEW w \in Worker, worker[w].pc # "idle", worker' = [worker EXCEPT ![w] = Ends(@, "fail")],
              flight' \in SUBSET flight, UNCHANGED fence
       PROVE  Fenced'
  <2>1. /\ worker'[w].pc = "fail" /\ worker'[w].lease = worker[w].lease /\ worker'[w].conn = worker[w].conn
        /\ \A v \in Worker : v # w => worker'[v] = worker[v]
    <3>1. Advance /\ worker'[w].pc = "fail" /\ \A v \in Worker : v # w => worker'[v] = worker[v]
      BY <1>12, FailMoves
    <3> QED BY <3>1 DEF Advance, Further
  <2> QED BY <1>12, <2>1 DEF Fenced
<1>13. ASSUME NEW w \in Worker, Misfortune(w) PROVE Fenced'
  <2>1. CASE Crash(w)
    BY <1>8, <2>1 DEF Crash, Departs
  <2>2. CASE NoAnswer(w) \/ GrantLost(w) \/ AccessLost(w)
    BY <1>12, <2>2 DEF NoAnswer, GrantLost, AccessLost, Mine
  <2> QED BY <1>13, <2>1, <2>2 DEF Misfortune
<1>14. ASSUME NEW f \in flight, Land(f) PROVE Fenced'
  <2>1. ASSUME NEW g \in flight', NEW w \in Worker, worker'[w].lease = g.by
        PROVE  worker'[w].conn = g.conn /\ worker'[w].pc \in {"wait", "fail"}
    <3>1. PICK h \in flight : g.by = h.by /\ g.conn = h.conn /\ h # f /\ h.conn # f.conn
      BY <1>14, LandLeaves
    <3>2. worker[w].lease = h.by /\ worker'[w].conn = worker[w].conn
      BY <1>14, <2>1, <3>1, LandMoves DEF Advance, Further
    <3>3. worker[w].conn = h.conn /\ worker[w].pc \in {"wait", "fail"} /\ worker[w].lease # f.by
      BY <3>1, <3>2 DEF Fenced
    <3> QED BY <1>14, <3>1, <3>2, <3>3, LandMoves
  <2>2. UNCHANGED fence
    BY <1>14 DEF Land
  <2>3. ASSUME NEW g \in flight'
        PROVE  fence'[g.conn].state = "uncertain"
               \/ (fence'[g.conn].state = "inflight" /\ fence'[g.conn].lease = g.by)
    BY <1>14, <2>2, LandLeaves DEF Fenced
  <2> QED BY <2>1, <2>3 DEF Fenced
<1>15. ASSUME NEW c \in Conn, Touch(c) PROVE Fenced'
  BY <1>15, TouchMoves, ThinnedAreOld DEF Fenced, Touch, Advance, Further
<1> QED BY <1>2, <1>3, <1>5, <1>6, <1>7, <1>9, <1>10, <1>11, <1>13, <1>14, <1>15
        DEF Next, Work, Clock

-----------------------------------------------------------------------------
(* Which decision everything in the system stems from.                     *)

\* While requests only land, are lost or are outdated, and Google's calendar
\* stays as it is, what was newer than everything at a calendar stays so.
LEMMA BoundsKept ==
  ASSUME TypeOK, NEW fs \in SUBSET flight, Thinned(fs), UNCHANGED cal, NEW v, NEW c \in Conn, Bounded(v, c)
  PROVE  cal'[c].top <= v /\ \A g \in flight' : g.conn = c => g.ver <= v
BY ThinnedAreOld DEF Bounded

(* A request that lands leaves its own content at the calendar, which was within the
   bound. *)
LEMMA BoundsLand ==
  ASSUME TypeOK, OneRequestAtATime, NEW f \in flight, Land(f), NEW v, NEW c \in Conn, Bounded(v, c)
  PROVE  cal'[c].top <= v /\ \A g \in flight' : g.conn = c => g.ver <= v
<1>1. cal'[c].top = cal[c].top \/ (c = f.conn /\ cal'[c].top = f.ver)
  BY DEF TypeOK, Land
<1>2. cal'[c].top <= v
  BY <1>1 DEF Bounded
<1>3. ASSUME NEW g \in flight', g.conn = c PROVE g.ver <= v
  BY <1>3, LandLeaves DEF Bounded
<1> QED BY <1>2, <1>3

\* What a run may send is newer than all there is at the calendar.
LEMMA SenderIsUpToDate ==
  ASSUME TypeOK, Seats, Ages, HolderIsUpToDate, DeletionIsUpToDate, NEW w \in Worker, Send(w)
  PROVE  /\ Bounded(worker[w].ver, worker[w].conn)
         /\ cleanup[worker[w].conn].state \notin {"none", "deleted"} =>
              worker[w].ver = cleanup[worker[w].conn].ver
<1>1. /\ worker[w].pc \in Writing /\ worker[w].conn \in Conn /\ worker[w] \in RunState
      /\ MayWrite(worker[w])
  BY DEF Send, Writing, Seats, TypeOK
<1>2. CASE worker[w].job = "mirror"
  BY <1>1, <1>2 DEF MayWrite, HoldsLive, Holds, HolderIsUpToDate, Ages
<1>3. CASE worker[w].job = "cleanup"
  BY <1>1, <1>3 DEF MayWrite, HoldsLive, Holds, Held, DeletionIsUpToDate
<1> QED BY <1>1, <1>2, <1>3 DEF RunState

(* The same of the next state. *)
LEMMA NumbersAfter ==
  ASSUME TypeOK'
  PROVE  /\ task'.ver \in Nat /\ row'.ver \in Nat
         /\ \A c \in Conn : cal'[c].top \in Nat /\ cleanup'[c].ver \in Nat
         /\ \A w \in Worker : worker'[w].ver \in Nat
         /\ \A f \in flight' : f.ver \in Nat /\ f.conn \in Conn
<1>1. task'.ver \in Nat /\ row'.ver \in Nat
  BY MirrorAssumption DEF TypeOK, Decision, MirrorRow
<1>2. ASSUME NEW c \in Conn PROVE cal'[c].top \in Nat /\ cleanup'[c].ver \in Nat
  BY MirrorAssumption DEF TypeOK, DeletionJob
<1>3. ASSUME NEW w \in Worker PROVE worker'[w].ver \in Nat
  BY MirrorAssumption DEF TypeOK, RunState
<1>4. ASSUME NEW f \in flight' PROVE f.ver \in Nat /\ f.conn \in Conn
  BY MirrorAssumption DEF TypeOK, Request
<1> QED BY <1>1, <1>2, <1>3, <1>4

(* Without a new request, and with runs and deletions no newer than the row's last
   claim, ages stay. *)
LEMMA AgesStay ==
  ASSUME TypeOK, TypeOK', Ages, row.ver <= row'.ver, row'.ver <= task'.ver,
         UNCHANGED cal, NEW fs \in SUBSET flight, Thinned(fs),
         \A c \in Conn : cleanup'[c].ver <= row'.ver,
         \A w \in Worker : worker'[w].ver <= row'.ver
  PROVE  Ages'
<1>1. ASSUME NEW c \in Conn PROVE cal'[c].top <= row'.ver
  BY Numbers, NumbersAfter DEF Ages, Bounded
<1>2. ASSUME NEW g \in flight' PROVE g.ver <= row'.ver /\ cal'[g.conn].top <= g.ver
  BY ThinnedAreOld, Numbers, NumbersAfter DEF Ages, Bounded
<1> QED BY <1>1, <1>2 DEF Ages, Bounded

(* A row that is only queued or passed over keeps its last claim. *)
LEMMA HouseholdKeepsClaim ==
  ASSUME TypeOK, Seats, Household
  PROVE  /\ row'.ver = row.ver /\ task.ver <= task'.ver /\ UNCHANGED <<cal, flight, worker>>
         /\ \A c \in Conn : cleanup'[c].ver \in {cleanup[c].ver, row.ver}
<1>1. task.ver <= task.ver /\ task.ver <= task.ver + 1
  BY Numbers
<1>2. ASSUME NEW want \in {"shown", "unfit"}, Edit(want) PROVE row'.ver = row.ver
  BY <1>2 DEF Edit, Enqueued, Queued, TypeOK, MirrorRow
<1>3. ASSUME Cancel PROVE row'.ver = row.ver
  BY <1>3 DEF Cancel, Enqueued, Queued, TypeOK, MirrorRow
<1>4. ASSUME Hide PROVE row'.ver = row.ver
  BY <1>4 DEF Hide, Queued, TypeOK, MirrorRow
<1>5. ASSUME NEW c \in Conn, NEW near \in BOOLEAN, SetTarget(c, near)
      PROVE  row'.ver = row.ver /\ \A d \in Conn : cleanup'[d].ver \in {cleanup[d].ver, row.ver}
  <2>1. row'.ver = row.ver
    BY <1>5, ReconciledTyped, RequeuedTyped DEF SetTarget
  <2> QED BY <1>5, <2>1 DEF SetTarget, TypeOK
<1>6. ASSUME NEW c \in Conn, NEW near \in BOOLEAN, Reconnect(c, near) PROVE row'.ver = row.ver
  BY <1>6, ReconciledTyped, RequeuedTyped DEF Reconnect, LeftAlone
<1>7. row'.ver = row.ver
  BY <1>2, <1>3, <1>4, <1>5, <1>6 DEF Household
<1>8. ASSUME NEW d \in Conn PROVE cleanup'[d].ver \in {cleanup[d].ver, row.ver}
  BY <1>5 DEF Household, Edit, Cancel, Hide, Reconnect
<1> QED BY <1>1, <1>7, <1>8 DEF Household, Edit, Cancel, Hide, SetTarget, Reconnect

(* A claim of the row takes it under a new lease with the newest content, or parks it. *)
LEMMA ClaimTakes ==
  ASSUME TypeOK, Seats, NEW w \in Worker, ClaimMirror(w)
  PROVE  /\ row'.conn = row.conn /\ row.conn \in Conn
         /\ UNCHANGED worker => row'.lease = None /\ row'.ver = row.ver
         /\ worker' # worker =>
              /\ row'.lease = FreshLease /\ row'.ver = task.ver
              /\ worker'[w].conn = row.conn /\ worker'[w].ver = task.ver
              /\ worker'[w].job = "mirror"
              /\ \A v \in Worker : v # w => worker'[v] = worker[v]
<1>1. row \in MirrorRow /\ row.conn \in Conn
  BY DEF ClaimMirror, Claimable, Waiting, Held, Seats, TypeOK
<1>2. CASE /\ row' = [row EXCEPT !.state = "failed", !.lease = None, !.live = FALSE]
           /\ UNCHANGED worker
  BY <1>1, <1>2 DEF MirrorRow
<1>3. CASE /\ row' = [row EXCEPT !.state = "processing", !.lease = FreshLease, !.live = TRUE,
                                 !.ver = task.ver]
           /\ \E gone \in BOOLEAN : worker' = [worker EXCEPT ![w] =
                [Idle EXCEPT !.pc = "read", !.lease = FreshLease, !.conn = row.conn, !.ver = task.ver,
                             !.known = row.known, !.action = IF gone THEN "delete" ELSE "upsert"]]
  <2>1. worker'[w].lease = FreshLease /\ worker[w].lease = None
    BY <1>3 DEF TypeOK, Idle, ClaimMirror, Seats
  <2>2. FreshLease # None
    BY Fresh DEF ClaimMirror
  <2>3. worker'[w].conn = row.conn /\ worker'[w].ver = task.ver /\ worker'[w].job = "mirror"
        /\ \A v \in Worker : v # w => worker'[v] = worker[v]
    BY <1>3 DEF TypeOK, Idle
  <2>4. row'.conn = row.conn /\ row'.lease = FreshLease /\ row'.ver = task.ver
    BY <1>1, <1>3 DEF MirrorRow
  <2> QED BY <1>1, <2>1, <2>2, <2>3, <2>4
<1> QED BY <1>2, <1>3 DEF ClaimMirror

(* Every step keeps the ages. *)
LEMMA AgesKept ==
  ASSUME TypeOK, TypeOK', Seats, OneRequestAtATime, Ages, HolderIsUpToDate, DeletionIsUpToDate, [Next]_vars
  PROVE  Ages'
<1> USE DEF database
<1>0. /\ \A w \in Worker : worker[w].ver <= row.ver
      /\ \A c \in Conn : cleanup[c].ver <= row.ver
      /\ row.ver \in Nat /\ row.ver <= row.ver /\ row.ver <= task.ver
      /\ task.ver \in Nat /\ task.ver <= task.ver
  BY Numbers DEF Ages
<1>2. CASE Household
  <2>1. /\ row'.ver = row.ver /\ task.ver <= task'.ver /\ UNCHANGED <<cal, flight, worker>>
        /\ \A c \in Conn : cleanup'[c].ver \in {cleanup[c].ver, row.ver}
    BY <1>2, HouseholdKeepsClaim
  <2>2. row'.ver <= task'.ver
    BY <1>0, <2>1, NumbersAfter
  <2> QED BY <1>0, <2>1, <2>2, AgesStay DEF Thinned
<1>3. CASE Clock \/ UNCHANGED vars
  <2>1. /\ UNCHANGED <<task, cal, flight, worker>>
        /\ \A c \in Conn : cleanup'[c].ver = cleanup[c].ver
    BY <1>3 DEF Clock, RowLapses, CleanupLapses, Deadline, vars, TypeOK, DeletionJob
  <2>2. row'.ver = row.ver
    BY <1>3 DEF Clock, RowLapses, CleanupLapses, Deadline, vars, TypeOK, MirrorRow
  <2> QED BY <1>0, <2>1, <2>2, AgesStay DEF Thinned
<1>4. ASSUME NEW w \in Worker, NEW s, worker' = [worker EXCEPT ![w] = s], s.ver <= row.ver,
             UNCHANGED <<task, cal, flight>>, row'.ver = row.ver,
             \A c \in Conn : cleanup'[c].ver = cleanup[c].ver
      PROVE  Ages'
  <2>1. \A v \in Worker : worker'[v].ver <= row.ver
    BY <1>0, <1>4 DEF TypeOK
  <2> QED BY <1>0, <1>4, <2>1, AgesStay DEF Thinned
<1>5. ASSUME Advance, UNCHANGED <<task, cal>>, row'.ver = row.ver, NEW fs \in SUBSET flight, Thinned(fs),
             \A c \in Conn : cleanup'[c].ver = cleanup[c].ver
      PROVE  Ages'
  <2>1. \A v \in Worker : worker'[v].ver <= row.ver
    BY <1>0, <1>5, Numbers DEF Advance, Further
  <2> QED BY <1>0, <1>5, <2>1, AgesStay
<1>6. ASSUME NEW w \in Worker, ClaimMirror(w) PROVE Ages'
  <2>0. UNCHANGED <<task, cal, flight, cleanup>>
    BY <1>6 DEF ClaimMirror
  <2>1. CASE UNCHANGED worker
    <3>1. row'.ver = row.ver
      BY <1>6, <2>1, ClaimTakes
    <3> QED BY <1>0, <2>0, <2>1, <3>1, AgesStay DEF Thinned
  <2>2. CASE worker' # worker
    <3>1. row'.ver = task.ver /\ worker'[w].ver = task.ver /\ \A v \in Worker : v # w => worker'[v] = worker[v]
      BY <1>6, <2>2, ClaimTakes
    <3>2. ASSUME NEW v \in Worker PROVE worker'[v].ver <= row'.ver
      BY <1>0, <3>1, Numbers
    <3>3. ASSUME NEW c \in Conn PROVE cleanup'[c].ver <= row'.ver
      BY <1>0, <2>0, <3>1, Numbers
    <3> QED BY <1>0, <2>0, <3>1, <3>2, <3>3, AgesStay DEF Thinned
  <2> QED BY <2>1, <2>2
<1>7. ASSUME NEW w \in Worker, NEW c \in Conn, ClaimCleanup(w, c) PROVE Ages'
  <2>1. \A d \in Conn : cleanup'[d].ver = cleanup[d].ver
    BY <1>7 DEF ClaimCleanup, TypeOK, DeletionJob
  <2> QED BY <1>0, <1>4, <1>7, <2>1 DEF ClaimCleanup, Idle
<1>8. ASSUME NEW w \in Worker, Read(w) PROVE Ages'
  BY <1>5, <1>8, ReadAdvances DEF Read, Thinned
<1>9. ASSUME NEW w \in Worker, Refused(w) \/ Crash(w) PROVE Ages'
  BY <1>0, <1>4, <1>9 DEF Refused, Crash, Idle
<1>10. ASSUME NEW w \in Worker, Finish(w) \/ Fail(w) PROVE Ages'
  BY <1>0, <1>4, <1>10, EndMoves DEF Departs, SameJobs, SameRow, Idle
<1>11. ASSUME NEW w \in Worker, Send(w) PROVE Ages'
  <2> DEFINE me == worker[w]
  <2>1. me \in RunState /\ me.lease \in Lease /\ me.conn \in Conn
    BY <1>11 DEF TypeOK, Seats, Send
  <2>2. flight' = flight \cup {Sent(me)} /\ Sent(me).conn = me.conn /\ Sent(me).ver = me.ver
    BY <1>11, <2>1, SentTyped DEF Send
  <2>3. cal[me.conn].top <= me.ver /\ me.ver <= row.ver
    BY <1>0, <1>11, SenderIsUpToDate DEF Bounded
  <2>4. \A v \in Worker : worker'[v].ver = worker[v].ver
    BY <1>11 DEF Send, TypeOK, RunState
  <2> HIDE DEF me
  <2> QED BY <1>0, <1>11, <2>2, <2>3, <2>4 DEF Ages, Bounded, Send
<1>12. ASSUME NEW w \in Worker, NoAnswer(w) \/ GrantLost(w) \/ AccessLost(w) PROVE Ages'
  <2>1. Advance
    BY <1>12, FailMoves DEF NoAnswer, GrantLost, AccessLost
  <2>2. UNCHANGED <<task, cal>> /\ flight' \in SUBSET flight /\ row'.ver = row.ver
    BY <1>12 DEF NoAnswer, GrantLost, AccessLost, Mine, Blocked, TypeOK, MirrorRow
  <2>3. \A c \in Conn : cleanup'[c].ver = cleanup[c].ver
    <3>1. \A j \in DeletionJob : Blocked(j).ver = j.ver
      BY DEF Blocked, DeletionJob
    <3>2. \/ UNCHANGED cleanup
          \/ cleanup' = [cleanup EXCEPT ![worker[w].conn] = Blocked(@)]
      BY <1>12 DEF NoAnswer, GrantLost, AccessLost
    <3> QED BY <3>1, <3>2 DEF TypeOK
  <2> QED BY <1>5, <2>1, <2>2, <2>3 DEF Thinned
<1>13. ASSUME NEW f \in flight, Land(f) PROVE Ages'
  <2>1. UNCHANGED <<task, row, cleanup>>
    BY <1>13 DEF Land
  <2>2. ASSUME NEW c \in Conn PROVE Bounded(row.ver, c)'
    BY <1>13, <2>1, BoundsLand DEF Ages, Bounded
  <2>3. ASSUME NEW v \in Worker PROVE worker'[v].ver <= row.ver
    <3>1. worker'[v].ver = worker[v].ver \/ worker'[v].ver = 0
      BY <1>13, LandMoves DEF Advance, Further
    <3> QED BY <1>0, <3>1, Numbers
  <2>4. ASSUME NEW g \in flight' PROVE cal'[g.conn].top <= g.ver
    <3>1. PICK h \in flight : g.conn = h.conn /\ g.ver = h.ver /\ h.conn # f.conn
      BY <1>13, LandLeaves
    <3>2. cal'[h.conn] = cal[h.conn]
      BY <1>13, <3>1, Numbers DEF Land, TypeOK
    <3> QED BY <3>1, <3>2 DEF Ages
  <2> QED BY <1>0, <2>1, <2>2, <2>3, <2>4 DEF Ages
<1>14. ASSUME NEW c \in Conn, Touch(c) PROVE Ages'
  BY <1>5, <1>14, TouchMoves DEF Touch
<1> QED BY <1>2, <1>3, <1>6, <1>7, <1>8, <1>9, <1>10, <1>11, <1>12, <1>13, <1>14
        DEF Next, Work, Misfortune

\* Nobody new takes the row: who holds it was up to date before.
LEMMA HolderStays ==
  ASSUME TypeOK, Seats, Seats', HolderIsUpToDate, Proceeds, SameRow
  PROVE  HolderIsUpToDate'
<1> SUFFICES ASSUME NEW w \in Worker, worker'[w].pc \in Writing, worker'[w].job = "mirror",
                    row'.lease = worker'[w].lease
             PROVE  worker'[w].conn = row'.conn /\ worker'[w].ver = row'.ver
  BY DEF HolderIsUpToDate
<1>1. /\ worker[w].pc \in Writing /\ worker[w].job = "mirror" /\ worker'[w].ver = worker[w].ver
      /\ worker'[w].lease = worker[w].lease /\ worker'[w].conn = worker[w].conn
  BY DEF Proceeds, Further
<1>2. worker[w].lease # None
  BY <1>1, MirrorAssumption DEF Seats, Writing
<1>3. row.lease = worker[w].lease
  BY <1>1, <1>2 DEF SameRow
<1> QED BY <1>1, <1>3 DEF HolderIsUpToDate, SameRow

\* A row without a lease has no holder.
LEMMA HolderGone ==
  ASSUME Seats', row'.lease = None
  PROVE  HolderIsUpToDate'
BY MirrorAssumption DEF Seats, HolderIsUpToDate, Writing

(* Losing access takes the leases of the calendar's jobs and opens none. *)
LEMMA BlockedJobs ==
  ASSUME TypeOK, NEW w \in Worker, AccessLost(w)
  PROVE  SameJobs
<1>1. ASSUME NEW j \in DeletionJob
      PROVE  /\ Blocked(j).ver = j.ver /\ Blocked(j).lease \in {j.lease, None}
             /\ j.state \in {"none", "deleted"} => Blocked(j).state = j.state
  BY DEF Blocked, Unblocked, DeletionJob
<1>2. cleanup' = [cleanup EXCEPT ![worker[w].conn] = Blocked(@)]
  BY DEF AccessLost
<1> QED BY <1>1, <1>2 DEF TypeOK, SameJobs

(* Every step leaves the holder of the row up to date. *)
LEMMA HolderKept ==
  ASSUME TypeOK, Seats, Seats', HolderIsUpToDate, [Next]_vars
  PROVE  HolderIsUpToDate'
<1> USE DEF database
<1>0. UNCHANGED worker => Proceeds
  BY DEF Proceeds, Further
<1>1. ASSUME Advance, SameRow PROVE HolderIsUpToDate'
  BY <1>1, HolderStays DEF Advance, Proceeds
<1>2. ASSUME UNCHANGED row, Proceeds PROVE HolderIsUpToDate'
  BY <1>2, HolderStays DEF SameRow
<1>3. CASE Household
  <2>1. UNCHANGED worker
    BY <1>3, HouseholdKeepsClaim
  <2>2. CASE row'.lease = None
    BY <2>2, HolderGone
  <2>3. CASE LeftAlone
    <3>1. row'.conn = row.conn /\ row'.ver = row.ver /\ row'.lease = row.lease
      BY <2>3 DEF LeftAlone, TypeOK, MirrorRow
    <3> QED BY <2>1, <3>1 DEF HolderIsUpToDate
  <2>4. row'.lease = None \/ LeftAlone
    BY <1>3 DEF Household, Edit, Cancel, Hide, SetTarget, Reconnect, Reconciled, Enqueued, Queued, LeftAlone,
                TypeOK, MirrorRow
  <2> QED BY <2>2, <2>3, <2>4
<1>4. ASSUME NEW w \in Worker, ClaimMirror(w) PROVE HolderIsUpToDate'
  <2>1. CASE UNCHANGED worker
    <3>1. row'.lease = None
      BY <1>4, <2>1, ClaimTakes
    <3> QED BY <3>1, HolderGone
  <2>2. CASE worker' # worker
    <3>1. /\ row'.lease = FreshLease /\ row'.conn = row.conn /\ row'.ver = task.ver
          /\ worker'[w].conn = row.conn /\ worker'[w].ver = task.ver
          /\ \A v \in Worker : v # w => worker'[v] = worker[v]
      BY <1>4, <2>2, ClaimTakes
    <3>2. \A v \in Worker : v # w => worker'[v].lease # row'.lease
      BY <1>4, <3>1, Fresh DEF ClaimMirror
    <3> QED BY <3>1, <3>2 DEF HolderIsUpToDate
  <2> QED BY <2>1, <2>2
<1>5. ASSUME NEW w \in Worker, NEW c \in Conn, ClaimCleanup(w, c) PROVE HolderIsUpToDate'
  <2>1. /\ worker'[w].job = "cleanup" /\ \A v \in Worker : v # w => worker'[v] = worker[v]
        /\ UNCHANGED row
    BY <1>5 DEF ClaimCleanup, Idle, TypeOK
  <2> QED BY <2>1 DEF HolderIsUpToDate
<1>6. ASSUME NEW w \in Worker, Read(w) PROVE HolderIsUpToDate'
  BY <1>2, <1>6, ReadAdvances DEF Read, Advance, Proceeds
<1>7. ASSUME NEW w \in Worker, Refused(w) \/ Crash(w) PROVE HolderIsUpToDate'
  BY <1>2, <1>7, Departed DEF Refused, Crash, Departs
<1>8. ASSUME NEW w \in Worker, Finish(w) \/ Fail(w) PROVE HolderIsUpToDate'
  BY <1>8, Departed, EndMoves, HolderStays
<1>9. ASSUME NEW w \in Worker, Send(w) PROVE HolderIsUpToDate'
  <2>1. UNCHANGED row /\ worker[w].pc \in Writing
    BY <1>9 DEF Send, Writing
  <2>2. \A v \in Worker : /\ worker'[v].ver = worker[v].ver /\ worker'[v].lease = worker[v].lease
                          /\ worker'[v].conn = worker[v].conn /\ worker'[v].job = worker[v].job
                          /\ worker'[v].pc = worker[v].pc \/ worker[v].pc \in Writing
    BY <1>9, <2>1 DEF Send, TypeOK, RunState
  <2>3. ASSUME NEW v \in Worker, worker'[v].pc \in Writing, worker'[v].job = "mirror",
               row.lease = worker'[v].lease
        PROVE  worker'[v].conn = row.conn /\ worker'[v].ver = row.ver
    <3>1. /\ worker[v].pc \in Writing /\ worker[v].job = "mirror" /\ row.lease = worker[v].lease
          /\ worker'[v].conn = worker[v].conn /\ worker'[v].ver = worker[v].ver
      BY <2>2, <2>3
    <3> QED BY <3>1 DEF HolderIsUpToDate
  <2> QED BY <2>1, <2>3 DEF HolderIsUpToDate
<1>10. ASSUME NEW w \in Worker, NoAnswer(w) \/ GrantLost(w) \/ AccessLost(w) PROVE HolderIsUpToDate'
  <2>1. Advance
    BY <1>10, FailMoves DEF NoAnswer, GrantLost, AccessLost
  <2>2. SameRow
    <3>1. row' = row \/ row' = [row EXCEPT !.state = "blocked", !.lease = None, !.live = FALSE]
      BY <1>10 DEF NoAnswer, GrantLost, AccessLost, Blocked
    <3> QED BY <3>1 DEF SameRow, TypeOK, MirrorRow
  <2> QED BY <1>1, <2>1, <2>2
<1>11. ASSUME NEW f \in flight, Land(f) PROVE HolderIsUpToDate'
  BY <1>1, <1>11, LandMoves DEF Land, SameRow
<1>12. ASSUME NEW c \in Conn, Touch(c) PROVE HolderIsUpToDate'
  BY <1>1, <1>12, TouchMoves DEF Touch, SameRow
<1>13. CASE Clock \/ UNCHANGED vars
  <2>1. UNCHANGED worker /\ SameRow
    BY <1>13 DEF Clock, RowLapses, CleanupLapses, Deadline, vars, TypeOK, MirrorRow, SameRow
  <2> QED BY <1>0, <2>1, HolderStays
<1> QED BY <1>3, <1>4, <1>5, <1>6, <1>7, <1>8, <1>9, <1>10, <1>11, <1>12, <1>13
        DEF Next, Work, Misfortune

(* Deletions that nobody claims or replaces stay as they were. *)
LEMMA DeletionStays ==
  ASSUME TypeOK, TypeOK', Seats, Seats', DeletionIsUpToDate, Proceeds, SameJobs,
         \A v \in Nat, c \in Conn : Bounded(v, c) =>
           cal'[c].top <= v /\ \A g \in flight' : g.conn = c => g.ver <= v
  PROVE  DeletionIsUpToDate'
<1>1. ASSUME NEW c \in Conn, cleanup'[c].state \notin {"none", "deleted"}
      PROVE  /\ cal'[c].top <= cleanup'[c].ver
             /\ \A g \in flight' : g.conn = c => g.ver <= cleanup'[c].ver
  <2>1. Bounded(cleanup[c].ver, c) /\ cleanup[c].ver \in Nat /\ cleanup'[c].ver = cleanup[c].ver
    BY <1>1, Numbers DEF DeletionIsUpToDate, SameJobs
  <2> QED BY <2>1
<1>2. ASSUME NEW w \in Worker, worker'[w].pc \in Writing, worker'[w].job = "cleanup",
             cleanup'[worker'[w].conn].lease = worker'[w].lease
      PROVE  worker'[w].ver = cleanup'[worker'[w].conn].ver
  <2>1. /\ worker[w].pc \in Writing /\ worker[w].job = "cleanup" /\ worker'[w].ver = worker[w].ver
        /\ worker'[w].lease = worker[w].lease /\ worker'[w].conn = worker[w].conn
    BY <1>2 DEF Proceeds, Further
  <2>2. worker[w].conn \in Conn /\ worker[w].lease \in Lease /\ worker[w].lease # None
    BY <2>1, MirrorAssumption DEF Seats, Writing
  <2>3. cleanup[worker[w].conn].lease = worker[w].lease
    BY <1>2, <2>1, <2>2 DEF SameJobs
  <2> QED BY <2>1, <2>2, <2>3 DEF DeletionIsUpToDate, SameJobs
<1> QED BY <1>1, <1>2 DEF DeletionIsUpToDate, Bounded

(* Every step leaves the open deletions up to date. *)
LEMMA DeletionKept ==
  ASSUME TypeOK, TypeOK', Seats, Seats', OneRequestAtATime, Ages, HolderIsUpToDate, DeletionIsUpToDate,
         [Next]_vars
  PROVE  DeletionIsUpToDate'
<1> USE DEF database
<1>1. ASSUME UNCHANGED cal, NEW fs \in SUBSET flight, Thinned(fs), Proceeds, SameJobs
      PROVE  DeletionIsUpToDate'
  <2>1. ASSUME NEW v \in Nat, NEW c \in Conn, Bounded(v, c)
        PROVE  cal'[c].top <= v /\ \A g \in flight' : g.conn = c => g.ver <= v
    BY <1>1, <2>1, BoundsKept
  <2> QED BY <1>1, <2>1, DeletionStays
<1>2. ASSUME UNCHANGED <<cal, flight>>, Proceeds, SameJobs
      PROVE  DeletionIsUpToDate'
  BY <1>1, <1>2 DEF Thinned
<1>3. ASSUME UNCHANGED <<cal, flight, worker>>, SameJobs PROVE DeletionIsUpToDate'
  <2>1. Proceeds
    BY <1>3 DEF Proceeds, Further
  <2> QED BY <1>2, <1>3, <2>1
<1>4. ASSUME NEW c \in Conn, NEW near \in BOOLEAN, SetTarget(c, near) PROVE DeletionIsUpToDate'
  <2>1. CASE UNCHANGED cleanup
    BY <1>3, <1>4, <2>1 DEF SetTarget, SameJobs
  <2>2. CASE cleanup' # cleanup
    <3>1. /\ target \in Conn
          /\ cleanup' = [cleanup EXCEPT ![target] =
               [state |-> "pending", lease |-> None, live |-> FALSE, ver |-> row.ver]]
      BY <1>4, <2>2 DEF SetTarget, TypeOK
    <3>2. UNCHANGED <<cal, flight, worker>>
      BY <1>4 DEF SetTarget
    <3>3. /\ cleanup'[target].ver = row.ver /\ cleanup'[target].lease = None
          /\ \A d \in Conn : d # target => cleanup'[d] = cleanup[d]
      BY <3>1 DEF TypeOK
    <3>4. ASSUME NEW d \in Conn, cleanup'[d].state \notin {"none", "deleted"}
          PROVE  cal[d].top <= cleanup'[d].ver /\ \A g \in flight : g.conn = d => g.ver <= cleanup'[d].ver
      BY <3>3, <3>4 DEF DeletionIsUpToDate, Ages, Bounded
    <3>5. ASSUME NEW w \in Worker, worker[w].pc \in Writing, worker[w].job = "cleanup",
                 cleanup'[worker[w].conn].lease = worker[w].lease
          PROVE  worker[w].ver = cleanup'[worker[w].conn].ver
      <4>1. worker[w].lease # None /\ worker[w].conn \in Conn
        BY <3>5, MirrorAssumption DEF Seats, Writing
      <4> QED BY <3>3, <3>5, <4>1 DEF DeletionIsUpToDate
    <3> QED BY <3>2, <3>4, <3>5 DEF DeletionIsUpToDate, Bounded
  <2> QED BY <2>1, <2>2
<1>5. CASE Household
  BY <1>3, <1>4, <1>5 DEF Household, Edit, Cancel, Hide, Reconnect, SameJobs
<1>6. ASSUME NEW w \in Worker, ClaimMirror(w) PROVE DeletionIsUpToDate'
  <2>1. CASE UNCHANGED worker
    BY <1>3, <1>6, <2>1 DEF ClaimMirror, SameJobs
  <2>2. CASE worker' # worker
    <3>1. worker'[w].job = "mirror" /\ \A v \in Worker : v # w => worker'[v] = worker[v]
      BY <1>6, <2>2, ClaimTakes
    <3>2. UNCHANGED <<cal, flight, cleanup>>
      BY <1>6 DEF ClaimMirror
    <3> QED BY <3>1, <3>2 DEF DeletionIsUpToDate, Bounded
  <2> QED BY <2>1, <2>2
<1>7. ASSUME NEW w \in Worker, NEW c \in Conn, ClaimCleanup(w, c) PROVE DeletionIsUpToDate'
  <2>1. UNCHANGED <<cal, flight>> /\ CanLease /\ cleanup[c].state \notin {"none", "deleted"}
    BY <1>7 DEF ClaimCleanup, Claimable, Waiting, Held
  <2>2. /\ worker'[w].conn = c /\ worker'[w].ver = cleanup[c].ver
        /\ \A v \in Worker : v # w => worker'[v] = worker[v]
    BY <1>7 DEF ClaimCleanup, Idle, TypeOK
  <2>3. /\ cleanup'[c].ver = cleanup[c].ver /\ cleanup'[c].lease = FreshLease
        /\ \A d \in Conn : d # c => cleanup'[d] = cleanup[d]
    BY <1>7 DEF ClaimCleanup, TypeOK, DeletionJob
  <2>4. ASSUME NEW d \in Conn, cleanup'[d].state \notin {"none", "deleted"}
        PROVE  cal[d].top <= cleanup'[d].ver /\ \A g \in flight : g.conn = d => g.ver <= cleanup'[d].ver
    BY <2>1, <2>3, <2>4 DEF DeletionIsUpToDate, Bounded
  <2>5. ASSUME NEW v \in Worker, v # w, worker[v].pc \in Writing, worker[v].job = "cleanup",
               cleanup'[worker[v].conn].lease = worker[v].lease
        PROVE  worker[v].ver = cleanup'[worker[v].conn].ver
    <3>1. worker[v].conn \in Conn /\ worker[v].lease # FreshLease
      BY <2>1, <2>5, Fresh DEF Seats, Writing
    <3> QED BY <2>3, <2>5, <3>1 DEF DeletionIsUpToDate
  <2> QED BY <2>1, <2>2, <2>3, <2>4, <2>5 DEF DeletionIsUpToDate, Bounded
<1>8. ASSUME NEW w \in Worker, Read(w) PROVE DeletionIsUpToDate'
  BY <1>2, <1>8, ReadAdvances DEF Read, Advance, Proceeds, SameJobs
<1>9. ASSUME NEW w \in Worker, Refused(w) \/ Crash(w) PROVE DeletionIsUpToDate'
  BY <1>2, <1>9, Departed DEF Refused, Crash, Departs, SameJobs
<1>10. ASSUME NEW w \in Worker, Finish(w) \/ Fail(w) PROVE DeletionIsUpToDate'
  BY <1>2, <1>10, Departed, EndMoves
<1>11. ASSUME NEW w \in Worker, Send(w) PROVE DeletionIsUpToDate'
  <2>1. UNCHANGED <<cleanup, cal>>
    BY <1>11 DEF Send
  <2>2. worker[w] \in RunState /\ worker[w].lease \in Lease /\ worker[w].conn \in Conn
        /\ worker[w].pc \in Writing
    BY <1>11 DEF Send, Seats, TypeOK, Writing
  <2>3. flight' = flight \cup {Sent(worker[w])} /\ Sent(worker[w]).conn = worker[w].conn
        /\ Sent(worker[w]).ver = worker[w].ver
    BY <1>11, <2>2, SentTyped DEF Send
  <2>4. ASSUME NEW v \in Worker
        PROVE  /\ worker'[v].ver = worker[v].ver /\ worker'[v].lease = worker[v].lease
               /\ worker'[v].conn = worker[v].conn /\ worker'[v].job = worker[v].job
               /\ worker'[v].pc = worker[v].pc \/ worker[v].pc \in Writing
    BY <1>11, <2>2 DEF Send, TypeOK, RunState
  <2>5. ASSUME NEW d \in Conn, cleanup[d].state \notin {"none", "deleted"}
        PROVE  cal[d].top <= cleanup[d].ver /\ \A g \in flight' : g.conn = d => g.ver <= cleanup[d].ver
    <3>1. cal[d].top <= cleanup[d].ver /\ \A g \in flight : g.conn = d => g.ver <= cleanup[d].ver
      BY <2>5 DEF DeletionIsUpToDate, Bounded
    <3>2. worker[w].conn = d => worker[w].ver <= cleanup[d].ver
      BY <1>11, <2>5, SenderIsUpToDate, Numbers
    <3> QED BY <2>3, <3>1, <3>2
  <2>6. ASSUME NEW v \in Worker, worker'[v].pc \in Writing, worker'[v].job = "cleanup",
               cleanup[worker'[v].conn].lease = worker'[v].lease
        PROVE  worker'[v].ver = cleanup[worker'[v].conn].ver
    BY <2>4, <2>6 DEF DeletionIsUpToDate
  <2> QED BY <2>1, <2>5, <2>6 DEF DeletionIsUpToDate, Bounded
<1>12. ASSUME NEW w \in Worker, NoAnswer(w) \/ GrantLost(w) \/ AccessLost(w) PROVE DeletionIsUpToDate'
  <2>1. Advance
    BY <1>12, FailMoves DEF NoAnswer, GrantLost, AccessLost
  <2>2. SameJobs
    BY <1>12, BlockedJobs DEF NoAnswer, GrantLost, SameJobs
  <2> QED BY <1>1, <1>12, <2>1, <2>2
          DEF NoAnswer, GrantLost, AccessLost, Mine, Advance, Proceeds, Thinned
<1>13. ASSUME NEW f \in flight, Land(f) PROVE DeletionIsUpToDate'
  <2>1. UNCHANGED cleanup
    BY <1>13 DEF Land
  <2>2. ASSUME NEW v \in Nat, NEW c \in Conn, Bounded(v, c)
        PROVE  cal'[c].top <= v /\ \A g \in flight' : g.conn = c => g.ver <= v
    BY <1>13, <2>2, BoundsLand
  <2> QED BY <1>13, <2>1, <2>2, DeletionStays, LandMoves DEF Advance, Proceeds, SameJobs
<1>14. ASSUME NEW c \in Conn, Touch(c) PROVE DeletionIsUpToDate'
  BY <1>1, <1>14, TouchMoves DEF Touch, Advance, Proceeds, SameJobs
<1>15. CASE Clock \/ UNCHANGED vars
  <2>1. UNCHANGED <<cal, flight, worker>>
    BY <1>15 DEF Clock, RowLapses, CleanupLapses, Deadline, vars
  <2>2. ASSUME NEW c \in Conn, CleanupLapses(c) PROVE SameJobs
    BY <2>2 DEF CleanupLapses, TypeOK, DeletionJob, SameJobs
  <2>3. ASSUME UNCHANGED cleanup PROVE SameJobs
    BY <2>3 DEF SameJobs
  <2>4. UNCHANGED cleanup \/ \E c \in Conn : CleanupLapses(c)
    BY <1>15 DEF Clock, RowLapses, Deadline, vars
  <2> QED BY <1>3, <2>1, <2>2, <2>3, <2>4
<1> QED BY <1>5, <1>6, <1>7, <1>8, <1>9, <1>10, <1>11, <1>12, <1>13, <1>14, <1>15
        DEF Next, Work, Misfortune

-----------------------------------------------------------------------------
(* The invariant and its theorems.                                         *)

(* The inductive invariant. *)
IInv ==
  /\ TypeOK
  /\ Seats
  /\ OneRequestAtATime
  /\ Fenced
  /\ Ages
  /\ HolderIsUpToDate
  /\ DeletionIsUpToDate

(* The invariant holds at the start. *)
LEMMA InitInv ==
  ASSUME Init
  PROVE  IInv
<1>1. TypeOK
  <2>1. 0 \in 0 .. MaxVersion /\ 0 \in 0 .. MaxActs /\ 0 \in 0 .. MaxTrouble
    BY MirrorAssumption
  <2>2. task \in Decision
    BY MirrorAssumption DEF Init, Decision
  <2>3. row \in MirrorRow /\ (row.state \in Held <=> row.lease # None)
    BY <2>1 DEF Init, NoRow, MirrorRow, Held
  <2>4. cleanup \in [Conn -> DeletionJob]
    BY <2>1 DEF Init, DeletionJob
  <2> QED BY <2>1, <2>2, <2>3, <2>4, SmallTyped DEF Init, TypeOK
<1>2. Seats
  BY DEF Init, Seats, NoRow, Idle
<1>3. OneRequestAtATime /\ Fenced
  BY DEF Init, OneRequestAtATime, Fenced
<1>4. Ages
  BY MirrorAssumption DEF Init, Ages, Bounded, Idle, NoRow
<1>5. HolderIsUpToDate /\ DeletionIsUpToDate
  BY DEF Init, HolderIsUpToDate, DeletionIsUpToDate, Writing, Idle
<1> QED BY <1>1, <1>2, <1>3, <1>4, <1>5 DEF IInv

(* Every step keeps the invariant. *)
LEMMA InvKept ==
  ASSUME IInv, [Next]_vars
  PROVE  IInv'
<1>1. TypeOK' /\ Seats'
  BY TypesKept, SeatsKept DEF IInv
<1>2. OneRequestAtATime' /\ Fenced'
  BY OneRequestKept, FencedKept DEF IInv
<1>3. Ages' /\ HolderIsUpToDate' /\ DeletionIsUpToDate'
  BY <1>1, AgesKept, HolderKept, DeletionKept DEF IInv
<1> QED BY <1>1, <1>2, <1>3 DEF IInv

(* The inductive invariant holds throughout. *)
THEOREM Inductive == Spec => []IInv
BY InitInv, InvKept, PTL DEF Spec

(* Type correctness: rows, jobs, fences, runs and requests are what the schema and the
   function allow, and a row is "processing" exactly while it has a lease. *)
THEOREM TypesHold == Spec => []TypeOK
<1>1. IInv => TypeOK
  BY DEF IInv
<1> QED BY <1>1, Inductive, PTL

(* At most one write to the event of a calendar is on its way, whatever leases expired
   and whichever runs crashed or were answered late: the durable fence of
   server_tx_authorize_family_ops_calendar_mirror. *)
THEOREM OneRequest == Spec => []OneRequestAtATime
<1>1. IInv => OneRequestAtATime
  BY DEF IInv
<1> QED BY <1>1, Inductive, PTL

-----------------------------------------------------------------------------
(* The mirror keeps its promise.                                           *)

(* The mirror starts as the promise does. *)
LEMMA InitPromises ==
  ASSUME Init
  PROVE  Promise!PromiseInit
BY DEF Init, Promise!PromiseInit

\* A step that takes no decision and changes nothing at Google.
LEMMA Stutters ==
  ASSUME UNCHANGED cal, task'.ver = task.ver
  PROVE  UNCHANGED Promise!promiseVars
BY DEF Promise!promiseVars

(* A write that Google applies is the calendar following the decision the write was
   built from. *)
LEMMA LandFollows ==
  ASSUME IInv, NEW f \in flight, Land(f)
  PROVE  [Promise!PromiseNext]_Promise!promiseVars
<1>1. task'.ver = task.ver
  BY DEF Land, database
<1>2. CASE UNCHANGED cal
  BY <1>1, <1>2, Stutters
<1>3. CASE cal' = [cal EXCEPT ![f.conn] =
                    [ver |-> IF f.op = "delete" THEN 0 ELSE f.ver, top |-> f.ver]]
  <2> DEFINE shows == [c \in Conn |-> cal[c].ver]
             newest == [c \in Conn |-> cal[c].top]
  <2>1. f.conn \in Conn /\ f.ver \in newest[f.conn] .. task.ver
    <3>1. f.ver <= row.ver /\ row.ver <= task.ver /\ cal[f.conn].top <= f.ver
      BY Numbers DEF IInv, Ages, Bounded
    <3> QED BY <3>1, Numbers DEF IInv
  <2>2. newest' = [newest EXCEPT ![f.conn] = f.ver]
    BY <1>3, <2>1 DEF IInv, TypeOK
  <2>3. shows' \in {[shows EXCEPT ![f.conn] = f.ver], [shows EXCEPT ![f.conn] = 0]}
    BY <1>3, <2>1 DEF IInv, TypeOK
  <2> QED BY <1>1, <2>1, <2>2, <2>3 DEF Promise!PromiseNext, Promise!Follow
<1> QED BY <1>2, <1>3 DEF Land

(* A household decision is a decision, a landed write a calendar that follows, every
   other step changes nothing the promise speaks of. *)
LEMMA StepPromises ==
  ASSUME IInv, [Next]_vars
  PROVE  [Promise!PromiseNext]_Promise!promiseVars
<1> USE DEF database
<1>1. CASE UNCHANGED cal /\ task'.ver = task.ver + 1
  BY <1>1 DEF Promise!PromiseNext, Promise!Decide
<1>2. CASE UNCHANGED cal /\ task'.ver = task.ver
  BY <1>2, Stutters
<1>3. CASE Household
  <2>1. UNCHANGED cal /\ task'.ver \in {task.ver, task.ver + 1}
    BY <1>3 DEF Household, Edit, Cancel, Hide, SetTarget, Reconnect
  <2> QED BY <1>1, <1>2, <2>1
<1>4. ASSUME NEW w \in Worker, Work(w) PROVE [Promise!PromiseNext]_Promise!promiseVars
  <2>1. UNCHANGED cal /\ task'.ver = task.ver
    BY <1>4, EndMoves DEF Work, ClaimMirror, ClaimCleanup, Read, Refused, Send, IInv
  <2> QED BY <1>2, <2>1
<1>5. ASSUME NEW w \in Worker, Misfortune(w) PROVE [Promise!PromiseNext]_Promise!promiseVars
  <2>1. UNCHANGED cal /\ task'.ver = task.ver
    BY <1>5 DEF Misfortune, NoAnswer, GrantLost, AccessLost, Crash
  <2> QED BY <1>2, <2>1
<1>6. CASE Clock \/ (\E c \in Conn : Touch(c)) \/ UNCHANGED vars
  <2>1. UNCHANGED cal /\ task'.ver = task.ver
    BY <1>6 DEF Clock, RowLapses, CleanupLapses, Deadline, Touch, vars
  <2> QED BY <1>2, <2>1
<1> QED BY <1>3, <1>4, <1>5, <1>6, LandFollows DEF Next

(* The outbox implements CalendarPromise: a calendar never shows an older decision over
   a newer one, nor loses the event to a decision older than the one it shows. *)
THEOREM Refinement == Spec => KeepsThePromise
<1>1. Init => Promise!PromiseInit
  BY InitPromises
<1>2. IInv /\ [Next]_vars => [Promise!PromiseNext]_Promise!promiseVars
  BY StepPromises
<1> QED BY <1>1, <1>2, Inductive, PTL DEF Spec, KeepsThePromise, Promise!PromiseSpec

-----------------------------------------------------------------------------
(* Settled rows tell the truth: what the argument speaks of.

   Who may put an event where the row says there is none?  An insert on its way finds
   no event, and is fenced; once its sender holds the row no more, its fence is of
   nobody who may still write, and nobody ever gets leave there again (Stuck).  So what
   a run once found gone stays gone, or is past any leave.  Who puts the task's content
   there is told by Google as the last to have written, and holds the row only as long
   as the family decides nothing else. *)

\* The fence of c is of unknown outcome, or of a run that holds no job any more.
Stuck(c) ==
  \/ fence[c].state = "uncertain"
  \/ fence[c].state = "inflight" /\ fence[c].lease \notin {None, row.lease, cleanup[c].lease}

\* There is no event, or what may put it there is past any leave.
Gone(c) == ~Exists(c) \/ Stuck(c)

\* No deletion job is open.
NoDeletion(c) == cleanup[c].state \in {"none", "deleted"}

\* The run that holds the row, and that is to write the event.
Mirroring(w) == worker[w].pc # "idle" /\ worker[w].job = "mirror" /\ row.lease = worker[w].lease
Upserting(w) == Mirroring(w) /\ worker[w].action = "upsert"

\* The row is of the family's calendar, that can be written to, and no reconciliation
\* has passed it over.
Current == Usable(target) /\ row.conn = target /\ ~row.passed

\* The row stays where it is and with who holds it.
RowStays == row'.state = row.state /\ row'.conn = row.conn /\ row'.lease = row.lease /\ row'.known = row.known

\* What a sender that still waits has in hand is what it sent.
HasInHand(me, f) == f.ver = me.ver /\ (f.op = "delete" <=> me.action = "delete")

(* Inserts on their way find no event, only deletions are sent for deletion jobs, and a
   waiting sender knows its request.  No deletion job has the row's lease. *)
Requests ==
  /\ \A f \in flight :
       /\ f.op = "insert" => ~Exists(f.conn)
       /\ f.op # "delete" => \A c \in Conn : cleanup[c].lease # f.by
       /\ \A w \in Worker : worker[w].lease = f.by /\ worker[w].pc = "wait" =>
            HasInHand(worker[w], f)
  /\ \A c \in Conn : cleanup[c].lease = row.lease => row.lease = None

\* What run w knows of the row it holds: where it is, whether its event was recorded,
\* and, once it found or made it so, that the event is gone.
KnowsRow(w) ==
  Mirroring(w) =>
    /\ worker[w].conn = row.conn
    /\ worker[w].pc \in Writing => worker[w].known = row.known
    /\ worker[w].pc = "ask" /\ worker[w].seen = "gone" => Gone(row.conn)
    /\ worker[w].pc = "finish" /\ worker[w].action = "delete" /\ row.known => Gone(row.conn)

HolderKnows == \A w \in Worker : KnowsRow(w)

\* Run w, told of its write, was the last to write there.
WroteLast(w) ==
  worker[w].pc = "finish" /\ worker[w].action = "upsert" =>
    /\ \A f \in flight : f.conn # worker[w].conn
    /\ \/ fence[worker[w].conn].state = "uncertain"
       \/ fence[worker[w].conn].state = "inflight" /\ fence[worker[w].conn].lease = worker[w].lease

LastWord == \A w \in Worker : WroteLast(w)

\* What run w is to write is what the family wants, and when it is told so it is there.
WritesWhatIsWanted(w) ==
  Upserting(w) =>
    /\ task.want # "hidden"
    /\ Current =>
         /\ task.want = "shown"
         /\ worker[w].pc \in Writing => worker[w].ver = task.ver
         /\ worker[w].pc \in {"wait", "finish"} => NoDeletion(target)
         /\ worker[w].pc = "finish" => cal[target].ver = task.ver

UpsertsAreWanted == \A w \in Worker : WritesWhatIsWanted(w)

(* A synced row of the family's calendar is true, and nothing is under way that could
   change it; a known event that was deleted is gone. *)
Settled ==
  /\ row.state = "synced" => task.want # "hidden"
  /\ row.state = "synced" /\ Current =>
       /\ task.want = "shown" /\ cal[target].ver = task.ver
       /\ NoDeletion(target)
       /\ \A f \in flight : f.conn # target
  /\ row.state = "deleted" /\ row.known => Gone(row.conn)

\* What is inductive beside IInv.
Truth == Requests /\ HolderKnows /\ LastWord /\ UpsertsAreWanted /\ Settled

-----------------------------------------------------------------------------
(* What every step does to the leases, the fences and the requests.        *)

(* The household queues the row, leaves it or passes it over; it leaves a row of a usable
   target only as long as it decides nothing. *)
LEMMA HouseholdMoves ==
  ASSUME TypeOK, Seats, Household
  PROVE  /\ UNCHANGED <<fence, cal, flight, worker>>
         /\ \A c \in Conn : cleanup'[c].lease \in {cleanup[c].lease, None}
         /\ \/ row'.state = "pending" /\ row'.lease = None
            \/ UNCHANGED row /\ row.state = "none" /\ row.lease = None
            \/ /\ RowStays
               /\ task'.want = "hidden" => task.want = "hidden"
               /\ Current' => \/ task.want = "hidden"
                              \/ Current /\ UNCHANGED <<task, target, cleanup>>
<1>0. row \in MirrorRow /\ (row.state \in Held <=> row.lease # None)
  BY DEF TypeOK
<1>1. ASSUME NEW action \in {"upsert", "delete"}, NEW c \in Conn \cup {None},
             row' = Queued(row, action, c)
      PROVE  row'.state = "pending" /\ row'.lease = None
  BY <1>0, <1>1, QueuedTyped
<1>2. ASSUME NEW want \in {"shown", "unfit", "cancelled"}, row' = Enqueued(want, target, Usable(target)),
             task'.want = want, UNCHANGED <<target, conn>>
      PROVE  \/ row'.state = "pending" /\ row'.lease = None
             \/ UNCHANGED row /\ task'.want # "hidden" /\ ~Current'
  <2>1. CASE Usable(target)
    <3>1. target \in Conn \cup {None}
      BY DEF TypeOK
    <3>2. \E action \in {"upsert", "delete"} : row' = Queued(row, action, target)
      BY <1>2, <2>1 DEF Enqueued
    <3> QED BY <1>1, <3>1, <3>2
  <2>2. CASE ~Usable(target)
    BY <1>2, <2>2 DEF Enqueued, Usable, Current
  <2> QED BY <2>1, <2>2
<1>3. ASSUME NEW c \in Conn, NEW near \in BOOLEAN, row' = Reconciled(c, near)
      PROVE  \/ row'.state = "pending" /\ row'.lease = None
             \/ RowStays /\ (task.want = "hidden" \/ ~Current')
  <2>1. CASE task.want = "hidden"
    BY <1>3, <2>1 DEF Reconciled, RowStays
  <2>2. CASE task.want # "hidden" /\ near
    <3>1. \E action \in {"upsert", "delete"} : row' = Queued(row, action, c)
      BY <1>3, <2>2 DEF Reconciled, Enqueued
    <3> QED BY <1>1, <3>1
  <2>3. CASE task.want # "hidden" /\ ~near
    <3>1. row' = [row EXCEPT !.passed = TRUE]
      BY <1>3, <2>3 DEF Reconciled
    <3> QED BY <1>0, <3>1 DEF MirrorRow, RowStays, Current
  <2> QED BY <2>1, <2>2, <2>3
<1>4. ASSUME NEW want \in {"shown", "unfit"}, Edit(want)
      PROVE  \/ row'.state = "pending" /\ row'.lease = None
             \/ UNCHANGED row /\ task'.want # "hidden" /\ ~Current'
  BY <1>2, <1>4 DEF Edit
<1>5. ASSUME Cancel
      PROVE  \/ row'.state = "pending" /\ row'.lease = None
             \/ UNCHANGED row /\ task'.want # "hidden" /\ ~Current'
  BY <1>2, <1>5 DEF Cancel
<1>6. ASSUME Hide
      PROVE  \/ row'.state = "pending" /\ row'.lease = None
             \/ UNCHANGED row /\ row.state = "none" /\ row.lease = None
  <2>1. CASE row.state = "none"
    BY <1>0, <1>6, <2>1 DEF Hide, Held
  <2>2. CASE row.state # "none"
    BY <1>0, <1>1, <1>6, <2>2 DEF Hide, MirrorRow
  <2> QED BY <2>1, <2>2
<1>7. ASSUME NEW c \in Conn, NEW near \in BOOLEAN, SetTarget(c, near)
      PROVE  /\ \/ row'.state = "pending" /\ row'.lease = None
                \/ RowStays /\ (task.want = "hidden" \/ ~Current')
             /\ \A d \in Conn : cleanup'[d].lease \in {cleanup[d].lease, None}
  <2>1. row' = Reconciled(c, near)
    BY <1>7 DEF SetTarget
  <2>2. \A d \in Conn : cleanup'[d].lease \in {cleanup[d].lease, None}
    BY <1>7 DEF SetTarget, TypeOK
  <2> QED BY <1>3, <2>1, <2>2
<1>8. ASSUME NEW c \in Conn, NEW near \in BOOLEAN, Reconnect(c, near)
      PROVE  /\ UNCHANGED <<task, target, cleanup>>
             /\ \/ row'.state = "pending" /\ row'.lease = None
                \/ RowStays /\ (Current' => task.want = "hidden" \/ Current)
  <2>1. CASE target = c
    <3>1. row' = Reconciled(c, near)
      BY <1>8, <2>1 DEF Reconnect
    <3> QED BY <1>3, <1>8, <3>1 DEF Reconnect
  <2>2. CASE target # c
    BY <1>8, <2>2 DEF Reconnect, Current, Usable, TypeOK, RowStays
  <2> QED BY <1>8, <2>1, <2>2 DEF Reconnect
<1>9. CASE \E want \in {"shown", "unfit"} : Edit(want)
  BY <1>4, <1>9 DEF Edit, RowStays
<1>10. CASE Cancel
  BY <1>5, <1>10 DEF Cancel, RowStays
<1>11. CASE Hide
  BY <1>6, <1>11 DEF Hide
<1>12. CASE \E c \in Conn, near \in BOOLEAN : SetTarget(c, near)
  BY <1>7, <1>12 DEF SetTarget
<1>13. CASE \E c \in Conn, near \in BOOLEAN : Reconnect(c, near)
  BY <1>8, <1>13 DEF Reconnect
<1> QED BY <1>9, <1>10, <1>11, <1>12, <1>13 DEF Household

(* Leases are given up, or one job is claimed under a fresh one. *)
LEMMA LeasesMove ==
  ASSUME TypeOK, Seats, [Next]_vars
  PROVE  \/ /\ row'.lease \in {row.lease, None}
            /\ \A c \in Conn : cleanup'[c].lease \in {cleanup[c].lease, None}
         \/ CanLease /\ row'.lease = FreshLease /\ UNCHANGED cleanup
         \/ /\ CanLease /\ UNCHANGED row
            /\ \A c \in Conn : cleanup'[c].lease \in {cleanup[c].lease, FreshLease}
<1> USE DEF database
<1> DEFINE GivenUp == /\ row'.lease \in {row.lease, None}
                      /\ \A c \in Conn : cleanup'[c].lease \in {cleanup[c].lease, None}
<1>1. CASE Household
  BY <1>1, HouseholdMoves DEF RowStays
<1>2. ASSUME NEW w \in Worker, ClaimMirror(w)
      PROVE  CanLease /\ UNCHANGED cleanup /\ row'.lease \in {None, FreshLease}
  BY <1>2, ClaimTakes DEF ClaimMirror
<1>3. ASSUME NEW w \in Worker, NEW c \in Conn, ClaimCleanup(w, c)
      PROVE  /\ CanLease /\ UNCHANGED row
             /\ \A d \in Conn : cleanup'[d].lease \in {cleanup[d].lease, FreshLease}
  BY <1>3 DEF ClaimCleanup, TypeOK, DeletionJob
<1>4. ASSUME NEW w \in Worker, Finish(w) \/ Fail(w) PROVE GivenUp
  BY <1>4, EndMoves DEF SameRow, SameJobs
<1>5. ASSUME NEW w \in Worker, AccessLost(w) PROVE GivenUp
  BY <1>5, BlockedJobs DEF AccessLost, SameJobs, Blocked, TypeOK, MirrorRow
<1>6. CASE Clock
  <2>1. row'.lease = row.lease
    BY <1>6 DEF Clock, RowLapses, CleanupLapses, Deadline, TypeOK, MirrorRow
  <2>2. \A c \in Conn : cleanup'[c].lease = cleanup[c].lease
    <3>1. UNCHANGED cleanup \/ \E d \in Conn : CleanupLapses(d)
      BY <1>6 DEF Clock, RowLapses, Deadline
    <3> QED BY <3>1 DEF CleanupLapses, TypeOK, DeletionJob
  <2> QED BY <2>1, <2>2
<1>7. ASSUME UNCHANGED <<row, cleanup>> PROVE GivenUp
  BY <1>7
<1>8. ASSUME NEW w \in Worker,
             Read(w) \/ Refused(w) \/ Send(w) \/ NoAnswer(w) \/ GrantLost(w) \/ Crash(w)
      PROVE  GivenUp
  BY <1>7, <1>8 DEF Read, Refused, Send, NoAnswer, GrantLost, Crash
<1>9. ASSUME (\E f \in flight : Land(f)) \/ (\E c \in Conn : Touch(c)) \/ UNCHANGED vars
      PROVE  GivenUp
  BY <1>7, <1>9 DEF Land, Touch, vars
<1>10. ASSUME NEW w \in Worker, Work(w) \/ Misfortune(w)
       PROVE  \/ GivenUp
              \/ CanLease /\ UNCHANGED cleanup /\ row'.lease \in {None, FreshLease}
              \/ /\ CanLease /\ UNCHANGED row
                 /\ \A c \in Conn : cleanup'[c].lease \in {cleanup[c].lease, FreshLease}
  <2> HIDE DEF GivenUp
  <2> QED BY <1>2, <1>3, <1>4, <1>5, <1>8, <1>10 DEF Work, Misfortune
<1>11. ASSUME CanLease /\ UNCHANGED cleanup /\ row'.lease = None PROVE GivenUp
  BY <1>11
<1> QED BY <1>1, <1>6, <1>9, <1>10, <1>11 DEF Next

\* Only who has leave to write renews a fence, and only its owner settles it.
LEMMA FenceMoves ==
  ASSUME TypeOK, Seats, [Next]_vars, NEW c \in Conn
  PROVE  \/ fence'[c].state = "uncertain"
         \/ fence'[c].state = fence[c].state /\ fence'[c].lease = fence[c].lease
         \/ /\ fence[c].state # "uncertain"
            /\ fence[c].state = "inflight" =>
                 \E w \in Worker : /\ worker[w].lease = fence[c].lease /\ worker[w].conn = c
                                   /\ Holds(worker[w]) /\ worker'[w].pc \in {"wait", "idle"}
<1> USE DEF database
<1> DEFINE Moved == \/ fence'[c].state = "uncertain"
                    \/ fence'[c].state = fence[c].state /\ fence'[c].lease = fence[c].lease
                    \/ /\ fence[c].state # "uncertain"
                       /\ fence[c].state = "inflight" =>
                            \E w \in Worker : /\ worker[w].lease = fence[c].lease /\ worker[w].conn = c
                                              /\ Holds(worker[w]) /\ worker'[w].pc \in {"wait", "idle"}
<1>0. fence \in [Conn -> Fence] /\ worker \in [Worker -> RunState]
  BY DEF TypeOK
<1>1. CASE UNCHANGED fence
  BY <1>1
<1>2. ASSUME NEW w \in Worker, Refused(w) PROVE Moved
  <2>1. CASE UNCHANGED fence
    BY <2>1
  <2>2. CASE /\ FenceSeenBy(worker[w]).state # "none"
             /\ fence' = [fence EXCEPT ![worker[w].conn] = FenceSeenBy(worker[w])]
    <3>1. \/ FenceSeenBy(worker[w]).state = "uncertain"
          \/ FenceSeenBy(worker[w]) = fence[worker[w].conn]
      BY <2>2 DEF FenceSeenBy, NoFence
    <3>2. CASE worker[w].conn = c
      BY <1>0, <2>2, <3>1, <3>2
    <3>3. CASE worker[w].conn # c
      BY <1>0, <2>2, <3>3
    <3> QED BY <3>2, <3>3
  <2> QED BY <1>2, <2>1, <2>2 DEF Refused
<1>3. ASSUME NEW w \in Worker, Send(w) PROVE Moved
  <2>1. /\ fence' = [fence EXCEPT ![worker[w].conn] =
                       [state |-> "inflight", lease |-> worker[w].lease, late |-> FALSE]]
        /\ Holds(worker[w]) /\ worker'[w].pc = "wait" /\ FenceSeenBy(worker[w]).state = "none"
    BY <1>0, <1>3 DEF Send, MayWrite, HoldsLive, RunState
  <2>2. CASE worker[w].conn = c
    <3>1. fence[c].state # "uncertain" /\ (fence[c].state = "inflight" => fence[c].lease = worker[w].lease)
      BY <1>0, <2>1, <2>2 DEF FenceSeenBy, NoFence
    <3> QED BY <2>1, <2>2, <3>1
  <2>3. CASE worker[w].conn # c
    BY <1>0, <2>1, <2>3
  <2> QED BY <2>2, <2>3
<1>4. ASSUME NEW w \in Worker, Finish(w) \/ Fail(w) PROVE Moved
  <2>1. worker'[w].pc = "idle"
    BY <1>0, <1>4 DEF Finish, Fail, Closed, Idle
  <2>2. CASE UNCHANGED fence
    BY <2>2
  <2>3. CASE fence' # fence
    <3>1. /\ Holds(worker[w]) /\ fence[worker[w].conn].state = "inflight"
          /\ fence[worker[w].conn].lease = worker[w].lease
          /\ \E u \in Fence : fence' = [fence EXCEPT ![worker[w].conn] = u]
      BY <1>4, <2>3, SmallTyped DEF Finish, Fail, Closed
    <3>2. CASE worker[w].conn = c
      BY <2>1, <3>1, <3>2
    <3>3. CASE worker[w].conn # c
      BY <1>0, <3>1, <3>3
    <3> QED BY <3>2, <3>3
  <2> QED BY <2>2, <2>3
<1>5. ASSUME NEW d \in Conn, Deadline(d) PROVE Moved
  BY <1>0, <1>5 DEF Deadline, Fence
<1>6. CASE Household
  BY <1>1, <1>6, HouseholdMoves
<1>7. ASSUME NEW w \in Worker,
             Read(w) \/ ClaimMirror(w) \/ NoAnswer(w) \/ GrantLost(w) \/ AccessLost(w) \/ Crash(w)
             \/ \E d \in Conn : ClaimCleanup(w, d)
      PROVE  UNCHANGED fence
  BY <1>7 DEF Read, ClaimMirror, ClaimCleanup, NoAnswer, GrantLost, AccessLost, Crash
<1>8. ASSUME \/ \E f \in flight : Land(f)
             \/ \E d \in Conn : Touch(d) \/ CleanupLapses(d)
             \/ RowLapses \/ UNCHANGED vars
      PROVE  UNCHANGED fence
  BY <1>8 DEF Land, Touch, CleanupLapses, RowLapses, vars
<1> HIDE DEF Moved
<1>9. Moved
  BY <1>1, <1>2, <1>3, <1>4, <1>5, <1>6, <1>7, <1>8 DEF Next, Work, Misfortune, Clock, Moved
<1> QED BY <1>9 DEF Moved

\* A calendar past any leave stays so.
LEMMA StuckKept ==
  ASSUME TypeOK, Seats, [Next]_vars, NEW c \in Conn, Stuck(c)
  PROVE  Stuck(c)'
<1>1. CASE fence[c].state = "uncertain"
  BY <1>1, FenceMoves DEF Stuck
<1>2. CASE fence[c].state = "inflight" /\ fence[c].lease \notin {None, row.lease, cleanup[c].lease}
  <2>1. \A w \in Worker : worker[w].conn = c /\ worker[w].lease = fence[c].lease => ~Holds(worker[w])
    BY <1>2 DEF Holds
  <2>2. \/ fence'[c].state = "uncertain"
        \/ fence'[c].state = "inflight" /\ fence'[c].lease = fence[c].lease
    BY <1>2, <2>1, FenceMoves
  <2>3. fence[c].lease \notin {row'.lease, cleanup'[c].lease}
    BY <1>2, LeasesMove, Fresh
  <2> QED BY <1>2, <2>2, <2>3 DEF Stuck
<1> QED BY <1>1, <1>2 DEF Stuck

\* Who may write finds no stuck fence.
LEMMA LeaveIsFree ==
  ASSUME TypeOK, Seats, NEW w \in Worker, Send(w)
  PROVE  /\ ~Stuck(worker[w].conn)
         /\ fence[worker[w].conn].state # "uncertain"
         /\ fence[worker[w].conn].state = "inflight" => fence[worker[w].conn].lease = worker[w].lease
<1>1. fence[worker[w].conn].state # "uncertain"
      /\ (fence[worker[w].conn].state = "inflight" => fence[worker[w].conn].lease = worker[w].lease)
  BY DEF Send, FenceSeenBy, NoFence
<1>2. worker[w].lease \in {row.lease, cleanup[worker[w].conn].lease}
  BY DEF Send, MayWrite, HoldsLive, Holds
<1> QED BY <1>1, <1>2 DEF Stuck

\* The requests are some of those in fs, with their operations.
Remain(fs) ==
  \A g \in flight' : \E f \in fs : g.by = f.by /\ g.conn = f.conn /\ g.ver = f.ver /\ g.op = f.op

(* Outdated requests are what they were. *)
LEMMA ThinnedRemain ==
  ASSUME TypeOK, NEW fs \in SUBSET flight, Thinned(fs)
  PROVE  Remain(fs)
<1>1. CASE flight' = fs
  BY <1>1 DEF Remain
<1>2. ASSUME NEW c \in Conn, flight' = OutdatedIn(c, fs) PROVE Remain(fs)
  <2> DEFINE old(f) == IF f.conn = c THEN [f EXCEPT !.fresh = FALSE] ELSE f
  <2>1. ASSUME NEW f \in fs
        PROVE  old(f).by = f.by /\ old(f).conn = f.conn /\ old(f).ver = f.ver /\ old(f).op = f.op
    BY DEF TypeOK, Request
  <2>2. \A g \in flight' : \E f \in fs : g = old(f)
    BY <1>2 DEF OutdatedIn
  <2> HIDE DEF old
  <2> QED BY <2>1, <2>2 DEF Remain
<1> QED BY <1>1, <1>2 DEF Thinned

(* Only a request that lands changes a calendar, its own. *)
LEMMA CalMoves ==
  ASSUME TypeOK, Seats, [Next]_vars, NEW c \in Conn, cal'[c] # cal[c]
  PROVE  \E f \in flight : Land(f) /\ f.conn = c
<1> USE DEF database
<1>1. CASE Household
  BY <1>1, HouseholdMoves
<1>2. ASSUME NEW w \in Worker, Work(w) \/ Misfortune(w) PROVE UNCHANGED cal
  BY <1>2, EndMoves DEF Work, ClaimMirror, ClaimCleanup, Read, Refused, Send,
                        Misfortune, NoAnswer, GrantLost, AccessLost, Crash
<1>3. ASSUME Clock \/ (\E d \in Conn : Touch(d)) \/ UNCHANGED vars PROVE UNCHANGED cal
  BY <1>3 DEF Clock, RowLapses, CleanupLapses, Deadline, Touch, vars
<1>4. ASSUME NEW f \in flight, Land(f) PROVE f.conn = c
  BY <1>4 DEF Land, TypeOK
<1> QED BY <1>1, <1>2, <1>3, <1>4 DEF Next

(* What is gone stays gone, unless the row's own run writes: any other insert that lands
   is of a run whose fence nobody settles any more. *)
LEMMA GoneKept ==
  ASSUME TypeOK, Seats, Fenced, Requests, [Next]_vars, NEW c \in Conn, Gone(c),
         \A f \in flight : f.conn = c => f.by # row.lease
  PROVE  Gone(c)'
<1>1. CASE Stuck(c)
  BY <1>1, StuckKept DEF Gone
<1>2. CASE ~Exists(c) /\ cal'[c] = cal[c]
  BY <1>2 DEF Gone, Exists
<1>3. CASE ~Exists(c) /\ cal'[c] # cal[c]
  <2>1. PICK f \in flight : Land(f) /\ f.conn = c
    BY <1>3, CalMoves
  <2>2. UNCHANGED <<row, cleanup, fence>>
    BY <2>1 DEF Land, database
  <2>3. f.op = "insert"
    BY <1>3, <2>1 DEF Land, Applies
  <2>4. f.by \notin {None, row.lease, cleanup[c].lease}
    BY <2>1, <2>3, Numbers, MirrorAssumption DEF Requests
  <2>5. Stuck(c)
    BY <2>1, <2>4 DEF Fenced, Stuck
  <2> QED BY <2>5, StuckKept DEF Gone
<1> QED BY <1>1, <1>2, <1>3 DEF Gone

-----------------------------------------------------------------------------
(* Steps that tell no run anything.                                        *)

\* The same run in the same place, or one that has given up.
Carries(r, s) ==
  s.pc # "idle" =>
    /\ r.pc # "idle" /\ s.lease = r.lease /\ s.conn = r.conn /\ s.job = r.job /\ s.action = r.action
    /\ s.pc \in Writing => r.pc \in Writing /\ s.ver = r.ver /\ s.known = r.known
    /\ s.pc \in {"ask", "wait", "finish"} => r.pc = s.pc
    /\ s.pc = "ask" /\ s.seen = "gone" => r.seen = "gone"

AllCarry == \A w \in Worker : Carries(worker[w], worker'[w])

\* A step after which the row has its holder or none, a deletion that was not open is
\* not, and the family's calendar was the family's calendar.
Calm ==
  /\ AllCarry
  /\ Remain(flight)
  /\ UNCHANGED <<task, cal>>
  /\ \A c \in Conn : NoDeletion(c) => NoDeletion(c)'
  /\ row'.conn = row.conn
  /\ row'.lease # None => row'.lease = row.lease /\ row'.known = row.known
  /\ Current' => Current /\ target' = target

\* A row that says it is settled said so before.
Keeps == row'.state \in {"synced", "deleted"} => row'.state = row.state /\ row'.known = row.known

(* Who stays, leaves, fails or holds an old ETag is told nothing. *)
LEMMA Carried ==
  ASSUME NEW r \in RunState
  PROVE  /\ Carries(r, r) /\ Carries(r, Idle)
         /\ r.pc # "idle" => Carries(r, Ends(r, "fail"))
<1>1. Carries(r, r) /\ Carries(r, Idle)
  BY DEF Carries, Idle
<1>2. Ends(r, "fail").pc = "fail" /\ Ends(r, "fail").lease = r.lease /\ Ends(r, "fail").conn = r.conn
      /\ Ends(r, "fail").job = r.job /\ Ends(r, "fail").action = r.action
  BY EndsTyped
<1> QED BY <1>1, <1>2 DEF Carries, Writing

LEMMA OutdatedCarries ==
  ASSUME NEW c \in Conn, NEW ws \in [Worker -> RunState], NEW w \in Worker
  PROVE  Carries(ws[w], OutdatedFor(c, ws)[w])
BY DEF OutdatedFor, Carries, RunState

(* Where one run moves and is told nothing, none is. *)
LEMMA OneCarries ==
  ASSUME TypeOK, NEW w \in Worker, NEW s, Carries(worker[w], s), worker' = [worker EXCEPT ![w] = s]
  PROVE  AllCarry
<1>1. ASSUME NEW v \in Worker PROVE Carries(worker[v], worker[v])
  BY Carried DEF TypeOK
<1>2. ASSUME NEW v \in Worker PROVE worker'[v] = IF v = w THEN s ELSE worker[v]
  BY DEF TypeOK
<1> QED BY <1>1, <1>2 DEF AllCarry

(* The row and the deletion jobs of a calendar that is lost are blocked, if open. *)
LEMMA LostIsCalm ==
  ASSUME TypeOK, NEW w \in Worker, AccessLost(w)
  PROVE  /\ \A c \in Conn : NoDeletion(c) => NoDeletion(c)'
         /\ row'.conn = row.conn
         /\ row'.lease # None => row'.lease = row.lease /\ row'.known = row.known
         /\ Current' => Current /\ target' = target
         /\ Keeps
<1>1. row \in MirrorRow /\ (row.state \in Held <=> row.lease # None)
  BY DEF TypeOK
<1>2. row' = row \/ row' = [row EXCEPT !.state = "blocked", !.lease = None, !.live = FALSE]
  BY DEF AccessLost, Blocked
<1>3. row'.conn = row.conn /\ row'.passed = row.passed /\ Keeps
      /\ (row'.lease # None => row'.lease = row.lease /\ row'.known = row.known)
  BY <1>1, <1>2 DEF MirrorRow, Keeps
<1>4. \A c \in Conn : NoDeletion(c) => NoDeletion(c)'
  BY DEF AccessLost, Blocked, Unblocked, NoDeletion, TypeOK
<1>5. ASSUME Current' PROVE Current /\ target' = target
  <2>1. target' = target /\ target # worker[w].conn
    BY <1>5, MirrorAssumption DEF AccessLost, Current, Usable
  <2> QED BY <1>3, <1>5, <2>1 DEF AccessLost, Current, Usable, TypeOK
<1> QED BY <1>3, <1>4, <1>5

(* Closing a job that failed, or that was no upsert or deletion of the row. *)
LEMMA ClosedIsCalm ==
  ASSUME TypeOK, Seats, NEW w \in Worker, Finish(w) \/ Fail(w)
  PROVE  /\ Calm
         /\ \/ Keeps
            \/ /\ worker[w].pc = "finish" /\ Mirroring(w) /\ worker'[w].pc = "idle"
               /\ row'.state = IF worker[w].action = "delete" THEN "deleted" ELSE "synced"
               /\ worker[w].action = "delete" => row'.known = row.known
               /\ UNCHANGED <<cleanup, target, conn, flight>>
<1>0. /\ row \in MirrorRow /\ (row.state \in Held <=> row.lease # None)
      /\ worker[w] \in RunState /\ worker[w].pc # "idle" /\ cleanup \in [Conn -> DeletionJob]
  BY DEF TypeOK, Finish, Fail
<1>1. /\ Departs(w) /\ SameRow /\ SameJobs /\ UNCHANGED <<task, cal, flight>>
  BY EndMoves
<1>2. UNCHANGED <<target, conn>>
  BY DEF Finish, Fail, Closed
<1>3. PICK state \in {"synced", "deleted", "failed"}, u \in Fence : Closed(w, state, u)
           /\ (worker[w].pc = "finish" => state = IF worker[w].action = "delete" THEN "deleted" ELSE "synced")
           /\ (worker[w].pc # "finish" => state = "failed")
           /\ worker[w].pc \in {"finish", "fail"}
  BY SmallTyped DEF Finish, Fail
<1>4. AllCarry /\ worker'[w].pc = "idle"
  <2>1. worker' = [worker EXCEPT ![w] = Idle]
    BY <1>1 DEF Departs
  <2>2. Carries(worker[w], Idle)
    BY <1>0, Carried
  <2> QED BY <2>1, <2>2, OneCarries DEF TypeOK, Idle
<1>5. Remain(flight)
  BY <1>1 DEF Remain
<1>6. Current' => Current /\ target' = target
  BY <1>1, <1>2 DEF SameRow, Current, Usable
<1>7. \A c \in Conn : NoDeletion(c) => NoDeletion(c)'
  BY <1>1 DEF SameJobs, NoDeletion
<1>8. CASE UNCHANGED row
  BY <1>1, <1>4, <1>5, <1>6, <1>7, <1>8 DEF Calm, Keeps
<1>9. CASE row' # row
  <2>1. Holds(worker[w]) /\ worker[w].job = "mirror" /\ UNCHANGED cleanup
    BY <1>0, <1>3, <1>9 DEF Closed, RunState
  <2>2. Mirroring(w)
    BY <1>0, <2>1 DEF Holds, Mirroring
  <2>3. /\ row'.lease = None /\ row'.conn = row.conn /\ row'.state = state
        /\ state = "failed" \/ worker[w].action = "delete" => row'.known = row.known
    <3>1. CASE state = "failed"
      BY <1>0, <1>3, <2>1, <3>1 DEF Closed, MirrorRow
    <3>2. CASE state # "failed"
      <4>1. row' = [row EXCEPT !.state = state, !.lease = None, !.live = FALSE,
                               !.action = worker[w].action,
                               !.known = @ \/ worker[w].action = "upsert"]
        BY <1>0, <1>3, <2>1, <3>2 DEF Closed, MirrorRow
      <4> QED BY <1>0, <3>2, <4>1 DEF MirrorRow
    <3> QED BY <3>1, <3>2
  <2>4. Calm
    BY <1>1, <1>4, <1>5, <1>6, <1>7, <2>3 DEF Calm
  <2>5. CASE state = "failed"
    BY <2>3, <2>4, <2>5 DEF Keeps
  <2>6. CASE state # "failed"
    BY <1>1, <1>2, <1>3, <1>4, <2>1, <2>2, <2>3, <2>4, <2>6
  <2> QED BY <2>5, <2>6
<1> QED BY <1>8, <1>9

(* Refusals, misfortunes, hands on the calendar and time tell no run anything. *)
LEMMA CalmSteps ==
  ASSUME TypeOK, Seats,
         \/ \E w \in Worker : Refused(w) \/ Misfortune(w)
         \/ \E w \in Worker : ClaimMirror(w) /\ UNCHANGED worker
         \/ \E c \in Conn : Touch(c)
         \/ Clock \/ UNCHANGED vars
  PROVE  Calm /\ Keeps
<1> USE DEF database
<1>0. /\ row \in MirrorRow /\ worker \in [Worker -> RunState] /\ cleanup \in [Conn -> DeletionJob]
      /\ \A w \in Worker : worker[w] \in RunState
  BY DEF TypeOK
<1>1. UNCHANGED worker => AllCarry
  BY <1>0, Carried DEF AllCarry
<1>2. \A fs \in SUBSET flight : flight' = fs => Remain(flight)
  BY DEF Remain
<1>3. UNCHANGED <<row, cleanup, target, conn>> =>
        /\ \A c \in Conn : NoDeletion(c) => NoDeletion(c)'
        /\ row'.conn = row.conn /\ row'.lease = row.lease /\ row'.known = row.known
        /\ Current' => Current /\ target' = target
        /\ Keeps
  BY DEF NoDeletion, Current, Usable, Keeps
<1>4. ASSUME NEW w \in Worker, Refused(w) \/ Crash(w) PROVE Calm /\ Keeps
  <2>1. AllCarry
    BY <1>0, <1>4, Carried, OneCarries DEF Refused, Crash
  <2>2. UNCHANGED <<row, cleanup, target, conn, task, cal, flight>>
    BY <1>4 DEF Refused, Crash
  <2> QED BY <1>2, <1>3, <2>1, <2>2 DEF Calm
<1>5. ASSUME NEW w \in Worker, NoAnswer(w) \/ GrantLost(w) \/ AccessLost(w) PROVE Calm /\ Keeps
  <2>1. AllCarry
    <3>1. worker' = [worker EXCEPT ![w] = Ends(worker[w], "fail")] /\ worker[w].pc # "idle"
      BY <1>5 DEF NoAnswer, GrantLost, AccessLost
    <3> QED BY <1>0, <3>1, Carried, OneCarries
  <2>2. UNCHANGED <<task, cal>> /\ flight' \in SUBSET flight
    BY <1>5 DEF NoAnswer, GrantLost, AccessLost, Mine
  <2>3. CASE NoAnswer(w)
    BY <1>2, <1>3, <2>1, <2>2, <2>3 DEF Calm, NoAnswer
  <2>4. CASE GrantLost(w)
    <3>1. Current' => Current /\ target' = target
      BY <2>4 DEF GrantLost, Current, Usable, TypeOK
    <3>2. UNCHANGED <<row, cleanup>>
      BY <2>4 DEF GrantLost
    <3> QED BY <1>2, <2>1, <2>2, <3>1, <3>2 DEF Calm, Keeps, NoDeletion
  <2>5. CASE AccessLost(w)
    BY <1>2, <2>1, <2>2, <2>5, LostIsCalm DEF Calm
  <2> QED BY <1>5, <2>3, <2>4, <2>5
<1>6. ASSUME NEW w \in Worker, ClaimMirror(w), UNCHANGED worker PROVE Calm /\ Keeps
  <2>1. row' = [row EXCEPT !.state = "failed", !.lease = None, !.live = FALSE]
    <3>1. ASSUME NEW gone \in BOOLEAN, worker' = [worker EXCEPT ![w] =
                   [Idle EXCEPT !.pc = "read", !.lease = FreshLease, !.conn = row.conn, !.ver = task.ver,
                                !.known = row.known, !.action = IF gone THEN "delete" ELSE "upsert"]]
          PROVE  FALSE
      <4>1. worker'[w].pc = "read"
        BY <1>0, <3>1 DEF Idle
      <4> QED BY <1>6, <4>1 DEF ClaimMirror
    <3> QED BY <1>6, <3>1 DEF ClaimMirror
  <2>2. row'.conn = row.conn /\ row'.lease = None /\ row'.state = "failed" /\ row'.passed = row.passed
    BY <1>0, <2>1 DEF MirrorRow
  <2>3. UNCHANGED <<cleanup, target, conn, task, cal, flight>>
    BY <1>6 DEF ClaimMirror
  <2> QED BY <1>1, <1>2, <1>6, <2>2, <2>3 DEF Calm, Keeps, NoDeletion, Current, Usable
<1>7. ASSUME NEW c \in Conn, Touch(c) PROVE Calm /\ Keeps
  <2>1. AllCarry
    BY <1>0, <1>7, OutdatedCarries DEF Touch, AllCarry
  <2>2. Remain(flight)
    BY <1>7, TouchMoves, ThinnedRemain
  <2> QED BY <1>3, <1>7, <2>1, <2>2 DEF Calm, Touch
<1>8. CASE Clock \/ UNCHANGED vars
  <2>1. UNCHANGED <<task, cal, flight, worker, target, conn>>
    BY <1>8 DEF Clock, RowLapses, CleanupLapses, Deadline, vars
  <2>2. /\ row'.conn = row.conn /\ row'.lease = row.lease /\ row'.known = row.known
        /\ row'.state = row.state /\ row'.passed = row.passed
    BY <1>0, <1>8 DEF Clock, RowLapses, CleanupLapses, Deadline, vars, MirrorRow
  <2>3. \A c \in Conn : cleanup'[c].state = cleanup[c].state
    BY <1>0, <1>8 DEF Clock, RowLapses, CleanupLapses, Deadline, vars, DeletionJob
  <2> QED BY <1>1, <1>2, <2>1, <2>2, <2>3 DEF Calm, Keeps, NoDeletion, Current, Usable
<1> QED BY <1>4, <1>5, <1>6, <1>7, <1>8 DEF Misfortune

-----------------------------------------------------------------------------
(* Steps that tell a run something.                                        *)

(* A read says whether the event is there. *)
LEMMA ReadFinds ==
  ASSUME TypeOK, NEW w \in Worker, Read(w)
  PROVE  /\ AllCarry \/ worker'[w].pc \in {"ask", "finish"}
         /\ \A v \in Worker : v # w => worker'[v] = worker[v]
         /\ Further(worker[w], worker'[w]) /\ worker'[w].pc \in {"ask", "finish", "fail"}
         /\ worker'[w].pc = "ask" => /\ worker'[w].known = worker[w].known
                                     /\ worker'[w].seen = "gone" => ~Exists(worker[w].conn)
         /\ worker'[w].pc = "finish" => /\ worker[w].action = "delete"
                                        /\ worker[w].known => ~Exists(worker[w].conn)
<1>0. worker[w] \in RunState /\ worker \in [Worker -> RunState] /\ worker[w].pc \in {"read", "reread"}
  BY DEF TypeOK, Read
<1>1. /\ Advance /\ worker'[w].pc \in {"ask", "finish", "fail"}
      /\ \A v \in Worker : v # w => worker'[v] = worker[v]
  BY ReadAdvances
<1>2. CASE \E pc \in {"finish", "fail"} :
             /\ worker' = [worker EXCEPT ![w] = Ends(worker[w], pc)]
             /\ pc = "finish" => worker[w].action = "delete" /\ (worker[w].known => ~Exists(worker[w].conn))
  <2>1. PICK pc \in {"finish", "fail"} :
             /\ worker' = [worker EXCEPT ![w] = Ends(worker[w], pc)]
             /\ pc = "finish" => worker[w].action = "delete" /\ (worker[w].known => ~Exists(worker[w].conn))
    BY <1>2
  <2>2. worker'[w] = Ends(worker[w], pc) /\ Ends(worker[w], pc).pc = pc
    BY <1>0, <2>1, EndsTyped
  <2>3. CASE pc = "fail"
    <3>1. AllCarry
      BY <1>0, <2>1, <2>3, Carried, OneCarries
    <3> QED BY <1>1, <2>2, <2>3, <3>1 DEF Advance
  <2>4. CASE pc = "finish"
    BY <1>1, <2>1, <2>2, <2>4 DEF Advance
  <2> QED BY <2>3, <2>4
<1>3. CASE worker' = [worker EXCEPT ![w] =
             [worker[w] EXCEPT !.pc = "ask", !.again = (worker[w].pc = "reread"),
                               !.seen = IF Exists(worker[w].conn) THEN "current" ELSE "gone"]]
  <2>1. /\ worker'[w].pc = "ask" /\ worker'[w].known = worker[w].known
        /\ worker'[w].seen = IF Exists(worker[w].conn) THEN "current" ELSE "gone"
    BY <1>0, <1>3 DEF RunState
  <2> QED BY <1>1, <2>1 DEF Advance
<1>4. \/ \E pc \in {"finish", "fail"} :
           /\ worker' = [worker EXCEPT ![w] = Ends(worker[w], pc)]
           /\ pc = "finish" => worker[w].action = "delete" /\ (worker[w].known => ~Exists(worker[w].conn))
      \/ worker' = [worker EXCEPT ![w] =
             [worker[w] EXCEPT !.pc = "ask", !.again = (worker[w].pc = "reread"),
                               !.seen = IF Exists(worker[w].conn) THEN "current" ELSE "gone"]]
  BY DEF Read
<1> QED BY <1>2, <1>3, <1>4

(* An answered run knows what became of its request. *)
LEMMA AnswersTell ==
  ASSUME NEW f, NEW me \in RunState
  PROVE  /\ Answered(f, me).action = me.action
         /\ Answered(f, me).pc = "reread" => Answered(f, me).known = me.known
         /\ Answered(f, me).pc = "finish" =>
              Applies(f) \/ f.op = "insert" \/ (f.op = "delete" /\ ~Exists(f.conn))
<1>1. ASSUME NEW pc \in {"finish", "fail"} PROVE Ends(me, pc).pc = pc /\ Ends(me, pc).action = me.action
  BY EndsTyped
<1>2. LET s == [me EXCEPT !.pc = "reread", !.seen = "none"]
      IN  s.pc = "reread" /\ s.action = me.action /\ s.known = me.known
  BY DEF RunState
<1>3. CASE Applies(f) \/ f.op = "insert" \/ (f.op = "delete" /\ ~Exists(f.conn))
  <2>1. Answered(f, me) = Ends(me, "finish")
    BY <1>3 DEF Answered
  <2> QED BY <1>1, <1>3, <2>1
<1>4. CASE ~(Applies(f) \/ f.op = "insert" \/ (f.op = "delete" /\ ~Exists(f.conn)))
  <2>1. \/ Answered(f, me) = Ends(me, "fail")
        \/ Answered(f, me) = [me EXCEPT !.pc = "reread", !.seen = "none"]
    BY <1>4 DEF Answered
  <2> QED BY <1>1, <1>2, <2>1
<1> QED BY <1>3, <1>4

\* A landing tells nobody but the sender, who then knows what Google shows.
LEMMA LandTells ==
  ASSUME TypeOK, Seats, Fenced, Requests, NEW f \in flight, Land(f), NEW w \in Worker
  PROVE  \/ Carries(worker[w], worker'[w])
         \/ /\ worker[w].pc = "wait" /\ worker[w].lease = f.by /\ worker[w].conn = f.conn
            /\ Further(worker[w], worker'[w]) /\ worker'[w].pc \in {"finish", "fail", "reread"}
            /\ worker'[w].pc = "reread" => worker'[w].known = worker[w].known
            /\ worker'[w].pc = "finish" /\ worker[w].action = "upsert" =>
                 cal'[f.conn].ver = worker[w].ver
            /\ worker'[w].pc = "finish" /\ worker[w].action = "delete" => ~Exists(f.conn)'
<1> DEFINE told == [v \in Worker |->
              IF worker[v].pc = "wait" /\ worker[v].lease = f.by
              THEN Answered(f, worker[v]) ELSE worker[v]]
<1>0. worker[w] \in RunState /\ f.conn \in Conn /\ f \in Request
  BY Numbers DEF TypeOK
<1>1. told \in [Worker -> RunState]
  BY AnsweredTyped DEF TypeOK
<1>2. \/ worker' = OutdatedFor(f.conn, told)
      \/ worker' = told
  BY DEF Land
<1>3. told[w] = IF worker[w].pc = "wait" /\ worker[w].lease = f.by
                THEN Answered(f, worker[w]) ELSE worker[w]
  OBVIOUS
<1> HIDE DEF told
<1>4. told[w] \in RunState
  BY <1>1
<1>5. Carries(told[w], worker'[w]) /\ worker'[w].pc = told[w].pc
  BY <1>0, <1>1, <1>2, <1>4, Carried, OutdatedCarries, OutdatedMoves
<1>6. CASE ~(worker[w].pc = "wait" /\ worker[w].lease = f.by)
  BY <1>3, <1>5, <1>6
<1>7. CASE worker[w].pc = "wait" /\ worker[w].lease = f.by
  <2>1. told[w] = Answered(f, worker[w])
    BY <1>3, <1>7
  <2>2. worker[w].conn = f.conn /\ HasInHand(worker[w], f)
    BY <1>7 DEF Fenced, Requests
  <2>3. Further(worker[w], worker'[w])
    BY LandMoves DEF Advance
  <2>4. worker'[w].pc \in {"finish", "fail", "reread"}
    BY <1>0, <1>5, <2>1, AnsweredTyped
  <2>5. worker'[w].pc = "reread" => worker'[w].known = worker[w].known
    BY <1>0, <1>5, <2>1, AnswersTell DEF Carries, Writing
  <2>6. worker'[w].pc = "finish" => Applies(f) \/ f.op = "insert" \/ (f.op = "delete" /\ ~Exists(f.conn))
    BY <1>0, <1>5, <2>1, AnswersTell
  <2>7. ASSUME worker'[w].pc = "finish", worker[w].action = "upsert" PROVE cal'[f.conn].ver = worker[w].ver
    <3>1. f.op # "delete" /\ f.ver = worker[w].ver
      BY <2>2, <2>7 DEF HasInHand
    <3>2. Applies(f)
      BY <2>6, <2>7, <3>1 DEF Requests, Applies
    <3>3. cal' = [cal EXCEPT ![f.conn] = [ver |-> f.ver, top |-> f.ver]]
      BY <3>1, <3>2 DEF Land
    <3> QED BY <1>0, <3>1, <3>3 DEF TypeOK
  <2>8. ASSUME worker'[w].pc = "finish", worker[w].action = "delete" PROVE ~Exists(f.conn)'
    <3>1. f.op = "delete"
      BY <2>2, <2>8 DEF HasInHand
    <3>2. CASE Applies(f)
      <4>1. cal' = [cal EXCEPT ![f.conn] = [ver |-> 0, top |-> f.ver]]
        BY <3>1, <3>2 DEF Land
      <4> QED BY <1>0, <4>1 DEF TypeOK, Exists
    <3>3. CASE ~Applies(f)
      BY <2>6, <2>8, <3>1, <3>3 DEF Land, Exists
    <3> QED BY <3>2, <3>3
  <2> QED BY <1>7, <2>2, <2>3, <2>4, <2>5, <2>7, <2>8
<1> QED BY <1>6, <1>7

\* Leave is given to the run, which then waits for its answer; a write of the row is
\* given leave only in the family's calendar, with no deletion open.
LEMMA SendLeaves ==
  ASSUME TypeOK, Seats, NEW w \in Worker, Send(w)
  PROVE  /\ worker'[w] = [worker[w] EXCEPT !.pc = "wait"]
         /\ \A v \in Worker : v # w => worker'[v] = worker[v]
         /\ worker[w] \in RunState /\ worker[w].pc = "ask"
         /\ worker[w].lease \in Lease /\ worker[w].conn \in Conn
         /\ flight' = flight \cup {Sent(worker[w])}
         /\ UNCHANGED <<task, row, cleanup, conn, target, cal>>
         /\ worker[w].job = "mirror" => Mirroring(w) /\ NoDeletion(worker[w].conn)
         /\ worker[w].job # "mirror" => ~NoDeletion(worker[w].conn)
         /\ row.state = "synced" => worker[w].job # "mirror"
<1>1. worker[w] \in RunState /\ worker[w].pc = "ask" /\ worker[w].lease \in Lease /\ worker[w].conn \in Conn
  BY DEF TypeOK, Seats, Send
<1>2. MayWrite(worker[w])
  BY DEF Send
<1>3. worker[w].job = "mirror" => Mirroring(w) /\ NoDeletion(worker[w].conn) /\ row.state # "synced"
  BY <1>1, <1>2 DEF MayWrite, HoldsLive, Holds, Held, Mirroring, NoDeletion
<1>4. worker[w].job # "mirror" => ~NoDeletion(worker[w].conn)
  BY <1>2 DEF MayWrite, HoldsLive, Holds, Held, NoDeletion
<1> QED BY <1>1, <1>3, <1>4 DEF Send, TypeOK

(* A deletion job that is claimed was open, and takes no part in the row. *)
LEMMA CleanupTakes ==
  ASSUME TypeOK, Seats, NEW w \in Worker, NEW c \in Conn, ClaimCleanup(w, c)
  PROVE  /\ worker'[w].job = "cleanup" /\ worker'[w].pc = "read" /\ worker'[w].action = "delete"
         /\ \A v \in Worker : v # w => worker'[v] = worker[v]
         /\ \A d \in Conn : NoDeletion(d) => NoDeletion(d)'
         /\ UNCHANGED <<task, row, fence, conn, target, cal, flight>>
<1>1. worker'[w].job = "cleanup" /\ worker'[w].pc = "read" /\ worker'[w].action = "delete"
      /\ \A v \in Worker : v # w => worker'[v] = worker[v]
  BY DEF ClaimCleanup, Idle, TypeOK
<1>2. \A d \in Conn : NoDeletion(d) => NoDeletion(d)'
  BY DEF ClaimCleanup, Claimable, Waiting, Held, NoDeletion, TypeOK
<1> QED BY <1>1, <1>2 DEF ClaimCleanup

(* A claim of the row that starts a run hands it the row's place and what the family
   wants; nobody else holds it then. *)
LEMMA ClaimStarts ==
  ASSUME TypeOK, Seats, NEW w \in Worker, ClaimMirror(w), worker' # worker
  PROVE  /\ row'.conn = row.conn /\ row'.known = row.known /\ row'.state = "processing"
         /\ worker'[w].pc = "read" /\ worker'[w].conn = row.conn /\ worker'[w].known = row.known
         /\ worker'[w].ver = task.ver
         /\ worker'[w].action = "upsert" => task.want = "shown"
         /\ \A v \in Worker : v # w => /\ worker'[v] = worker[v]
                                       /\ worker[v].lease # row'.lease
         /\ UNCHANGED <<task, cleanup, fence, conn, target, cal, flight>>
<1>0. worker \in [Worker -> RunState] /\ row \in MirrorRow /\ task \in Decision
  BY DEF TypeOK
<1>1. PICK gone \in BOOLEAN :
        /\ ~gone => task.want \notin {"hidden", "cancelled", "unfit"}
        /\ row' = [row EXCEPT !.state = "processing", !.lease = FreshLease, !.live = TRUE, !.ver = task.ver]
        /\ worker' = [worker EXCEPT ![w] =
             [Idle EXCEPT !.pc = "read", !.lease = FreshLease, !.conn = row.conn, !.ver = task.ver,
                          !.known = row.known, !.action = IF gone THEN "delete" ELSE "upsert"]]
  BY DEF ClaimMirror
<1>2. row'.conn = row.conn /\ row'.known = row.known /\ row'.state = "processing" /\ row'.lease = FreshLease
  BY <1>0, <1>1 DEF MirrorRow
<1>3. /\ worker'[w].pc = "read" /\ worker'[w].conn = row.conn /\ worker'[w].known = row.known
      /\ worker'[w].ver = task.ver /\ worker'[w].action = IF gone THEN "delete" ELSE "upsert"
      /\ \A v \in Worker : v # w => worker'[v] = worker[v]
  BY <1>0, <1>1 DEF Idle
<1>4. ~gone => task.want = "shown"
  BY <1>0, <1>1 DEF Decision
<1>5. \A v \in Worker : worker[v].lease # FreshLease
  BY Fresh DEF ClaimMirror
<1> QED BY <1>2, <1>3, <1>4, <1>5 DEF ClaimMirror

(* What a step is. *)
LEMMA StepKinds ==
  ASSUME TypeOK, Seats, [Next]_vars
  PROVE  \/ Household
         \/ Calm /\ Keeps
         \/ \E w \in Worker : ClaimMirror(w) /\ worker' # worker
         \/ \E w \in Worker, c \in Conn : ClaimCleanup(w, c)
         \/ \E w \in Worker : Read(w) \/ Send(w) \/ Finish(w) \/ Fail(w)
         \/ \E f \in flight : Land(f)
BY CalmSteps DEF Next, Work

-----------------------------------------------------------------------------
(* Every step keeps the truth.                                             *)

(* Every step leaves the requests as they should be. *)
LEMMA RequestsKept ==
  ASSUME IInv, Requests, HolderKnows, [Next]_vars
  PROVE  Requests'
<1> USE DEF IInv
<1>1. ASSUME NEW c \in Conn, cleanup'[c].lease = row'.lease PROVE row'.lease = None
  BY <1>1, LeasesMove, Fresh DEF Requests
<1>2. ASSUME NEW g \in flight', NEW h \in flight, g.by = h.by, g.op = h.op, g.op # "delete", NEW c \in Conn
      PROVE  cleanup'[c].lease # g.by
  <2>1. cleanup[c].lease # g.by /\ g.by # None /\ (CanLease => g.by # FreshLease)
    BY <1>2, Numbers, Fresh, MirrorAssumption DEF Requests
  <2> QED BY <2>1, LeasesMove
<1>3. ASSUME NEW fs \in SUBSET flight, Remain(fs),
             \A h \in fs : cal'[h.conn] = cal[h.conn],
             \A w \in Worker : worker'[w].pc = "wait" =>
               /\ worker[w].pc = "wait" /\ worker'[w].lease = worker[w].lease
               /\ worker'[w].ver = worker[w].ver /\ worker'[w].action = worker[w].action
      PROVE  Requests'
  <2>1. ASSUME NEW g \in flight'
        PROVE  /\ g.op = "insert" => ~Exists(g.conn)'
               /\ g.op # "delete" => \A c \in Conn : cleanup'[c].lease # g.by
               /\ \A w \in Worker : worker'[w].lease = g.by /\ worker'[w].pc = "wait" =>
                    HasInHand(worker'[w], g)
    <3>1. PICK h \in fs : g.by = h.by /\ g.conn = h.conn /\ g.ver = h.ver /\ g.op = h.op
      BY <1>3 DEF Remain
    <3>2. g.op = "insert" => ~Exists(g.conn)'
      BY <1>3, <3>1 DEF Requests, Exists
    <3>3. g.op # "delete" => \A c \in Conn : cleanup'[c].lease # g.by
      BY <1>2, <3>1
    <3>4. ASSUME NEW w \in Worker, worker'[w].lease = g.by, worker'[w].pc = "wait"
          PROVE  HasInHand(worker'[w], g)
      BY <1>3, <3>1, <3>4 DEF Requests, HasInHand
    <3> QED BY <3>2, <3>3, <3>4
  <2> QED BY <1>1, <2>1 DEF Requests
<1>4. ASSUME AllCarry \/ UNCHANGED worker, Remain(flight), UNCHANGED cal PROVE Requests'
  <2>1. \A w \in Worker : worker'[w].pc = "wait" =>
          /\ worker[w].pc = "wait" /\ worker'[w].lease = worker[w].lease
          /\ worker'[w].ver = worker[w].ver /\ worker'[w].action = worker[w].action
    BY <1>4 DEF AllCarry, Carries, Writing
  <2> QED BY <1>3, <1>4, <2>1
<1>5. ASSUME NEW w \in Worker, \A v \in Worker : v # w => worker'[v] = worker[v],
             worker'[w].pc # "wait", UNCHANGED <<flight, cal>>
      PROVE  Requests'
  <2>1. Remain(flight)
    BY <1>5 DEF Remain
  <2> QED BY <1>3, <1>5, <2>1
<1>6. CASE Household
  BY <1>4, <1>6, HouseholdMoves DEF Remain
<1>7. CASE Calm
  BY <1>4, <1>7 DEF Calm
<1>8. ASSUME NEW w \in Worker, ClaimMirror(w), worker' # worker PROVE Requests'
  BY <1>5, <1>8, ClaimStarts
<1>9. ASSUME NEW w \in Worker, NEW c \in Conn, ClaimCleanup(w, c) PROVE Requests'
  BY <1>5, <1>9, CleanupTakes
<1>10. ASSUME NEW w \in Worker, Read(w) PROVE Requests'
  <2>1. UNCHANGED <<flight, cal>>
    BY <1>10 DEF Read
  <2> QED BY <1>5, <1>10, <2>1, ReadFinds
<1>11. ASSUME NEW w \in Worker, Finish(w) \/ Fail(w) PROVE Requests'
  BY <1>7, <1>11, ClosedIsCalm
<1>12. ASSUME NEW w \in Worker, Send(w) PROVE Requests'
  <2> DEFINE me == worker[w]
  <2>1. /\ worker'[w] = [me EXCEPT !.pc = "wait"] /\ \A v \in Worker : v # w => worker'[v] = worker[v]
        /\ me \in RunState /\ me.pc = "ask" /\ me.lease \in Lease /\ me.conn \in Conn
        /\ flight' = flight \cup {Sent(me)} /\ UNCHANGED <<row, cleanup, cal>>
    BY <1>12, SendLeaves
  <2>2. /\ Sent(me).by = me.lease /\ Sent(me).conn = me.conn /\ Sent(me).ver = me.ver
        /\ Sent(me).op = IF me.action = "delete" THEN "delete"
                         ELSE IF me.seen = "gone" THEN "insert" ELSE "patch"
    BY DEF Sent
  <2>3. \A v \in Worker : v # w => worker[v].lease # me.lease
    BY <2>1, MirrorAssumption DEF Seats
  <2>4. \A f \in flight : f.by # me.lease
    BY <2>1 DEF Fenced
  <2>5. me.action # "delete" => Mirroring(w)
    <3>1. me.job = "cleanup" => me.action = "delete"
      BY DEF Seats
    <3> QED BY <1>12, <2>1, <3>1, SendLeaves DEF RunState
  <2>6. Sent(me).op = "insert" => ~Exists(me.conn)
    <3>1. ASSUME Sent(me).op = "insert" PROVE ~Exists(me.conn)
      <4>1. Mirroring(w) /\ me.seen = "gone"
        BY <2>2, <2>5, <3>1
      <4>2. Gone(row.conn) /\ me.conn = row.conn
        BY <2>1, <4>1 DEF HolderKnows, KnowsRow
      <4> QED BY <1>12, <4>2, LeaveIsFree DEF Gone
    <3> QED BY <3>1
  <2>7. Sent(me).op # "delete" => \A c \in Conn : cleanup[c].lease # me.lease
    <3>1. ASSUME Sent(me).op # "delete", NEW c \in Conn, cleanup[c].lease = me.lease PROVE FALSE
      <4>1. row.lease = me.lease
        BY <2>2, <2>5, <3>1 DEF Mirroring
      <4> QED BY <2>1, <3>1, <4>1, MirrorAssumption DEF Requests
    <3> QED BY <3>1
  <2>8. HasInHand(worker'[w], Sent(me))
    <3>1. worker'[w].ver = me.ver /\ worker'[w].action = me.action
      BY <2>1 DEF RunState
    <3> QED BY <2>2, <3>1 DEF HasInHand
  <2>9. worker'[w].lease = me.lease
    BY <2>1 DEF RunState
  <2> HIDE DEF me
  <2>10. ASSUME NEW g \in flight'
         PROVE  /\ g.op = "insert" => ~Exists(g.conn)'
                /\ g.op # "delete" => \A c \in Conn : cleanup'[c].lease # g.by
                /\ \A v \in Worker : worker'[v].lease = g.by /\ worker'[v].pc = "wait" =>
                     HasInHand(worker'[v], g)
    <3>1. CASE g = Sent(me)
      BY <2>1, <2>2, <2>3, <2>6, <2>7, <2>8, <3>1 DEF Exists
    <3>2. CASE g \in flight
      BY <2>1, <2>4, <2>9, <3>2 DEF Requests, Exists
    <3> QED BY <2>1, <3>1, <3>2
  <2> QED BY <1>1, <2>10 DEF Requests
<1>13. ASSUME NEW f \in flight, Land(f) PROVE Requests'
  <2>1. Remain(flight \ {f})
    BY <1>13, LandMoves, ThinnedRemain
  <2>2. \A h \in flight \ {f} : cal'[h.conn] = cal[h.conn]
    BY <1>13, Numbers DEF OneRequestAtATime, Land, TypeOK
  <2>3. \A w \in Worker : worker'[w].pc = "wait" =>
          /\ worker[w].pc = "wait" /\ worker'[w].lease = worker[w].lease
          /\ worker'[w].ver = worker[w].ver /\ worker'[w].action = worker[w].action
    BY <1>13, LandMoves DEF Advance, Further, Writing
  <2> QED BY <1>3, <2>1, <2>2, <2>3
<1> QED BY <1>6, <1>7, <1>8, <1>9, <1>10, <1>11, <1>12, <1>13, StepKinds

(* Who was told nothing knows the row as before. *)
LEMMA KnowledgeStays ==
  ASSUME TypeOK, Seats, Fenced, Requests, [Next]_vars, NEW w \in Worker, KnowsRow(w),
         Carries(worker[w], worker'[w]),
         Mirroring(w)' => /\ row'.lease = row.lease /\ row'.conn = row.conn /\ row'.known = row.known
  PROVE  KnowsRow(w)'
<1> SUFFICES ASSUME Mirroring(w)'
             PROVE  /\ worker'[w].conn = row'.conn
                    /\ worker'[w].pc \in Writing => worker'[w].known = row'.known
                    /\ worker'[w].pc = "ask" /\ worker'[w].seen = "gone" => Gone(row.conn)'
                    /\ worker'[w].pc = "finish" /\ worker'[w].action = "delete" /\ row'.known => Gone(row.conn)'
  BY DEF KnowsRow
<1>1. /\ Mirroring(w) /\ worker'[w].conn = worker[w].conn /\ worker'[w].action = worker[w].action
      /\ worker'[w].pc \in Writing => worker[w].pc \in Writing /\ worker'[w].known = worker[w].known
      /\ worker'[w].pc \in {"ask", "wait", "finish"} => worker[w].pc = worker'[w].pc
      /\ worker'[w].pc = "ask" /\ worker'[w].seen = "gone" => worker[w].seen = "gone"
  BY DEF Mirroring, Carries
<1>2. worker[w].conn = row.conn /\ row.conn \in Conn
  BY <1>1 DEF KnowsRow, Mirroring, Seats
<1>3. ASSUME worker'[w].pc \in {"ask", "finish"}, Gone(row.conn) PROVE Gone(row.conn)'
  <2>1. \A f \in flight : f.by # row.lease
    BY <1>1, <1>3 DEF Fenced, Mirroring
  <2>2. ASSUME NEW c \in Conn, c = row.conn PROVE Gone(c)'
    BY <1>3, <2>1, <2>2, GoneKept
  <2>3. row'.conn = row.conn
    OBVIOUS
  <2> QED BY <1>2, <2>2, <2>3 DEF Gone, Exists, Stuck
<1> QED BY <1>1, <1>2, <1>3 DEF KnowsRow

(* Every step leaves the holder of the row knowing it. *)
LEMMA HolderKnowsKept ==
  ASSUME IInv, IInv', Requests, HolderKnows, [Next]_vars
  PROVE  HolderKnows'
<1> USE DEF IInv
<1>0. ASSUME NEW w \in Worker, Mirroring(w)' PROVE row'.lease # None
  BY <1>0, MirrorAssumption DEF Mirroring, Seats
<1>1. ASSUME NEW w \in Worker, Carries(worker[w], worker'[w]),
             Mirroring(w)' => /\ row'.lease = row.lease /\ row'.conn = row.conn /\ row'.known = row.known
      PROVE  KnowsRow(w)'
  BY <1>1, KnowledgeStays DEF HolderKnows
<1>2. \A w \in Worker : Carries(worker[w], worker[w])
  BY Carried DEF TypeOK
<1>3. ASSUME NEW w \in Worker, UNCHANGED row, \A v \in Worker : v # w => worker'[v] = worker[v],
             KnowsRow(w)'
      PROVE  HolderKnows'
  <2>1. ASSUME NEW v \in Worker, v # w PROVE KnowsRow(v)'
    BY <1>1, <1>2, <1>3, <2>1
  <2> QED BY <1>3, <2>1 DEF HolderKnows
<1>4. CASE Household
  <2>1. CASE row'.lease = None
    BY <1>0, <2>1 DEF HolderKnows, KnowsRow
  <2>2. CASE RowStays
    <3>1. \A w \in Worker : KnowsRow(w)'
      BY <1>1, <1>2, <1>4, <2>2, HouseholdMoves DEF RowStays
    <3> QED BY <3>1 DEF HolderKnows
  <2> QED BY <1>4, <2>1, <2>2, HouseholdMoves DEF RowStays
<1>5. CASE Calm
  <2>1. \A w \in Worker : KnowsRow(w)'
    BY <1>0, <1>1, <1>5 DEF Calm, AllCarry
  <2> QED BY <2>1 DEF HolderKnows
<1>6. ASSUME NEW w \in Worker, ClaimMirror(w), worker' # worker PROVE HolderKnows'
  <2>1. KnowsRow(w)'
    BY <1>6, ClaimStarts DEF KnowsRow
  <2>2. ASSUME NEW v \in Worker, v # w PROVE KnowsRow(v)'
    BY <1>6, <2>2, ClaimStarts DEF KnowsRow, Mirroring
  <2> QED BY <2>1, <2>2 DEF HolderKnows
<1>7. ASSUME NEW w \in Worker, NEW c \in Conn, ClaimCleanup(w, c) PROVE HolderKnows'
  <2>1. KnowsRow(w)'
    BY <1>7, CleanupTakes DEF KnowsRow, Mirroring
  <2> QED BY <1>3, <1>7, <2>1, CleanupTakes
<1>8. ASSUME NEW w \in Worker, Read(w) PROVE HolderKnows'
  <2>1. UNCHANGED <<row, cal>> /\ worker[w].pc \in {"read", "reread"}
    BY <1>8 DEF Read, database
  <2>2. CASE AllCarry
    <3>1. \A v \in Worker : KnowsRow(v)'
      BY <1>1, <2>1, <2>2 DEF AllCarry
    <3> QED BY <3>1 DEF HolderKnows
  <2>3. CASE worker'[w].pc \in {"ask", "finish"}
    <3>1. ASSUME Mirroring(w)'
          PROVE  /\ Mirroring(w) /\ worker'[w].conn = row.conn /\ worker[w].known = row.known
                 /\ worker'[w].action = worker[w].action /\ worker[w].conn = row.conn
      <4>1. Mirroring(w)
        BY <1>8, <2>1, <3>1, ReadFinds DEF Mirroring, Further
      <4>2. worker[w].pc \in Writing
        BY <2>1 DEF Writing
      <4> QED BY <1>8, <4>1, <4>2, ReadFinds DEF HolderKnows, KnowsRow, Further
    <3>2. ASSUME Mirroring(w)', worker'[w].pc = "ask"
          PROVE  /\ worker'[w].known = row.known
                 /\ worker'[w].seen = "gone" => Gone(row.conn)'
      BY <1>8, <2>1, <3>1, <3>2, ReadFinds DEF Gone, Exists
    <3>3. ASSUME Mirroring(w)', worker'[w].pc = "finish", row.known PROVE Gone(row.conn)'
      BY <1>8, <2>1, <3>1, <3>3, ReadFinds DEF Gone, Exists
    <3>4. KnowsRow(w)'
      BY <2>1, <2>3, <3>1, <3>2, <3>3 DEF KnowsRow, Writing
    <3> QED BY <1>3, <1>8, <2>1, <3>4, ReadFinds
  <2> QED BY <1>8, <2>2, <2>3, ReadFinds
<1>9. ASSUME NEW w \in Worker, Send(w) PROVE HolderKnows'
  <2>1. /\ worker'[w].pc = "wait" /\ worker'[w].conn = worker[w].conn /\ worker'[w].job = worker[w].job
        /\ worker'[w].lease = worker[w].lease /\ worker'[w].known = worker[w].known
        /\ worker[w].pc = "ask" /\ UNCHANGED row
    BY <1>9, SendLeaves DEF RunState
  <2>2. KnowsRow(w)'
    BY <2>1 DEF HolderKnows, KnowsRow, Mirroring, Writing
  <2> QED BY <1>3, <1>9, <2>1, <2>2, SendLeaves
<1>10. ASSUME NEW w \in Worker, Finish(w) \/ Fail(w) PROVE HolderKnows'
  BY <1>5, <1>10, ClosedIsCalm
<1>11. ASSUME NEW f \in flight, Land(f) PROVE HolderKnows'
  <2>1. UNCHANGED row
    BY <1>11 DEF Land, database
  <2>2. ASSUME NEW w \in Worker PROVE KnowsRow(w)'
    <3>1. CASE Carries(worker[w], worker'[w])
      BY <1>1, <2>1, <3>1
    <3>2. CASE ~Carries(worker[w], worker'[w])
      <4>1. /\ worker[w].pc = "wait" /\ worker[w].lease = f.by /\ worker[w].conn = f.conn
            /\ Further(worker[w], worker'[w]) /\ worker'[w].pc \in {"finish", "fail", "reread"}
            /\ worker'[w].pc = "reread" => worker'[w].known = worker[w].known
            /\ worker'[w].pc = "finish" /\ worker[w].action = "delete" => ~Exists(f.conn)'
        BY <1>11, <3>2, LandTells
      <4>2. Mirroring(w)' => /\ Mirroring(w) /\ worker[w].conn = row.conn /\ worker[w].known = row.known
                             /\ worker'[w].conn = row.conn /\ worker'[w].action = worker[w].action
        BY <2>1, <4>1 DEF Mirroring, Further, HolderKnows, KnowsRow, Writing
      <4>3. worker'[w].pc = "finish" /\ worker[w].action = "delete" /\ worker[w].conn = row.conn
            => Gone(row.conn)'
        BY <2>1, <4>1 DEF Gone, Exists
      <4> QED BY <2>1, <4>1, <4>2, <4>3 DEF KnowsRow, Writing
    <3> QED BY <3>1, <3>2
  <2> QED BY <2>2 DEF HolderKnows
<1> QED BY <1>4, <1>5, <1>6, <1>7, <1>8, <1>9, <1>10, <1>11, StepKinds

\* Who was told of its write stays the last: its fence is free for nobody else.
LEMMA LastWordKept ==
  ASSUME IInv, Requests, LastWord, [Next]_vars
  PROVE  LastWord'
<1> USE DEF IInv
<1>0. ASSUME NEW w \in Worker, worker[w].pc = "finish", worker'[w].pc = "finish", worker[w].conn \in Conn,
             fence[worker[w].conn].state = "uncertain"
             \/ (fence[worker[w].conn].state = "inflight" /\ fence[worker[w].conn].lease = worker[w].lease)
      PROVE  fence'[worker[w].conn].state = "uncertain"
             \/ (fence'[worker[w].conn].state = "inflight" /\ fence'[worker[w].conn].lease = worker[w].lease)
  <2>1. worker[w].lease # None
    BY <1>0, MirrorAssumption DEF Seats
  <2>2. \A v \in Worker : worker[v].lease = worker[w].lease => v = w
    BY <2>1 DEF Seats
  <2> QED BY <1>0, <2>2, FenceMoves
<1>1. ASSUME NEW w \in Worker, Carries(worker[w], worker'[w]), ~Send(w),
             \A g \in flight' : g.conn = worker[w].conn => \E f \in flight : f.conn = g.conn
      PROVE  WroteLast(w)'
  <2> SUFFICES ASSUME worker'[w].pc = "finish", worker'[w].action = "upsert"
               PROVE  /\ \A g \in flight' : g.conn # worker'[w].conn
                      /\ fence'[worker'[w].conn].state = "uncertain"
                         \/ (fence'[worker'[w].conn].state = "inflight"
                             /\ fence'[worker'[w].conn].lease = worker'[w].lease)
    BY DEF WroteLast
  <2>1. /\ worker[w].pc = "finish" /\ worker[w].action = "upsert"
        /\ worker'[w].conn = worker[w].conn /\ worker'[w].lease = worker[w].lease
    BY <1>1 DEF Carries
  <2>2. worker[w].conn \in Conn /\ WroteLast(w)
    BY <2>1 DEF Seats, LastWord
  <2>3. \A g \in flight' : g.conn # worker[w].conn
    BY <1>1, <2>1, <2>2 DEF WroteLast
  <2> QED BY <1>0, <2>1, <2>2, <2>3 DEF WroteLast
<1>2. \A w \in Worker : Carries(worker[w], worker[w])
  BY Carried DEF TypeOK
<1>3. ASSUME AllCarry, Remain(flight), \A w \in Worker : ~Send(w) PROVE LastWord'
  <2>1. \A w \in Worker : WroteLast(w)'
    BY <1>1, <1>3 DEF AllCarry, Remain
  <2> QED BY <2>1 DEF LastWord
<1>4. ASSUME NEW w \in Worker, \A v \in Worker : v # w => worker'[v] = worker[v], UNCHANGED flight,
             worker'[w].pc = "finish" => worker'[w].action # "upsert", \A v \in Worker : ~Send(v)
      PROVE  LastWord'
  <2>1. WroteLast(w)'
    BY <1>4 DEF WroteLast
  <2>2. ASSUME NEW v \in Worker, v # w PROVE WroteLast(v)'
    BY <1>1, <1>2, <1>4, <2>2
  <2> QED BY <2>1, <2>2 DEF LastWord
<1>5. ASSUME NEW w \in Worker, Send(w) PROVE LastWord'
  <2>1. /\ worker'[w].pc = "wait" /\ \A v \in Worker : v # w => worker'[v] = worker[v]
        /\ worker[w].pc = "ask" /\ worker[w].lease \in Lease /\ worker[w].conn \in Conn
        /\ flight' = flight \cup {Sent(worker[w])} /\ Sent(worker[w]).conn = worker[w].conn
    BY <1>5, SendLeaves, SentTyped DEF RunState
  <2>2. ASSUME NEW v \in Worker, v # w PROVE WroteLast(v)'
    <3>1. CASE worker[v].conn = worker[w].conn
      <4>1. worker[v].lease # worker[w].lease
        BY <2>1, <2>2, MirrorAssumption DEF Seats
      <4>2. ~(worker[v].pc = "finish" /\ worker[v].action = "upsert")
        BY <1>5, <3>1, <4>1, LeaveIsFree DEF LastWord, WroteLast
      <4> QED BY <2>1, <2>2, <4>2 DEF WroteLast
    <3>2. CASE worker[v].conn # worker[w].conn
      <4>1. ~Send(v)
        <5>1. ASSUME Send(v) PROVE FALSE
          <6>1. worker'[v].pc = "wait" /\ worker[v].pc = "ask"
            BY <5>1, SendLeaves DEF RunState
          <6> QED BY <2>1, <2>2, <6>1
        <5> QED BY <5>1
      <4> QED BY <1>1, <1>2, <2>1, <2>2, <3>2, <4>1
    <3> QED BY <3>1, <3>2
  <2> QED BY <2>1, <2>2 DEF LastWord, WroteLast
<1>6. CASE ~\E w \in Worker : Send(w)
  <2>1. CASE Household
    BY <1>2, <1>3, <1>6, <2>1, HouseholdMoves DEF AllCarry, Remain
  <2>2. CASE Calm
    BY <1>3, <1>6, <2>2 DEF Calm
  <2>3. ASSUME NEW w \in Worker, ClaimMirror(w), worker' # worker PROVE LastWord'
    BY <1>4, <1>6, <2>3, ClaimStarts
  <2>4. ASSUME NEW w \in Worker, NEW c \in Conn, ClaimCleanup(w, c) PROVE LastWord'
    BY <1>4, <1>6, <2>4, CleanupTakes
  <2>5. ASSUME NEW w \in Worker, Read(w) PROVE LastWord'
    <3>1. UNCHANGED flight
      BY <2>5 DEF Read
    <3> QED BY <1>4, <1>6, <2>5, <3>1, ReadFinds DEF Further
  <2>6. ASSUME NEW w \in Worker, Finish(w) \/ Fail(w) PROVE LastWord'
    BY <2>2, <2>6, ClosedIsCalm
  <2>7. ASSUME NEW f \in flight, Land(f) PROVE LastWord'
    <3>1. Remain(flight \ {f})
      BY <2>7, LandMoves, ThinnedRemain
    <3>2. \A g \in flight' : g.conn # f.conn /\ \E h \in flight : h.conn = g.conn
      BY <3>1 DEF Remain, OneRequestAtATime
    <3>3. ASSUME NEW w \in Worker PROVE WroteLast(w)'
      <4>1. CASE Carries(worker[w], worker'[w])
        BY <1>1, <1>6, <3>2, <4>1
      <4>2. CASE ~Carries(worker[w], worker'[w])
        <5>1. /\ worker[w].lease = f.by /\ worker[w].conn = f.conn
              /\ worker'[w].lease = f.by /\ worker'[w].conn = f.conn
          BY <2>7, <4>2, LandTells DEF Further
        <5>2. UNCHANGED fence
          BY <2>7 DEF Land, database
        <5> QED BY <3>2, <5>1, <5>2 DEF Fenced, WroteLast
      <4> QED BY <4>1, <4>2
    <3> QED BY <3>3 DEF LastWord
  <2> QED BY <1>6, <2>1, <2>2, <2>3, <2>4, <2>5, <2>6, <2>7, StepKinds
<1> QED BY <1>5, <1>6

(* While the family decides nothing and nobody is told, who is to write writes what is
   wanted. *)
LEMMA WantedStays ==
  ASSUME TypeOK, NEW w \in Worker, WritesWhatIsWanted(w), Carries(worker[w], worker'[w]),
         Mirroring(w)' => row'.lease = row.lease,
         task'.want = "hidden" => task.want = "hidden",
         Mirroring(w)' /\ Current' =>
           \/ task.want = "hidden"
           \/ /\ Current /\ UNCHANGED <<task, target>>
              /\ NoDeletion(target) => NoDeletion(target)'
              /\ worker[w].pc = "finish" /\ Upserting(w) => cal'[target].ver = cal[target].ver
  PROVE  WritesWhatIsWanted(w)'
<1> SUFFICES ASSUME Upserting(w)'
             PROVE  /\ task'.want # "hidden"
                    /\ Current' =>
                         /\ task'.want = "shown"
                         /\ worker'[w].pc \in Writing => worker'[w].ver = task'.ver
                         /\ worker'[w].pc \in {"wait", "finish"} => NoDeletion(target)'
                         /\ worker'[w].pc = "finish" => cal'[target'].ver = task'.ver
  BY DEF WritesWhatIsWanted
<1>1. /\ Upserting(w) /\ Mirroring(w)'
      /\ worker'[w].pc \in Writing => worker[w].pc \in Writing /\ worker'[w].ver = worker[w].ver
      /\ worker'[w].pc \in {"wait", "finish"} => worker[w].pc = worker'[w].pc
  BY DEF Upserting, Mirroring, Carries
<1>2. task'.want # "hidden" /\ task.want # "hidden"
  BY <1>1 DEF WritesWhatIsWanted
<1>3. ASSUME Current'
      PROVE  /\ Current /\ UNCHANGED <<task, target>>
             /\ NoDeletion(target) => NoDeletion(target)'
             /\ worker[w].pc = "finish" => cal'[target].ver = cal[target].ver
  BY <1>1, <1>2, <1>3
<1> QED BY <1>1, <1>2, <1>3 DEF WritesWhatIsWanted

(* Every step leaves what is to be written what the family wants. *)
LEMMA WantedKept ==
  ASSUME IInv, IInv', Requests, HolderKnows, LastWord, UpsertsAreWanted, [Next]_vars
  PROVE  UpsertsAreWanted'
<1> USE DEF IInv
<1>0. ASSUME NEW w \in Worker, Mirroring(w)' PROVE row'.lease # None
  BY <1>0, MirrorAssumption DEF Mirroring, Seats
<1>1. \A w \in Worker : Carries(worker[w], worker[w])
  BY Carried DEF TypeOK
<1>2. Current => target \in Conn /\ row.conn = target
  BY DEF Current, Usable
<1>3. ASSUME NEW w \in Worker, Carries(worker[w], worker'[w]), UNCHANGED <<task, row, target, conn>>,
             \A c \in Conn : NoDeletion(c) => NoDeletion(c)',
             worker[w].pc = "finish" /\ Upserting(w) /\ Current => cal'[target].ver = cal[target].ver
      PROVE  WritesWhatIsWanted(w)'
  <2>1. Current' => Current
    BY <1>3 DEF Current, Usable
  <2>2. Current => (NoDeletion(target) => NoDeletion(target)')
    BY <1>2, <1>3 DEF NoDeletion
  <2> QED BY <1>3, <2>1, <2>2, WantedStays DEF UpsertsAreWanted
<1>4. CASE Household
  <2>1. CASE row'.lease = None
    BY <1>0, <2>1 DEF UpsertsAreWanted, WritesWhatIsWanted, Upserting
  <2>2. CASE /\ RowStays
             /\ task'.want = "hidden" => task.want = "hidden"
             /\ Current' => \/ task.want = "hidden"
                            \/ Current /\ UNCHANGED <<task, target, cleanup>>
    <3>1. UNCHANGED <<worker, cal>>
      BY <1>4, HouseholdMoves
    <3>2. ASSUME NEW w \in Worker PROVE WritesWhatIsWanted(w)'
      <4>1. WritesWhatIsWanted(w) /\ Carries(worker[w], worker'[w])
        BY <1>1, <3>1 DEF UpsertsAreWanted
      <4> QED BY <2>2, <3>1, <4>1, WantedStays DEF NoDeletion, RowStays
    <3> QED BY <3>2 DEF UpsertsAreWanted
  <2> QED BY <1>4, <2>1, <2>2, HouseholdMoves
<1>5. CASE Calm
  <2>1. ASSUME NEW w \in Worker PROVE WritesWhatIsWanted(w)'
    <3>1. WritesWhatIsWanted(w) /\ Carries(worker[w], worker'[w])
      BY <1>5 DEF UpsertsAreWanted, Calm, AllCarry
    <3>2. Current' => (NoDeletion(target) => NoDeletion(target)')
      BY <1>2, <1>5 DEF Calm, NoDeletion
    <3> QED BY <1>0, <1>5, <3>1, <3>2, WantedStays DEF Calm
  <2> QED BY <2>1 DEF UpsertsAreWanted
<1>6. ASSUME NEW w \in Worker, ClaimMirror(w), worker' # worker PROVE UpsertsAreWanted'
  <2>1. WritesWhatIsWanted(w)'
    BY <1>6, ClaimStarts DEF WritesWhatIsWanted, Upserting
  <2>2. ASSUME NEW v \in Worker, v # w PROVE WritesWhatIsWanted(v)'
    BY <1>6, <2>2, ClaimStarts DEF WritesWhatIsWanted, Upserting, Mirroring
  <2> QED BY <2>1, <2>2 DEF UpsertsAreWanted
<1>7. ASSUME NEW w \in Worker, NEW c \in Conn, ClaimCleanup(w, c) PROVE UpsertsAreWanted'
  <2>1. WritesWhatIsWanted(w)'
    BY <1>7, CleanupTakes DEF WritesWhatIsWanted, Upserting
  <2>2. ASSUME NEW v \in Worker, v # w PROVE WritesWhatIsWanted(v)'
    BY <1>1, <1>3, <1>7, <2>2, CleanupTakes
  <2> QED BY <2>1, <2>2 DEF UpsertsAreWanted
<1>8. ASSUME NEW w \in Worker, Read(w) PROVE UpsertsAreWanted'
  <2>1. UNCHANGED <<task, row, target, conn, cleanup, cal>> /\ worker[w].pc \in Writing
    BY <1>8 DEF Read, database, Writing
  <2>2. \A c \in Conn : NoDeletion(c) => NoDeletion(c)'
    BY <2>1 DEF NoDeletion
  <2>3. ASSUME NEW v \in Worker, Carries(worker[v], worker'[v]) PROVE WritesWhatIsWanted(v)'
    BY <1>3, <2>1, <2>2, <2>3
  <2>4. CASE AllCarry
    BY <2>3, <2>4 DEF AllCarry, UpsertsAreWanted
  <2>5. CASE worker'[w].pc \in {"ask", "finish"}
    <3>1. ASSUME Upserting(w)' PROVE Upserting(w) /\ worker'[w].pc = "ask" /\ worker'[w].ver = worker[w].ver
      BY <1>8, <2>1, <2>5, <3>1, ReadFinds DEF Upserting, Mirroring, Further, Writing
    <3>2. WritesWhatIsWanted(w)'
      BY <2>1, <3>1 DEF UpsertsAreWanted, WritesWhatIsWanted, Current, Usable
    <3>3. ASSUME NEW v \in Worker, v # w PROVE WritesWhatIsWanted(v)'
      BY <1>1, <1>8, <2>3, <3>3, ReadFinds
    <3> QED BY <3>2, <3>3 DEF UpsertsAreWanted
  <2> QED BY <1>8, <2>4, <2>5, ReadFinds
<1>9. ASSUME NEW w \in Worker, Send(w) PROVE UpsertsAreWanted'
  <2>1. /\ worker'[w].pc = "wait" /\ worker'[w].conn = worker[w].conn /\ worker'[w].job = worker[w].job
        /\ worker'[w].lease = worker[w].lease /\ worker'[w].ver = worker[w].ver
        /\ worker'[w].action = worker[w].action /\ worker[w].pc = "ask"
        /\ \A v \in Worker : v # w => worker'[v] = worker[v]
        /\ UNCHANGED <<task, row, cleanup, conn, target, cal>>
    BY <1>9, SendLeaves DEF RunState
  <2>2. ASSUME Upserting(w)' PROVE Upserting(w) /\ NoDeletion(row.conn)
    <3>1. Upserting(w) /\ worker[w].job = "mirror"
      BY <2>1, <2>2 DEF Upserting, Mirroring
    <3>2. worker[w].conn = row.conn
      BY <3>1 DEF HolderKnows, KnowsRow, Upserting
    <3> QED BY <1>9, <3>1, <3>2, SendLeaves
  <2>3. WritesWhatIsWanted(w)'
    BY <2>1, <2>2 DEF UpsertsAreWanted, WritesWhatIsWanted, Current, Usable, Writing, NoDeletion
  <2>4. \A c \in Conn : NoDeletion(c) => NoDeletion(c)'
    BY <2>1 DEF NoDeletion
  <2>5. ASSUME NEW v \in Worker, v # w PROVE WritesWhatIsWanted(v)'
    BY <1>1, <1>3, <2>1, <2>4, <2>5
  <2> QED BY <2>3, <2>5 DEF UpsertsAreWanted
<1>10. ASSUME NEW w \in Worker, Finish(w) \/ Fail(w) PROVE UpsertsAreWanted'
  BY <1>5, <1>10, ClosedIsCalm
<1>11. ASSUME NEW f \in flight, Land(f) PROVE UpsertsAreWanted'
  <2>1. UNCHANGED <<task, row, target, conn, cleanup>>
    BY <1>11 DEF Land, database
  <2>2. \A c \in Conn : NoDeletion(c) => NoDeletion(c)'
    BY <2>1 DEF NoDeletion
  <2>3. ASSUME NEW w \in Worker PROVE WritesWhatIsWanted(w)'
    <3>1. CASE Carries(worker[w], worker'[w])
      <4>1. ASSUME worker[w].pc = "finish", Upserting(w), Current PROVE cal'[target].ver = cal[target].ver
        <5>1. worker[w].conn = target /\ target \in Conn
          BY <1>2, <4>1 DEF HolderKnows, KnowsRow, Upserting
        <5>2. f.conn # target
          BY <4>1, <5>1 DEF LastWord, WroteLast, Upserting
        <5> QED BY <1>11, <5>1, <5>2 DEF Land, TypeOK
      <4> QED BY <1>3, <2>1, <2>2, <3>1, <4>1
    <3>2. CASE ~Carries(worker[w], worker'[w])
      <4>1. /\ worker[w].pc = "wait" /\ worker[w].conn = f.conn
            /\ Further(worker[w], worker'[w]) /\ worker'[w].pc \in {"finish", "fail", "reread"}
            /\ worker'[w].pc = "finish" /\ worker[w].action = "upsert" =>
                 cal'[f.conn].ver = worker[w].ver
        BY <1>11, <3>2, LandTells
      <4>2. ASSUME Upserting(w)'
            PROVE  Upserting(w) /\ worker[w].conn = row.conn /\ worker[w].action = "upsert"
        BY <2>1, <4>1, <4>2 DEF Upserting, Mirroring, Further, HolderKnows, KnowsRow
      <4>3. worker'[w].pc \in Writing => worker'[w].ver = worker[w].ver
        BY <4>1 DEF Further
      <4>4. ASSUME Upserting(w)', Current'
            PROVE  /\ task.want = "shown" /\ worker[w].ver = task.ver /\ NoDeletion(target)
                   /\ target = f.conn
        <5>1. Current
          BY <2>1, <4>4 DEF Current, Usable
        <5> QED BY <4>1, <4>2, <4>4, <5>1 DEF UpsertsAreWanted, WritesWhatIsWanted, Current, Writing
      <4>5. task.want # "hidden" \/ ~Upserting(w)'
        BY <4>2 DEF UpsertsAreWanted, WritesWhatIsWanted
      <4> QED BY <2>1, <4>1, <4>2, <4>3, <4>4, <4>5 DEF WritesWhatIsWanted, NoDeletion
    <3> QED BY <3>1, <3>2
  <2> QED BY <2>3 DEF UpsertsAreWanted
<1> QED BY <1>4, <1>5, <1>6, <1>7, <1>8, <1>9, <1>10, <1>11, StepKinds

\* A row that said so before and is still of the family's calendar says the truth.
LEMMA SettledStays ==
  ASSUME TypeOK, Seats, Fenced, Requests, Settled, [Next]_vars, Keeps, row'.conn = row.conn,
         task'.want = "hidden" => task.want = "hidden",
         row.state = "synced" /\ Current' =>
           \/ task.want = "hidden"
           \/ /\ Current /\ UNCHANGED <<task, target>>
              /\ NoDeletion(target) => NoDeletion(target)'
              /\ (\A f \in flight : f.conn # target) =>
                   cal'[target].ver = cal[target].ver /\ \A f \in flight' : f.conn # target
  PROVE  Settled'
<1>1. row'.state = "synced" => row.state = "synced" /\ task'.want # "hidden" /\ task.want # "hidden"
  BY DEF Keeps, Settled
<1>2. ASSUME row'.state = "synced", Current'
      PROVE  /\ task'.want = "shown" /\ cal'[target'].ver = task'.ver
             /\ NoDeletion(target)'
             /\ \A f \in flight' : f.conn # target'
  BY <1>1, <1>2 DEF Settled
<1>3. ASSUME row'.state = "deleted", row'.known PROVE Gone(row.conn)'
  <2>1. row.state = "deleted" /\ Gone(row.conn)
    BY <1>3 DEF Keeps, Settled
  <2>2. row.conn \in Conn /\ row.lease = None
    BY <2>1 DEF Seats, TypeOK, Held
  <2>3. \A f \in flight : f.by # row.lease
    BY <2>2, Numbers, MirrorAssumption
  <2>4. ASSUME NEW c \in Conn, c = row.conn PROVE Gone(c)'
    BY <2>1, <2>3, <2>4, GoneKept
  <2> QED BY <2>2, <2>4 DEF Gone, Exists, Stuck
<1> QED BY <1>1, <1>2, <1>3 DEF Settled

(* Every step leaves settled rows true. *)
LEMMA SettledKept ==
  ASSUME IInv, Truth, [Next]_vars
  PROVE  Settled'
<1> USE DEF IInv, Truth
<1>1. Current => target \in Conn /\ row.conn = target
  BY DEF Current, Usable
<1>2. ASSUME UNCHANGED <<task, row, target, conn>>, \A c \in Conn : NoDeletion(c) => NoDeletion(c)',
             row.state = "synced" /\ Current /\ (\A f \in flight : f.conn # target) =>
               cal'[target].ver = cal[target].ver /\ \A f \in flight' : f.conn # target
      PROVE  Settled'
  <2>1. Current' => Current
    BY <1>2 DEF Current, Usable
  <2>2. Current => (NoDeletion(target) => NoDeletion(target)')
    BY <1>1, <1>2 DEF NoDeletion
  <2>3. Keeps /\ row'.conn = row.conn
    BY <1>2 DEF Keeps
  <2> QED BY <1>2, <2>1, <2>2, <2>3, SettledStays
<1>3. CASE Household
  <2>1. CASE row'.state \notin {"synced", "deleted"}
    BY <2>1 DEF Settled
  <2>2. CASE /\ RowStays
             /\ task'.want = "hidden" => task.want = "hidden"
             /\ Current' => \/ task.want = "hidden"
                            \/ Current /\ UNCHANGED <<task, target, cleanup>>
    <3>1. UNCHANGED <<cal, flight>> /\ Keeps /\ row'.conn = row.conn
      BY <1>3, <2>2, HouseholdMoves DEF Keeps, RowStays
    <3> QED BY <2>2, <3>1, SettledStays DEF NoDeletion
  <2> QED BY <1>3, <2>1, <2>2, HouseholdMoves
<1>4. CASE Calm /\ Keeps
  <2>1. Current' => (NoDeletion(target) => NoDeletion(target)')
    BY <1>1, <1>4 DEF Calm, NoDeletion
  <2>2. (\A f \in flight : f.conn # target) => \A f \in flight' : f.conn # target
    BY <1>4 DEF Calm, Remain
  <2> QED BY <1>4, <2>1, <2>2, SettledStays DEF Calm
<1>5. ASSUME NEW w \in Worker, ClaimMirror(w), worker' # worker PROVE Settled'
  BY <1>5, ClaimStarts DEF Settled
<1>6. ASSUME NEW w \in Worker, NEW c \in Conn, ClaimCleanup(w, c) PROVE Settled'
  BY <1>2, <1>6, CleanupTakes
<1>7. ASSUME NEW w \in Worker, Read(w) PROVE Settled'
  BY <1>2, <1>7 DEF Read, database, NoDeletion
<1>8. ASSUME NEW w \in Worker, Send(w) PROVE Settled'
  <2>1. /\ UNCHANGED <<task, row, cleanup, conn, target, cal>>
        /\ flight' = flight \cup {Sent(worker[w])} /\ Sent(worker[w]).conn = worker[w].conn
    BY <1>8, SendLeaves, SentTyped
  <2>2. ASSUME row.state = "synced", Current PROVE worker[w].conn # target
    <3>1. ~NoDeletion(worker[w].conn)
      BY <1>8, <2>2, SendLeaves
    <3> QED BY <2>2, <3>1 DEF Settled
  <2>3. \A c \in Conn : NoDeletion(c) => NoDeletion(c)'
    BY <2>1 DEF NoDeletion
  <2> QED BY <1>2, <2>1, <2>2, <2>3
<1>9. ASSUME NEW w \in Worker, Finish(w) \/ Fail(w) PROVE Settled'
  <2>1. CASE Keeps
    BY <1>4, <1>9, <2>1, ClosedIsCalm
  <2>2. CASE ~Keeps
    <3>1. /\ worker[w].pc = "finish" /\ Mirroring(w)
          /\ row'.state = IF worker[w].action = "delete" THEN "deleted" ELSE "synced"
          /\ worker[w].action = "delete" => row'.known = row.known
          /\ UNCHANGED <<cleanup, target, conn, flight, task, cal>> /\ row'.conn = row.conn
          /\ Current' => Current
      BY <1>9, <2>2, ClosedIsCalm DEF Calm
    <3>2. worker[w].conn = row.conn /\ row.conn \in Conn /\ worker[w].action \in {"upsert", "delete"}
      BY <3>1 DEF HolderKnows, KnowsRow, Mirroring, Seats, TypeOK, RunState
    <3>3. CASE worker[w].action = "upsert"
      <4>1. Upserting(w) /\ row'.state = "synced"
        BY <3>1, <3>3 DEF Upserting
      <4>2. task'.want # "hidden"
        BY <3>1, <4>1 DEF UpsertsAreWanted, WritesWhatIsWanted
      <4>3. ASSUME Current'
            PROVE  /\ task'.want = "shown" /\ cal'[target'].ver = task'.ver
                   /\ NoDeletion(target)' /\ \A f \in flight' : f.conn # target'
        <5>1. Current /\ row.conn = target
          BY <3>1, <4>3 DEF Current
        <5>2. task.want = "shown" /\ cal[target].ver = task.ver /\ NoDeletion(target)
          BY <3>1, <4>1, <5>1 DEF UpsertsAreWanted, WritesWhatIsWanted
        <5>3. \A f \in flight : f.conn # target
          BY <3>1, <3>2, <3>3, <5>1 DEF LastWord, WroteLast
        <5> QED BY <3>1, <5>2, <5>3 DEF NoDeletion
      <4> QED BY <4>1, <4>2, <4>3 DEF Settled
    <3>4. CASE worker[w].action = "delete"
      <4>1. row'.state = "deleted" /\ row'.known = row.known
        BY <3>1, <3>4
      <4>2. ASSUME row.known PROVE Gone(row.conn)'
        <5>1. Gone(row.conn)
          BY <3>1, <3>4, <4>2 DEF HolderKnows, KnowsRow
        <5>2. \A f \in flight : f.by # row.lease
          BY <3>1 DEF Fenced, Mirroring
        <5>3. ASSUME NEW c \in Conn, c = row.conn PROVE Gone(c)'
          BY <5>1, <5>2, <5>3, GoneKept
        <5> QED BY <3>1, <3>2, <5>3 DEF Gone, Exists, Stuck
      <4> QED BY <4>1, <4>2 DEF Settled
    <3> QED BY <3>2, <3>3, <3>4
  <2> QED BY <2>1, <2>2
<1>10. ASSUME NEW f \in flight, Land(f) PROVE Settled'
  <2>1. UNCHANGED <<task, row, target, conn, cleanup>>
    BY <1>10 DEF Land, database
  <2>2. \A c \in Conn : NoDeletion(c) => NoDeletion(c)'
    BY <2>1 DEF NoDeletion
  <2>3. Remain(flight \ {f})
    BY <1>10, LandMoves, ThinnedRemain
  <2>4. ASSUME Current, \A g \in flight : g.conn # target
        PROVE  cal'[target].ver = cal[target].ver /\ \A g \in flight' : g.conn # target
    BY <1>1, <1>10, <2>3, <2>4 DEF Land, TypeOK, Remain
  <2> QED BY <1>2, <2>1, <2>2, <2>4
<1> QED BY <1>3, <1>4, <1>5, <1>6, <1>7, <1>8, <1>9, <1>10, StepKinds

(* At the start nothing is under way and nothing settled. *)
LEMMA InitTruth ==
  ASSUME Init
  PROVE  Truth
<1>1. Requests
  BY DEF Init, Requests, NoRow
<1>2. HolderKnows /\ LastWord /\ UpsertsAreWanted
  BY DEF Init, HolderKnows, KnowsRow, LastWord, WroteLast, UpsertsAreWanted, WritesWhatIsWanted, Upserting,
         Mirroring, Idle
<1>3. Settled
  BY DEF Init, Settled, NoRow
<1> QED BY <1>1, <1>2, <1>3 DEF Truth

(* Settled rows tell the truth: a row of the family's calendar, when that can be written
   to, is "synced" only while the task is to be shown and Google shows its newest
   content, unless a reconciliation left the task out, its day being past or too far off,
   since the row was last queued; and "deleted" of an event it knows only when the event
   is gone or a write of unknown outcome is open. *)
THEOREM SettledRowsAreTrue == Spec => []SyncedMeansMirrored
<1>1. Init => Truth
  BY InitTruth
<1>2. IInv /\ IInv' /\ Truth /\ [Next]_vars => Truth'
  BY RequestsKept, HolderKnowsKept, LastWordKept, WantedKept, SettledKept DEF Truth
<1>3. Truth => SyncedMeansMirrored
  BY DEF Truth, Settled, SyncedMeansMirrored, Current, Gone, Stuck
<1> QED BY <1>1, <1>2, <1>3, Inductive, PTL DEF Spec
=============================================================================
