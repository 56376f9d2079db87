----------------------------- MODULE LineInbox -----------------------------
(***************************************************************************)
(* The LINE inbox: private.webhook_inbox and the runs of process-line-     *)
(* inbox that drain it.  A run claims a batch (at most one event of each   *)
(* sender), handles the events of the batch one after another and closes   *)
(* each with the lease token it was given.  Events are numbered by the     *)
(* provider's timestamp; they may be delivered in any order.               *)
(*                                                                         *)
(* What a handler does is the business of the module that extends this     *)
(* one: `plan' is the sequence of server calls the handler has still to    *)
(* make.  Between two of them the run may die (Crash) or lose its lease    *)
(* to another run and go on all the same (LeaseLapses): the lease is       *)
(* never looked at again before the event is closed.                       *)
(***************************************************************************)
EXTENDS Integers, FiniteSets, Sequences, SequencesExt

CONSTANTS
  Sender,       \* LINE users linked to a member of the household
  Event,        \* webhook events, numbered by the provider's timestamp
  Run,          \* overlapping invocations of process-line-inbox
  MaxAttempts,  \* MAX_ATTEMPTS: attempts after which a failed event is dead
  Stories       \* what may happen, one of these throughout (see Story)

ASSUME EventAssumption == Event \subseteq Nat \ {0} /\ IsFiniteSet(Event)
ASSUME InboxBounds == MaxAttempts \in Nat \ {0}

\* What one behaviour is about, so that each is explored on its own: what the
\* users may write and tap event by event and who does, whose the tasks and
\* items are at first, how often the app and the other
\* screens are used, how much goes wrong (crashes, exceptions, lost answers
\* and late runs together), whether a run may go on after its lease is over,
\* and whether rows may pass their time.
Story(Words, Owners) ==
  [says : [Event -> SUBSET Words], by : [Event -> SUBSET Sender], owner : Owners, app : Nat, household : Nat, trouble : Nat,
   late : BOOLEAN, overdue : BOOLEAN]

VARIABLES
  message,  \* what each event says, once it is sent
  inbox,    \* private.webhook_inbox
  run,      \* the runs
  story,    \* the story
  left      \* bounds: what is left of the story's trouble and uses

inboxVars == <<message, inbox, run, story, left>>

InboxStatus == {"absent", "received", "processing", "done", "dead"}
Row         == [status : InboxStatus, attempts : Nat, lapsed : BOOLEAN, wait : BOOLEAN]
NoRow       == [status |-> "absent", attempts |-> 0, lapsed |-> FALSE, wait |-> FALSE]
Idle        == [queue |-> <<>>, pc |-> "idle", plan |-> <<>>]

\* Nothing has been said yet.
NotSent == [word |-> "", from |-> "nobody"]

InboxInit ==
  /\ message = [e \in Event |-> NotSent]
  /\ inbox = [e \in Event |-> NoRow]
  /\ run = [w \in Run |-> Idle]
  /\ story \in Stories
  /\ left = [k \in {"trouble", "app", "household"} |-> story[k]]

\* One of the story's uses is spent.
Spend(k) == left[k] > 0 /\ left' = [left EXCEPT ![k] = @ - 1]

Sent(e) == message[e] # NotSent
From(e) == message[e].from

\* A user writes or taps: the events of all users are numbered as they happen.
Send(e, content) ==
  /\ ~Sent(e)
  /\ \A f \in Event : f < e => Sent(f)
  /\ message' = [message EXCEPT ![e] = content]

\* line-webhook-receiver stores the event; a redelivery of a stored event
\* changes nothing (the provider event id is unique).
Receive(e) ==
  /\ Sent(e) /\ inbox[e].status = "absent"
  /\ inbox' = [inbox EXCEPT ![e].status = "received"]
  /\ UNCHANGED <<message, run, story, left>>

Live(e) == inbox[e].status = "processing" /\ ~inbox[e].lapsed

\* Mutant: an event whose run died is not taken again.
ClaimableOnce(e) ==
  /\ inbox[e].status = "received" /\ ~inbox[e].wait
  /\ \A f \in Event \ {e} : From(f) = From(e) => ~Live(f)

Claimable(e) ==
  /\ \/ inbox[e].status = "received" /\ ~inbox[e].wait
     \/ inbox[e].status = "processing" /\ inbox[e].lapsed
  /\ \A f \in Event \ {e} : From(f) = From(e) => ~Live(f)

\* The first claimable event of every sender.
Batch == {e \in Event : Claimable(e) /\ \A f \in Event : f < e /\ Claimable(f) => From(f) # From(e)}

\* The batch is handled in order of attempts, those of equal attempts in any
\* order.  The lease token is new at every claim, as the attempt number is.
Orders(S) == {order \in [1 .. Cardinality(S) -> S] :
                /\ IsInjective(order)
                /\ \A i, j \in DOMAIN order : i < j => inbox[order[i]].attempts <= inbox[order[j]].attempts}

ClaimBatch(w) ==
  /\ run[w].pc = "idle" /\ Batch # {}
  /\ inbox' = [e \in Event |-> IF e \in Batch
                               THEN [inbox[e] EXCEPT !.status = "processing", !.lapsed = FALSE, !.wait = FALSE,
                                                     !.attempts = @ + 1]
                               ELSE inbox[e]]
  /\ \E order \in Orders(Batch) :
       run' = [run EXCEPT ![w] = [queue |-> [i \in DOMAIN order |-> [event |-> order[i],
                                                                     token |-> inbox[order[i]].attempts + 1]],
                                  pc |-> "read", plan |-> <<>>]]
  /\ UNCHANGED <<message, story, left>>

Item(w)  == Head(run[w].queue)
Holds(w) == inbox[Item(w).event].status = "processing" /\ inbox[Item(w).event].attempts = Item(w).token

\* Mutant: the loop over the batch does not end.
NextItemAlways(w) == [queue |-> Tail(run[w].queue), pc |-> "read", plan |-> <<>>]

\* The run goes on with the next event of its batch, or ends.
NextItem(w) == IF Len(run[w].queue) = 1 THEN Idle
            ELSE [queue |-> Tail(run[w].queue), pc |-> "read", plan |-> <<>>]

\* server_tx_complete_webhook_inbox_item: only with the token of the claim.
Complete(w) ==
  /\ run[w].pc = "calls" /\ run[w].plan = <<>>
  /\ inbox' = IF Holds(w) THEN [inbox EXCEPT ![Item(w).event] = [@ EXCEPT !.status = "done", !.lapsed = FALSE]]
              ELSE inbox
  /\ run' = [run EXCEPT ![w] = NextItem(w)]
  /\ UNCHANGED <<message, story, left>>

\* server_tx_fail_webhook_inbox_item, after an exception in the handler.
Fail(w) ==
  /\ run[w].pc = "failing"
  /\ LET e == Item(w).event
         last == inbox[e].attempts >= MaxAttempts
     IN  inbox' = IF Holds(w)
                  THEN [inbox EXCEPT ![e] = [@ EXCEPT !.status = IF last THEN "dead" ELSE "received",
                                                      !.lapsed = FALSE, !.wait = ~last]]
                  ELSE inbox
  /\ run' = [run EXCEPT ![w] = NextItem(w)]
  /\ UNCHANGED <<message, story, left>>

\* An exception that is not a rejected call: a rejected call is logged and
\* the handler returns.
Throw(w) ==
  /\ run[w].pc = "calls" /\ Spend("trouble")
  /\ run' = [run EXCEPT ![w].pc = "failing"]
  /\ UNCHANGED <<message, inbox, story>>

\* The function is killed; its lease runs out some time later.
Crash(w) ==
  /\ run[w].pc # "idle" /\ Spend("trouble")
  /\ run' = [run EXCEPT ![w] = Idle]
  /\ UNCHANGED <<message, inbox, story>>

\* Some run still works on e under its present lease.
Held(e) == \E w \in Run : \E i \in DOMAIN run[w].queue :
             run[w].queue[i].event = e /\ run[w].queue[i].token = inbox[e].attempts

\* LEASE_SECONDS pass.  While the run still works this is trouble: the
\* batch or the language model took longer than the lease.
LeaseLapses(e) ==
  /\ Live(e)
  /\ inbox' = [inbox EXCEPT ![e].lapsed = TRUE]
  /\ IF Held(e) THEN story.late /\ Spend("trouble") ELSE UNCHANGED left
  /\ UNCHANGED <<message, run, story>>

\* next_attempt_at comes.
RetryDue(e) ==
  /\ inbox[e].status = "received" /\ inbox[e].wait
  /\ inbox' = [inbox EXCEPT ![e].wait = FALSE]
  /\ UNCHANGED <<message, run, story, left>>

InboxStep ==
  \/ \E e \in Event : Receive(e) \/ LeaseLapses(e) \/ RetryDue(e)
  \/ \E w \in Run : ClaimBatch(w) \/ Complete(w) \/ Fail(w) \/ Throw(w) \/ Crash(w)

\* Redelivery, next_attempt_at and the end of a dead run's lease come.
InboxClock == \E e \in Event : Receive(e) \/ RetryDue(e) \/ (~Held(e) /\ LeaseLapses(e))

InboxTypeOK ==
  /\ inbox \in [Event -> Row]
  /\ \A w \in Run : run[w].pc \in {"idle", "read", "fallback", "calls", "failing"} /\ (run[w].pc = "idle") = (run[w].queue = <<>>)
  /\ \A k \in DOMAIN left : left[k] \in 0 .. story[k]

-----------------------------------------------------------------------------
(***************************************************************************)
(* Properties                                                              *)
(***************************************************************************)

\* Every event sent is done or dead in the end (and stays so), whatever goes
\* wrong on the way, as long as things stop going wrong.
EveryEventSettles == []<>(\A e \in Event : Sent(e) => inbox[e].status \in {"done", "dead"})
=============================================================================
