-------------------------- MODULE CalendarPromise --------------------------
(***************************************************************************)
(* What the Google mirror promises, without workers, leases or requests:   *)
(* the family decides, in order, what one event should look like, and      *)
(* every calendar follows those decisions in the order they were taken.    *)
(* A calendar may skip decisions and may lag behind; it never shows an     *)
(* older decision over a newer one, nor removes the event because of a     *)
(* decision older than the one it shows.  CalendarMirror implements it.    *)
(***************************************************************************)
EXTENDS Naturals

CONSTANT Conn       \* the household's calendars

VARIABLES decision, \* how many decisions the family has taken
          shows,    \* the decision each calendar shows, 0 for no event
          newest    \* the newest decision each calendar has followed

promiseVars == <<decision, shows, newest>>

PromiseInit ==
  /\ decision \in Nat
  /\ shows = [c \in Conn |-> 0]
  /\ newest = [c \in Conn |-> 0]

Decide ==
  /\ decision' = decision + 1
  /\ UNCHANGED <<shows, newest>>

\* Calendar c follows decision d: it shows d, or it removes the event.
Follow(c) ==
  \E d \in newest[c] .. decision :
    /\ newest' = [newest EXCEPT ![c] = d]
    /\ shows' \in {[shows EXCEPT ![c] = d], [shows EXCEPT ![c] = 0]}
    /\ UNCHANGED decision

PromiseNext == Decide \/ \E c \in Conn : Follow(c)

PromiseSpec == PromiseInit /\ [][PromiseNext]_promiseVars
=============================================================================
