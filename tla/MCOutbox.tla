------------------------------ MODULE MCOutbox ------------------------------
(* Instances of NotificationOutbox.  A tick stands for the lease; the key   *)
(* window, the life of a run and the provider's memory keep their order:    *)
(* lease <= run, and window + run <= memory.                                *)
EXTENDS NotificationOutbox, TLC

TwoRows   == {1, 2}
ToOne == [n \in Row |-> "papa"]
AllNormal     == [n \in Row |-> "normal"]
FirstCritical == [n \in Row |-> IF n = 1 THEN "critical" ELSE "normal"]

NoReport   == {[limit |-> 2, consumed |-> 0]}
TwoReports == {[limit |-> 2, consumed |-> 0], [limit |-> 2, consumed |-> 1]}
OneWindow  == {2}

\* The runs are alike.
Runs == Permutations(Worker)
=============================================================================
