------------------------------ MODULE MCGoogle ------------------------------
EXTENDS GoogleWatch

Budget(changes, trouble, renewals, days) ==
  [changes |-> changes, trouble |-> trouble, renewals |-> renewals, days |-> days]

\* Two changes in peace; one change and two failures, deaths or lapses; a midnight
\* and a slow run; channels replaced, with a failure on the way; a channel that
\* announces a change.
Weeks == {Budget(2, 0, 0, 0), Budget(1, 2, 0, 0), Budget(0, 1, 0, 1), Budget(0, 1, 2, 0),
          Budget(1, 0, 1, 0)}

=============================================================================
