----------------------------- MODULE MCCalendar -----------------------------
(* TLC instances of CalendarMirror. *)
EXTENDS CalendarMirror, TLC

\* Runs and calendars are interchangeable; leases are not, they are chosen.
Interchangeable == Permutations(Worker) \cup Permutations(Conn)
=============================================================================
