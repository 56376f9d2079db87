------------------------------ MODULE MCRoutine ------------------------------
(* Small instances of RoutineSave. *)
EXTENDS RoutineSave

CONSTANTS r1, r2, r3

Home(on, locked) == [Blank EXCEPT !.on = on, !.locked = locked]
With(first) == [d \in Def |-> IF d = r1 THEN first ELSE None]

\* The sheets alone, and the editor of the morning alone or beside a sheet.
Begin(first, stored, sheets, touches, saves, buttons, presses, troubles) ==
  [defs |-> With(first), storage |-> stored, sheets |-> sheets, touches |-> touches,
   saves |-> saves, buttons |-> buttons, presses |-> presses, trouble |-> troubles]

Households ==
  {\* A routine is saved while the other adult saves the same row.
   Begin(Home(TRUE, FALSE), TRUE, {r1}, {{"title", "items", "days"}, {"optional"}}, 1, {"row"}, 1, 2),
   \* A stopped routine is resumed with other days.
   Begin(Home(FALSE, FALSE), TRUE, {r1}, {{}, {"items", "days", "optional"}}, 1, {}, 0, 3),
   \* A codmon routine.
   Begin(Home(TRUE, TRUE), FALSE, {r1}, {{"title", "items"}}, 1, {"continue"}, 1, 1),
   \* A routine is added, and added again.
   Begin(None, TRUE, {New}, {{"title", "days"}}, 2, {}, 0, 3),
   Begin(None, FALSE, {New}, {{"title", "days"}}, 2, {}, 0, 1),
   \* A routine is added a third time, after an answer that came late.
   Begin(None, TRUE, {New}, {{"title", "days"}}, 3, {}, 0, 2),
   \* The setup, pressed twice; a row is added and then the setup is left.
   Begin(Home(TRUE, FALSE), TRUE, {}, {}, 0, {"continue"}, 2, 2),
   Begin(None, TRUE, {}, {}, 0, {"add", "continue"}, 2, 2)}

=============================================================================
