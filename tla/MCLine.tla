------------------------------- MODULE MCLine -------------------------------
(* Instances of LineWorker.  A story says what the users may write and tap,  *)
(* event by event, and what else may happen, so that each kind of            *)
(* conversation is explored in depth.                                        *)
EXTENDS LineWorker

CONSTANTS papa, mama, t1, i1

Days(first, second, third) == [e \in Event |-> CASE e = 1 -> first [] e = 2 -> second [] e = 3 -> third]
All(x, y)                  == [t \in Target |-> IF t \in Task THEN x ELSE y]
Tell1(says, owner) ==
  [says |-> says, by |-> [e \in Event |-> {papa}], owner |-> owner, app |-> 0, household |-> 0, trouble |-> 0,
   late |-> FALSE, overdue |-> FALSE]
Both(st, household) == [st EXCEPT !.by = [e \in Event |-> {papa, mama}], !.household = household]

\* Drafts.
Shopping  == Tell1(Days({"item"}, {"undo_add", "cancel", "drop"}, {}), All(papa, papa))
FromApp   == [Shopping EXCEPT !.app = 1, !.says = Days({"item"}, {"drop"}, {})]
Troubled  == [Shopping EXCEPT !.trouble = 1, !.says = Days({"item"}, {"undo_add"}, {})]
Overdue   == [Shopping EXCEPT !.overdue = TRUE, !.says = Days({"item"}, {"confirm", "drop"}, {})]
Preparing == [Tell1(Days({"starter"}, {}, {}), All(papa, papa)) EXCEPT !.trouble = 1]
Naming    == Tell1(Days({"starter"}, {"item"}, {"confirm"}), All(papa, papa))
Fixing    == Tell1(Days({"starter"}, {"fix", "change", "kind", "edit"}, {"drop", "change"}), All(papa, papa))
OutOfOrder == Tell1(Days({"fix"}, {"item"}, {"fix"}), All(papa, papa))
Outlived  == [Tell1(Days({"starter"}, {"change"}, {"waiting"}), All(papa, papa)) EXCEPT !.trouble = 1, !.late = TRUE]
Reviewing == Tell1(Days({"list"}, {"cancel_candidate", "resolve", "drop"}, {"confirm"}), All(papa, papa))
Choosing  == [Tell1(Days({"item"}, {"confirm"}, {"hidden", "special"}), All(papa, papa)) EXCEPT !.trouble = 1]

\* Commands.
Reporting == Tell1(Days({"done", "missed", "bought", "complete", "purchase", "purchase_all"},
                        {"reopen", "unbuy", "not_done_undo"}, {"reopen", "unbuy"}), All(papa, "unassigned"))
Undoing   == [Tell1(Days({"complete", "purchase"}, {"reopen", "unbuy"}, {}), All(papa, "unassigned")) EXCEPT !.household = 2]
Late      == [Reporting EXCEPT !.trouble = 2, !.late = TRUE, !.says = Days({"done", "bought"}, {"reopen", "unbuy"}, {})]
WholeDay  == Tell1(Days({"all_done"}, {"reopen"}, {"all_done"}), All(papa, papa))
Claims    == Tell1(Days({"claims"}, {"claim", "claims"}, {"release", "takeover", "ask_takeover"}), All("anyone", "anyone"))
Decisions == Tell1(Days({"decide"}, {"take", "leave_open"}, {}), All("unassigned", papa))
Session   == Tell1(Days({"routine"}, {"answer_all"}, {"undo_all"}), All(papa, papa))
Transport == Tell1(Days({"driver"}, {"driver", "agree"}, {"agree", "disagree"}), All(papa, papa))
Waiting   == Tell1(Days({"waiting"}, {"wait", "resume"}, {}), All(papa, papa))

ChatStories == {Shopping, FromApp, Troubled, Overdue, Preparing, Naming, Fixing, Reviewing, OutOfOrder, Outlived, Choosing,
                Reporting, Undoing, Late, WholeDay, Waiting,
                Both(Claims, 1), Both(Decisions, 1), Both(Session, 1), [Transport EXCEPT !.household = 1],
                [Session EXCEPT !.trouble = 1], [Transport EXCEPT !.trouble = 1]}
=============================================================================
