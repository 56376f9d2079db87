--------------------------- MODULE ConciergeScreens ---------------------------
(***************************************************************************)
(* The concierge: a sentence becomes candidates, each with an operation id *)
(* of its own from the start; the user edits and confirms them; what was   *)
(* confirmed is committed, and only what failed is tried again.  Here: a   *)
(* list of one candidate.                                                  *)
(***************************************************************************)
EXTENDS SettingsScreens

CandidateKinds == {"task", "shopping", "share", "actual", "request", "takeover"}

\* The revision of what it duplicates or would change, and whether something is
\* left to be made clear.
NewCandidate(kind) == [kind |-> kind, duplicate |-> 0, target |-> 0, missing |-> FALSE]

\* An open row with the candidate's title.
attachCanonicalConciergeDuplicate(candidate, row) ==
    LET open == IF row.state \in TaskState
                THEN candidate.kind = "task" /\ row.state.status = "todo"
                ELSE candidate.kind = "shopping" /\ row.state.status \in {"wanted", "assigned", "ordered"}
    IN  IF open THEN [candidate EXCEPT !.duplicate = row.rev] ELSE candidate

\* Asking the other to take over a task: only the one who does it may.
resolveHouseholdCandidate(candidate, row, me) ==
    IF candidate.kind # "takeover" THEN candidate
    ELSE IF row.state \in TaskState /\ row.state.status = "todo" /\ row.state.assignment = me
    THEN [candidate EXCEPT !.target = row.rev]
    ELSE [candidate EXCEPT !.missing = TRUE]

proposeConciergeCandidates(row, me) ==
    {resolveHouseholdCandidate(attachCanonicalConciergeDuplicate(NewCandidate(kind), row), row, me) :
        kind \in CandidateKinds}

-----------------------------------------------------------------------------
(* The command of a candidate as it is confirmed, under the candidate's id. *)

Confirmed(candidate, endpoint, body) ==
    [key |-> <<"candidate", candidate.kind>>, endpoint |-> endpoint, body |-> body, via |-> "own",
     undo |-> None]

\* The user decides whether a duplicate is updated or the candidate added beside
\* it.  ("Use the existing one" sends nothing.)
updateCommand(c, x) ==
    When(c.duplicate # 0,
         {Confirmed(c, "commit-concierge-duplicate", Body("update", None, c.duplicate, x))})

taskCommand(c, x) == Confirmed(c, "create-task", Body("create", None, 0, x))
shoppingCommand(c, x) == Confirmed(c, "add-shopping-item", Body("add", None, 0, x))
shareCommand(c, x) == Confirmed(c, "create-handover", Body("create", None, 0, x))
actualCommand(c, x) == Confirmed(c, "record-unplanned-actual", Body("actual", None, 0, x))
requestCommand(c, x) == Confirmed(c, "send-request", Body("send", None, 0, x))

takeoverCommand(c, me, x) ==
    Confirmed(c, "create-assignment-change-request", Body("request", Other(me), c.target, x))

buildConfirmedCommand(c, me, x) ==
    updateCommand(c, x)
    \union {CASE c.kind = "task" -> taskCommand(c, x)
              [] c.kind = "shopping" -> shoppingCommand(c, x)
              [] c.kind = "share" -> shareCommand(c, x)
              [] c.kind = "actual" -> actualCommand(c, x)
              [] c.kind = "request" -> requestCommand(c, x)
              [] c.kind = "takeover" -> takeoverCommand(c, me, x)}

\* What a candidate may be confirmed as, for each text it may have been edited to.
ConciergePage(row, me) ==
    UNION {buildConfirmedCommand(c, me, x) :
             c \in {c \in proposeConciergeCandidates(row, me) : ~c.missing}, x \in Text}

=============================================================================
