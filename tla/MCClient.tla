------------------------------ MODULE MCClient ------------------------------
(* Small instances of WebClient. *)
EXTENDS WebClient, TLC

CONSTANTS b1, b2, x1, x2

Sym == Permutations({b1, b2}) \union Permutations({x1, x2})

Task(mode, assignment) ==
    [status |-> "todo", mode |-> mode, assignment |-> assignment, claim |-> Nobody,
     waiting |-> FALSE, ticked |-> {}]
Finished(t) == [t EXCEPT !.status = "completed"]

Goods(assignment) ==
    [status |-> "wanted", method |-> "undecided", assignment |-> assignment, claim |-> Nobody]

Ask(kind, by) ==
    [status |-> "pending", kind |-> kind, requester |-> by, confirmed |-> {}, followup |-> FALSE]
Talks(q) == [q EXCEPT !.status = "consulting"]
Agreed(q) == [q EXCEPT !.status = "accepted"]

Note(by, required) == [status |-> "active", author |-> by, required |-> required, read |-> {}]
Review(status, kind) == [status |-> status, kind |-> kind, answers |-> {}]
Day == [transport |-> TRUE, override |-> Nobody]

Scene(s, state, p, t, e, l) ==
    [screen |-> s, state |-> state, presses |-> p, trouble |-> t, elsewhere |-> e, loads |-> l]

TaskScenes ==
    {Scene("row", Task("whole", "anyone"), 2, 1, 1, 0),
     Scene("row", Task("whole", "anyone"), 2, 1, 0, 1),
     Scene("row", Task("codmon", User), 2, 1, 1, 0),
     Scene("row", Task("whole", User), 2, 0, 2, 1),           \* the partner acts twice
     Scene("row", Finished(Task("whole", User)), 2, 2, 0, 1),
     Scene("checklist", Task("subtasks", User), 2, 1, 1, 0),
     Scene("waiting", Task("whole", User), 2, 1, 1, 1),
     Scene("assignment", Task("whole", User), 2, 1, 1, 0),
     Scene("progress", Task("whole", User), 3, 2, 0, 1),
     Scene("evidence", Finished(Task("whole", User)), 3, 1, 1, 1),
     Scene("form", Task("whole", User), 2, 1, 1, 1),
     Scene("schedule", Task("whole", User), 2, 1, 1, 1),
     Scene("today", Task("whole", User), 2, 1, 1, 1),
     Scene("today", Finished(Task("whole", User)), 2, 1, 1, 1)}

GoodsScenes ==
    {Scene("goods", Goods("unassigned"), 2, 1, 1, 1),
     Scene("batch", Goods("unassigned"), 2, 2, 2, 1),
     Scene("ownership", Goods("anyone"), 2, 1, 1, 0),
     Scene("anyone", Goods("anyone"), 2, 1, 1, 1),
     Scene("additions", Goods("unassigned"), 2, 2, 0, 1)}

FamilyScenes ==
    {Scene("request", Ask("light", Partner), 2, 1, 1, 0),
     Scene("request", Ask("assignment", Partner), 2, 1, 1, 1),
     Scene("request", Talks(Ask("assignment", User)), 2, 1, 1, 0),
     Scene("request", Agreed(Ask("light", User)), 2, 1, 1, 0),
     Scene("send", Ask("light", User), 2, 2, 0, 1),
     Scene("note", Note(Partner, FALSE), 2, 1, 1, 1),
     Scene("note", Note(User, TRUE), 2, 1, 1, 1),
     Scene("checkin", Task("subtasks", User), 2, 1, 0, 1),
     Scene("day", Day, 2, 1, 1, 0),
     Scene("google", Review("pending", "one"), 2, 1, 1, 1),
     Scene("plan", Review("pending", "one"), 2, 2, 0, 1),
     Scene("conflict", Review("pending", "both"), 2, 1, 1, 1),
     Scene("nursery", Review("unclear", "one"), 3, 1, 0, 1)}

Home(members, invite, done) == [members |-> members, invite |-> invite, done |-> done]
Set(of, value) == [of |-> of, value |-> value]

HomeScenes ==
    {Scene("household", Home({}, "none", {}), 2, 2, 0, 0),
     Scene("household", Home({Partner}, "live", {}), 2, 1, 0, 1),
     Scene("household", Home({User, Partner}, "used", {"dropoff_pickup"}), 2, 1, 1, 1),
     Scene("household", Home({User, Partner}, "used", AllSteps \ {"week_preview"}), 2, 1, 1, 1),
     Scene("invite", Home({User}, "live", AllSteps), 2, 1, 1, 1),
     Scene("roles", [roles |-> (User :> "papa" @@ Partner :> "mama")], 2, 1, 1, 0),
     Scene("children", Set("school", "on"), 2, 2, 0, 0)}
    \union {Scene("setting", Set(of, "on"), 2, 1, 1, 1) :
               of \in {"schedule", "preference", "reminders", "nudge", "categories", "terms"}}
    \union {Scene("setting", Set(of, User), 2, 1, 1, 0) : of \in {"cell", "template"}}

ConciergeScenes ==
    {Scene("concierge", Task("whole", User), 2, 1, 1, 0),
     Scene("concierge", Task("whole", Partner), 2, 2, 0, 0),
     Scene("concierge", Goods("unassigned"), 2, 1, 1, 1)}

Panels == TaskScenes \union GoodsScenes \union FamilyScenes \union HomeScenes \union ConciergeScenes

\* An addition, tried three times.
Additions == {Scene("additions", Goods("unassigned"), 3, 2, 0, 0)}

=============================================================================
