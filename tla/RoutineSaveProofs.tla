-------------------------- MODULE RoutineSaveProofs --------------------------
(***************************************************************************)
(* The saves of several commands, for any routines, households and numbers *)
(* of saves, presses and troubles: a save told as done was carried out     *)
(* wholly and on one routine; commands take effect in order; and of two    *)
(* additions the earlier is settled.                                       *)
(*                                                                         *)
(* The argument: whatever holds a place in a plan - a save under way, a    *)
(* request given up, a plan kept or shown - holds one whose earlier        *)
(* commands were carried out on the routine of the plan, as the receipts   *)
(* of the server have it; receipts and plans only grow, so that a place    *)
(* stays right however often it is resumed.  A save goes one command ahead *)
(* only with the answer to it, and the sheet, its save and what is kept    *)
(* never disagree while the sheet is open.  So an addition that is neither *)
(* settled nor the one the sheet would resume does not exist.              *)
(***************************************************************************)
EXTENDS RoutineSave, SequenceTheorems, FiniteSetTheorems, TLAPS

-----------------------------------------------------------------------------
(* What a save, its plan and what is kept of it look like.                 *)

Known == RoutineState \cup {None}
Made == Def \cup {None}

Commands == [kind : {"create", "title", "subtasks", "schedule", "options", "complete"},
             own : BOOLEAN, on : SUBSET Def, to : Nat, base : Nat, enable : BOOLEAN,
             expect : BOOLEAN \cup {None}]
PlanRecord == [item : Routine \cup {None}, touched : SUBSET (Field \cup {"on"}),
               commands : Seq(Commands)]
Place == [n : Nat, next : Nat, target : Made]
RunRecord == [n : Nat, next : Nat, target : Made, here : BOOLEAN, sent : BOOLEAN,
              reply : [code : {None, "ok", "refused"}, made : Made]]
Sheets == [item : Routine \cup {None}, opened : Known, plan : Place, review : BOOLEAN]

Typed ==
  /\ start \in Starts /\ storage \in BOOLEAN
  /\ defs \in [Def -> Known] /\ list \in [Def -> Known] /\ rows \in [Def -> Known]
  /\ plans \in Seq(PlanRecord)
  /\ \A op \in DOMAIN receipts : receipts[op] \in Made
  /\ runs \subseteq RunRecord /\ late \subseteq Place /\ kept \in [Routine -> Place]
  /\ sheet \in Sheets
  /\ told \cup dropped \cup overwritten \subseteq DOMAIN plans

Creates(p) == Len(p.commands) > 0 /\ p.commands[1].kind = "create"
Concludes(c) == c.kind = "complete" \/ (c.kind = "options" /\ c.enable)

\* A plan makes a routine first if at all, and installs schedules before it concludes.
Orderly(commands) ==
  \A k \in DOMAIN commands :
    /\ commands[k].kind = "create" => k = 1
    /\ Concludes(commands[k]) =>
         \A j \in DOMAIN commands : commands[j].kind = "schedule" => j < k

WellOrdered(p) ==
  Len(p.commands) <= MaxCommands /\ Orderly(p.commands) /\ (p.item = New => Creates(p))

PlansRight == \A n \in DOMAIN plans : WellOrdered(plans[n])

\* Whatever the pages and the plans know of a routine, it is there.
There(d) == d \in Def => defs[d] # None

Existing ==
  /\ \A d \in Def : list[d] # None \/ rows[d] # None => There(d)
  /\ IF sheet.item = None THEN sheet = Shut ELSE sheet.opened \in RoutineState
  /\ sheet.item \in Def => list[sheet.item] # None
  /\ \A n \in DOMAIN plans :
       /\ There(plans[n].item)
       /\ \A k \in DOMAIN plans[n].commands : \A d \in plans[n].commands[k].on : There(d)
  /\ \A op \in DOMAIN receipts : There(receipts[op])

\* Where a save is, by the plans ps and the receipts rs: what comes before has been
\* carried out, on the routine of the plan.
PlacedIn(at, ps, rs) ==
  /\ at.n \in DOMAIN ps /\ at.next \in 1..Len(ps[at.n].commands) + 1
  /\ \A j \in 1..at.next - 1 : <<at.n, j>> \in DOMAIN rs
  /\ IF Creates(ps[at.n]) THEN at.next > 1 => at.target = rs[<<at.n, 1>>]
                          ELSE at.target = ps[at.n].item

\* A receipt has those of all earlier commands, and is about the same routine.
ReceiptIn(op, ps, rs) ==
  /\ op = <<op[1], op[2]>>
  /\ op[1] \in DOMAIN ps /\ op[2] \in 1..Len(ps[op[1]].commands)
  /\ \A j \in 1..op[2] - 1 : <<op[1], j>> \in DOMAIN rs
  /\ rs[op] = IF Creates(ps[op[1]]) THEN rs[<<op[1], 1>>] ELSE ps[op[1]].item

RunIn(r, ps, rs) ==
  /\ PlacedIn(PlanOf(r), ps, rs)
  /\ r.sent => r.next <= Len(ps[r.n].commands)
  /\ r.reply # Waiting => r.sent
  /\ r.reply.code = "ok" => <<r.n, r.next>> \in DOMAIN rs /\ r.reply.made = rs[<<r.n, r.next>>]

LateIn(q, ps, rs) == PlacedIn(q, ps, rs) /\ q.next <= Len(ps[q.n].commands)

\* A plan kept or shown is one of the routine.
RemembersIn(plan, item, ps, rs) ==
  IF plan.n = 0 THEN plan = NoPlan ELSE PlacedIn(plan, ps, rs) /\ ps[plan.n].item = item

DoneIn(n, ps, rs) == \A k \in DOMAIN ps[n].commands : <<n, k>> \in DOMAIN rs

Progress ==
  /\ \A op \in DOMAIN receipts : ReceiptIn(op, plans, receipts)
  /\ \A r \in runs : RunIn(r, plans, receipts)
  /\ \A q \in late : LateIn(q, plans, receipts)
  /\ \A i \in Routine : RemembersIn(kept[i], i, plans, receipts)
  /\ sheet.item # None => RemembersIn(sheet.plan, sheet.item, plans, receipts)
  /\ \A n \in told : DoneIn(n, plans, receipts)

\* The one save under way from the sheet that is open is at the plan of the sheet.
OneSave ==
  \A r \in runs : r.here /\ IsSheets(r) =>
    /\ sheet.item = plans[r.n].item /\ sheet.plan = PlanOf(r)
    /\ \A q \in runs : q.here /\ IsSheets(q) => q = r

\* The addition that the sheet resumes, or would resume.
Resumed(n) == IF sheet.item = New THEN sheet.plan.n = n ELSE kept[New].n = n
Settled == told \cup dropped \cup overwritten

Additions ==
  /\ ~storage => \A i \in Routine : kept[i] = NoPlan
  /\ sheet.item = New /\ sheet.plan.n # 0 =>
       ~storage \/ kept[New].n = sheet.plan.n \/ sheet.plan.n \in overwritten
  /\ \A n \in DOMAIN plans : plans[n].item = New => n \in Settled \/ Resumed(n)

\* Of two additions the earlier is settled.
EarlierSettled ==
  \A n, m \in DOMAIN plans :
    n < m /\ plans[n].item = New /\ plans[m].item = New => n \in Settled

IInv == Typed /\ PlansRight /\ Existing /\ Progress /\ OneSave /\ Additions /\ EarlierSettled

-----------------------------------------------------------------------------
(* The plans.                                                              *)

\* At most m commands of the kinds K, about routines of D.
Kinds(s, K, D, m) ==
  /\ s \in Seq(Commands) /\ Len(s) <= m
  /\ \A k \in DOMAIN s : s[k].kind \in K /\ s[k].on \subseteq D

LEMMA Joined ==
  ASSUME NEW K, NEW L, NEW D, NEW m \in Nat, NEW n \in Nat, NEW s, NEW t,
         Kinds(s, K, D, m), Kinds(t, L, D, n)
  PROVE  Kinds(s \o t, K \cup L, D, m + n)
<1>1. s \in Seq(Commands) /\ t \in Seq(Commands) /\ Len(s) <= m /\ Len(t) <= n
  BY DEF Kinds
<1>2. Len(s) \in Nat /\ Len(t) \in Nat /\ DOMAIN s = 1..Len(s) /\ DOMAIN t = 1..Len(t)
  BY <1>1, LenProperties
<1>3. /\ s \o t \in Seq(Commands) /\ Len(s \o t) = Len(s) + Len(t)
      /\ \A i \in 1..Len(s) + Len(t) : (s \o t)[i] = IF i <= Len(s) THEN s[i] ELSE t[i - Len(s)]
  BY <1>1, ConcatProperties
<1>4. DOMAIN (s \o t) = 1..Len(s) + Len(t)
  BY <1>3, LenProperties
<1>5. ASSUME NEW i \in 1..Len(s) + Len(t)
      PROVE  (s \o t)[i].kind \in K \cup L /\ (s \o t)[i].on \subseteq D
  <2>1. CASE i <= Len(s)
    <3>1. i \in DOMAIN s /\ (s \o t)[i] = s[i]
      BY <1>2, <1>3, <2>1
    <3> QED BY <3>1 DEF Kinds
  <2>2. CASE ~(i <= Len(s))
    <3>1. i - Len(s) \in DOMAIN t /\ (s \o t)[i] = t[i - Len(s)]
      BY <1>2, <1>3, <2>2
    <3> QED BY <3>1 DEF Kinds
  <2> QED BY <2>1, <2>2
<1> QED BY <1>1, <1>2, <1>3, <1>4, <1>5 DEF Kinds

\* What makes no routine may follow what concludes nothing.
LEMMA OrderlyJoined ==
  ASSUME NEW s \in Seq(Commands), NEW t \in Seq(Commands), Orderly(s), Orderly(t),
         \A k \in DOMAIN s : ~Concludes(s[k]), \A k \in DOMAIN t : t[k].kind # "create"
  PROVE  Orderly(s \o t)
<1>2. Len(s) \in Nat /\ Len(t) \in Nat /\ DOMAIN s = 1..Len(s) /\ DOMAIN t = 1..Len(t)
  BY LenProperties
<1>3. /\ s \o t \in Seq(Commands) /\ Len(s \o t) = Len(s) + Len(t)
      /\ \A i \in 1..Len(s) + Len(t) : (s \o t)[i] = IF i <= Len(s) THEN s[i] ELSE t[i - Len(s)]
  BY ConcatProperties
<1>4. DOMAIN (s \o t) = 1..Len(s) + Len(t)
  BY <1>3, LenProperties
<1>5. ASSUME NEW k \in 1..Len(s) + Len(t)
      PROVE  /\ (s \o t)[k].kind = "create" => k = 1
             /\ Concludes((s \o t)[k]) =>
                  \A j \in 1..Len(s) + Len(t) : (s \o t)[j].kind = "schedule" => j < k
  <2>1. CASE k <= Len(s)
    <3>1. k \in DOMAIN s /\ (s \o t)[k] = s[k]
      BY <1>2, <1>3, <2>1
    <3> QED BY <3>1 DEF Orderly
  <2>2. CASE ~(k <= Len(s))
    <3>1. k - Len(s) \in DOMAIN t /\ (s \o t)[k] = t[k - Len(s)]
      BY <1>2, <1>3, <2>2
    <3>2. ASSUME NEW j \in 1..Len(s) + Len(t), Concludes((s \o t)[k]), (s \o t)[j].kind = "schedule"
          PROVE  j < k
      <4>1. CASE j <= Len(s)
        BY <1>2, <2>2, <4>1
      <4>2. CASE ~(j <= Len(s))
        <5>1. j - Len(s) \in DOMAIN t /\ (s \o t)[j] = t[j - Len(s)]
          BY <1>2, <1>3, <4>2
        <5>2. j - Len(s) < k - Len(s)
          BY <3>1, <3>2, <5>1 DEF Orderly
        <5> QED BY <1>2, <5>2
      <4> QED BY <4>1, <4>2
    <3> QED BY <3>1, <3>2
  <2> QED BY <2>1, <2>2
<1> QED BY <1>4, <1>5 DEF Orderly

LEMMA PlainIsOrderly ==
  ASSUME NEW s, \A k \in DOMAIN s : s[k].kind \in {"title", "subtasks", "schedule"}
  PROVE  Orderly(s) /\ \A k \in DOMAIN s : ~Concludes(s[k]) /\ s[k].kind # "create"
BY DEF Orderly, Concludes

LEMMA OneIsOrderly ==
  ASSUME NEW c \in Commands, c.kind # "schedule" \/ ~Concludes(c) PROVE Orderly(<<c>>)
<1>1. DOMAIN <<c>> = {1} /\ <<c>>[1] = c
  OBVIOUS
<1> QED BY <1>1 DEF Orderly

LEMMA OneOrNone ==
  ASSUME NEW holds \in BOOLEAN, NEW c \in Commands, NEW D, c.on \subseteq D
  PROVE  /\ Kinds(When(holds, c), {c.kind}, D, IF holds THEN 1 ELSE 0)
         /\ Kinds(<<c>>, {c.kind}, D, 1)
         /\ c.kind # "schedule" \/ ~Concludes(c) => Orderly(When(holds, c))
<1>1. <<c>> \in Seq(Commands) /\ Len(<<c>>) = 1 /\ DOMAIN <<c>> = {1} /\ <<c>>[1] = c
  OBVIOUS
<1>2. <<>> \in Seq(Commands) /\ Len(<<>>) = 0 /\ DOMAIN <<>> = {}
  OBVIOUS
<1>3. Orderly(<<>>)
  BY <1>2 DEF Orderly
<1> QED BY <1>1, <1>2, <1>3, OneIsOrderly DEF Kinds, When

LEMMA CommandTyped ==
  ASSUME NEW to \in Nat,
         NEW kind \in {"create", "title", "subtasks", "schedule", "options", "complete"}
  PROVE  /\ Command(kind, to) \in Commands /\ Command(kind, to).kind = kind
         /\ Command(kind, to).on = {}
         /\ \A D \in SUBSET Def : /\ Of(Command(kind, to), D) \in Commands
                                  /\ Of(Command(kind, to), D).kind = kind
                                  /\ Of(Command(kind, to), D).on = D
BY DEF Command, Commands, Of

\* What is edited of a routine: an adult's draft of it.
Drafts == [title : Nat, items : Nat, days : Nat, optional : BOOLEAN]

LEMMA EditsRight ==
  ASSUME NEW item, NEW draft \in Drafts, Shown(item) \in RoutineState
  PROVE  Kinds(edits(item, draft), {"title", "subtasks", "schedule"}, {}, IF item = New THEN 2 ELSE 3)
<1> DEFINE now == Shown(item)
           s == When(draft.items # now.items, [Command("subtasks", draft.items) EXCEPT !.base = now.items])
           t == When(item # New /\ draft.title # now.title, Command("title", draft.title))
           u == When(~now.locked /\ (item = New \/ draft.days # now.days), Command("schedule", draft.days))
<1>1. draft.items \in Nat /\ draft.title \in Nat /\ draft.days \in Nat /\ now.items \in Nat
      /\ now.locked \in BOOLEAN
  BY DEF Drafts, RoutineState
<1>2. Kinds(s, {"subtasks"}, {}, 1)
  <2>1. /\ [Command("subtasks", draft.items) EXCEPT !.base = now.items] \in Commands
        /\ [Command("subtasks", draft.items) EXCEPT !.base = now.items].kind = "subtasks"
        /\ [Command("subtasks", draft.items) EXCEPT !.base = now.items].on = {}
    BY <1>1 DEF Command, Commands
  <2> HIDE DEF now
  <2>2. Kinds(s, {"subtasks"}, {}, IF draft.items # now.items THEN 1 ELSE 0)
    BY <2>1, OneOrNone
  <2> QED BY <2>2 DEF Kinds
<1>3. Kinds(t, {"title"}, {}, IF item = New THEN 0 ELSE 1)
  <2> DEFINE c == Command("title", draft.title)
             holds == item # New /\ draft.title # now.title
  <2>1. c \in Commands /\ c.kind = "title" /\ c.on = {} /\ holds \in BOOLEAN
    BY <1>1, CommandTyped
  <2>2. holds => item # New
    OBVIOUS
  <2> HIDE DEF c, holds
  <2>3. Kinds(When(holds, c), {"title"}, {}, IF holds THEN 1 ELSE 0)
    BY <2>1, OneOrNone
  <2>4. Kinds(When(holds, c), {"title"}, {}, IF item = New THEN 0 ELSE 1)
    BY <2>2, <2>3 DEF Kinds
  <2> QED BY <2>4 DEF c, holds
<1>4. Kinds(u, {"schedule"}, {}, 1)
  <2> DEFINE c == Command("schedule", draft.days)
             holds == ~now.locked /\ (item = New \/ draft.days # now.days)
  <2>1. c \in Commands /\ c.kind = "schedule" /\ c.on = {} /\ holds \in BOOLEAN
    BY <1>1, CommandTyped
  <2> HIDE DEF c, holds
  <2>2. c.kind # "schedule" \/ ~Concludes(c)
    BY <2>1 DEF Concludes
  <2>3. Kinds(When(holds, c), {"schedule"}, {}, IF holds THEN 1 ELSE 0)
    BY <2>1, OneOrNone
  <2>4. Kinds(When(holds, c), {"schedule"}, {}, 1)
    BY <2>3 DEF Kinds
  <2> QED BY <2>4 DEF c, holds
<1>5. edits(item, draft) = s \o t \o u
  BY DEF edits
<1> HIDE DEF s, t, u
<1>6. Kinds(s \o t, {"subtasks"} \cup {"title"}, {}, 1 + (IF item = New THEN 0 ELSE 1))
  BY <1>2, <1>3, Joined
<1>7. Kinds(s \o t \o u, {"subtasks"} \cup {"title"} \cup {"schedule"}, {},
            1 + (IF item = New THEN 0 ELSE 1) + 1)
  <2>1. 1 + (IF item = New THEN 0 ELSE 1) \in Nat /\ 1 \in Nat
    OBVIOUS
  <2> QED BY <1>4, <1>6, <2>1, Joined
<1> QED BY <1>5, <1>7 DEF Kinds

LEMMA BuildRight ==
  ASSUME NEW item \in Routine, NEW draft \in Drafts, Shown(item) \in RoutineState
  PROVE  /\ build(item, draft) \in Seq(Commands) /\ Len(build(item, draft)) <= 4
         /\ Orderly(build(item, draft))
         /\ \A k \in DOMAIN build(item, draft) : build(item, draft)[k].on = {}
         /\ item = New => Len(build(item, draft)) > 0 /\ build(item, draft)[1].kind = "create"
<1> DEFINE now == Shown(item)
           holds == ~now.on \/ draft.optional # now.optional
           s == creation(item, draft)
           t == edits(item, draft)
           u == setOptions(now, draft)
<1>1. draft.title \in Nat /\ draft.optional \in BOOLEAN
  BY DEF Drafts
<1>2. Kinds(s, {"create"}, {}, IF item = New THEN 1 ELSE 0) /\ Orderly(s)
      /\ (item = New => Len(s) = 1 /\ s[1].kind = "create")
  <2>1. Command("create", draft.title) \in Commands /\ Command("create", draft.title).kind = "create"
        /\ Command("create", draft.title).on = {}
    BY <1>1, CommandTyped
  <2>2. Kinds(s, {"create"}, {}, IF item = New THEN 1 ELSE 0) /\ Orderly(s)
    BY <2>1, OneOrNone DEF creation
  <2>3. item = New => s = <<Command("create", draft.title)>>
    BY DEF creation, When
  <2> QED BY <2>1, <2>2, <2>3
<1>3. Kinds(t, {"title", "subtasks", "schedule"}, {}, IF item = New THEN 2 ELSE 3)
  BY EditsRight
<1>4. Kinds(u, {"options"}, {}, 1) /\ Orderly(u)
  <2> DEFINE c == [Command("options", 0) EXCEPT
                     !.expect = IF draft.optional # now.optional THEN draft.optional ELSE None]
  <2>1. c \in Commands /\ c.kind = "options" /\ c.on = {}
    BY <1>1 DEF Command, Commands
  <2>2. u = When(holds, c) /\ holds \in BOOLEAN
    BY DEF setOptions
  <2> HIDE DEF c, holds, u
  <2>3. Kinds(u, {"options"}, {}, IF holds THEN 1 ELSE 0) /\ Orderly(u)
    BY <2>1, <2>2, OneOrNone
  <2> QED BY <2>3 DEF Kinds
<1>5. build(item, draft) = s \o t \o u
  BY DEF build
<1> HIDE DEF s, t, u, now, holds
<1>6. Kinds(s \o t, {"create"} \cup {"title", "subtasks", "schedule"}, {},
            (IF item = New THEN 1 ELSE 0) + (IF item = New THEN 2 ELSE 3))
  BY <1>2, <1>3, Joined
<1>7. Kinds(s \o t \o u, {"create"} \cup {"title", "subtasks", "schedule"} \cup {"options"}, {},
            (IF item = New THEN 1 ELSE 0) + (IF item = New THEN 2 ELSE 3) + 1)
  BY <1>4, <1>6, Joined
<1>8. s \in Seq(Commands) /\ t \in Seq(Commands) /\ u \in Seq(Commands) /\ s \o t \in Seq(Commands)
  BY <1>2, <1>3, <1>4, <1>6 DEF Kinds
<1>9. Orderly(t) /\ \A k \in DOMAIN t : t[k].kind # "create"
  BY <1>3, PlainIsOrderly DEF Kinds
<1>10. Orderly(s \o t)
  <2>1. \A k \in DOMAIN s : ~Concludes(s[k])
    BY <1>2 DEF Kinds, Concludes
  <2> QED BY <1>2, <1>8, <1>9, <2>1, OrderlyJoined
<1>11. Orderly(s \o t \o u)
  <2>1. \A k \in DOMAIN (s \o t) : ~Concludes((s \o t)[k])
    BY <1>6 DEF Kinds, Concludes
  <2>2. \A k \in DOMAIN u : u[k].kind # "create"
    BY <1>4 DEF Kinds
  <2> QED BY <1>4, <1>8, <1>10, <2>1, <2>2, OrderlyJoined
<1>12. item = New => Len(s \o t \o u) > 0 /\ (s \o t \o u)[1].kind = "create"
  <2> SUFFICES ASSUME item = New PROVE Len(s \o t \o u) > 0 /\ (s \o t \o u)[1].kind = "create"
    OBVIOUS
  <2>1. Len(t) \in Nat /\ Len(u) \in Nat /\ Len(s) = 1
    BY <1>2, <1>8, LenProperties
  <2>2. Len(s \o t) = Len(s) + Len(t) /\ (s \o t)[1] = s[1]
    <3>1. /\ Len(s \o t) = Len(s) + Len(t)
          /\ \A i \in 1..Len(s) + Len(t) : (s \o t)[i] = IF i <= Len(s) THEN s[i] ELSE t[i - Len(s)]
      BY <1>8, ConcatProperties
    <3>2. 1 \in 1..Len(s) + Len(t) /\ 1 <= Len(s)
      BY <2>1
    <3> QED BY <3>1, <3>2
  <2>3. Len(s \o t \o u) = Len(s \o t) + Len(u) /\ (s \o t \o u)[1] = (s \o t)[1]
    <3> DEFINE v == s \o t
    <3>0. v \in Seq(Commands) /\ Len(v) = 1 + Len(t)
      BY <1>8, <2>1, <2>2
    <3> HIDE DEF v
    <3>1. /\ Len(v \o u) = Len(v) + Len(u)
          /\ \A i \in 1..Len(v) + Len(u) : (v \o u)[i] = IF i <= Len(v) THEN v[i] ELSE u[i - Len(v)]
      BY <1>8, <3>0, ConcatProperties
    <3>2. 1 \in 1..Len(v) + Len(u) /\ 1 <= Len(v)
      BY <2>1, <3>0
    <3> QED BY <3>1, <3>2 DEF v
  <2> QED BY <1>2, <2>1, <2>2, <2>3
<1>13. (IF item = New THEN 1 ELSE 0) + (IF item = New THEN 2 ELSE 3) + 1 = 4
  OBVIOUS
<1> QED BY <1>5, <1>7, <1>11, <1>12, <1>13 DEF Kinds

\* The routines the editor of the morning shows.
InRows == {d \in Def : rows[d] # None}

LEMMA Bounds ==
  Cardinality(Def) \in Nat /\ MaxCommands \in Nat /\ 4 <= MaxCommands /\ Cardinality(Def) + 2 <= MaxCommands
<1>1. Cardinality(Def) \in Nat
  BY RoutinesAssumption, FS_CardinalityType
<1> QED BY <1>1 DEF MaxCommands

LEMMA Enumerated ==
  ASSUME NEW S, IsFiniteSet(S), NEW k \in 1..Cardinality(S) PROVE SetToSeq(S)[k] \in S
<1>1. PICK f \in [1..Cardinality(S) -> S] : IsInjective(f)
  BY FS_CardinalityType DEF ExistsBijection, Bijection, Injection
<1>2. SetToSeq(S) \in [1..Cardinality(S) -> S]
  BY <1>1 DEF SetToSeq
<1> QED BY <1>2

LEMMA AddRight ==
  ASSUME NEW n \in Nat
  PROVE  Kinds(add(n), {"create", "schedule"}, {}, 2) /\ Orderly(add(n))
<1> DEFINE c == Command("create", n)
           d == Command("schedule", n)
<1>1. c \in Commands /\ c.kind = "create" /\ c.on = {} /\ d \in Commands /\ d.kind = "schedule"
      /\ d.on = {}
  BY CommandTyped
<1>2. add(n) = <<c, d>>
  BY DEF add
<1> HIDE DEF c, d
<1>3. <<c, d>> \in Seq(Commands) /\ Len(<<c, d>>) = 2 /\ DOMAIN <<c, d>> = {1, 2}
      /\ <<c, d>>[1] = c /\ <<c, d>>[2] = d
  BY <1>1
<1>4. Kinds(<<c, d>>, {"create", "schedule"}, {}, 2)
  BY <1>1, <1>3 DEF Kinds
<1>5. Orderly(<<c, d>>)
  BY <1>1, <1>3 DEF Orderly, Concludes
<1> QED BY <1>2, <1>4, <1>5

LEMMA SaveRowRight ==
  ASSUME Typed, NEW n \in Nat, NEW d \in InRows
  PROVE  Kinds(saveRow(d, n), {"title", "schedule"}, InRows, 2)
<1> DEFINE s == Of(Command("title", rows[d].title), {d})
           t == Of(Command("schedule", n), {d})
<1>1. d \in Def /\ rows[d].title \in Nat
  BY DEF Typed, InRows, Known, RoutineState
<1>2. s \in Commands /\ s.kind = "title" /\ s.on = {d} /\ t \in Commands /\ t.kind = "schedule"
      /\ t.on = {d}
  BY <1>1, CommandTyped
<1>3. saveRow(d, n) = <<s, t>>
  BY DEF saveRow
<1> HIDE DEF s, t
<1>4. <<s, t>> \in Seq(Commands) /\ Len(<<s, t>>) = 2 /\ DOMAIN <<s, t>> = {1, 2}
      /\ <<s, t>>[1] = s /\ <<s, t>>[2] = t
  BY <1>2
<1> QED BY <1>2, <1>3, <1>4 DEF Kinds

LEMMA SaveAllRight ==
  ASSUME Typed, NEW n \in Nat
  PROVE  /\ Kinds(saveAll(n), {"title", "schedule"}, InRows, Cardinality(Def) + 1)
         /\ Orderly(saveAll(n))
<1> DEFINE shown == {d \in Def : rows[d] # None /\ rows[d].on}
           title(d) == Of(Command("title", rows[d].title), {d})
           titles == [k \in 1..Cardinality(shown) |-> title(SetToSeq(shown)[k])]
           last == Of(Command("schedule", n), shown)
<1>1. IsFiniteSet(shown) /\ Cardinality(shown) \in Nat /\ Cardinality(shown) <= Cardinality(Def)
      /\ Cardinality(Def) \in Nat
  BY RoutinesAssumption, FS_Subset, FS_CardinalityType
<1>2. ASSUME NEW d \in shown
      PROVE  title(d) \in Commands /\ title(d).kind = "title" /\ title(d).on = {d}
  <2>1. d \in Def /\ rows[d].title \in Nat
    BY DEF Typed, Known, RoutineState
  <2> QED BY <2>1, CommandTyped
<1>3. shown \subseteq InRows /\ shown \subseteq Def
  BY DEF InRows
<1>4. last \in Commands /\ last.kind = "schedule" /\ last.on = shown
  BY CommandTyped, <1>3
<1>5. saveAll(n) = titles \o <<last>>
  BY DEF saveAll
<1> HIDE DEF shown, title, last
<1>6. ASSUME NEW k \in 1..Cardinality(shown)
      PROVE  titles[k] \in Commands /\ titles[k].kind = "title" /\ titles[k].on \subseteq InRows
  <2>1. SetToSeq(shown)[k] \in shown
    BY <1>1, Enumerated
  <2> QED BY <1>2, <1>3, <2>1
<1>7. Kinds(titles, {"title"}, InRows, Cardinality(Def))
  <2>1. titles \in [1..Cardinality(shown) -> Commands]
    BY <1>6
  <2>2. titles \in Seq(Commands) /\ Len(titles) = Cardinality(shown) /\ DOMAIN titles = 1..Cardinality(shown)
    BY <1>1, <2>1, IsASeq, LenProperties
  <2> HIDE DEF titles
  <2> QED BY <1>1, <1>6, <2>2 DEF Kinds
<1>8. Kinds(<<last>>, {"schedule"}, InRows, 1)
  BY <1>3, <1>4, OneOrNone
<1> HIDE DEF titles
<1>9. Kinds(titles \o <<last>>, {"title"} \cup {"schedule"}, InRows, Cardinality(Def) + 1)
  BY <1>1, <1>7, <1>8, Joined
<1>10. Kinds(saveAll(n), {"title", "schedule"}, InRows, Cardinality(Def) + 1)
  BY <1>5, <1>9 DEF Kinds
<1> QED BY <1>10, PlainIsOrderly DEF Kinds

LEMMA SaveAndContinueRight ==
  ASSUME Typed, NEW n \in Nat
  PROVE  /\ Kinds(saveAndContinue(n), {"title", "schedule", "complete"}, InRows, Cardinality(Def) + 2)
         /\ Orderly(saveAndContinue(n))
<1> DEFINE s == saveAll(n)
           c == Command("complete", n)
<1>1. Kinds(s, {"title", "schedule"}, InRows, Cardinality(Def) + 1) /\ Orderly(s)
  BY SaveAllRight
<1>2. c \in Commands /\ c.kind = "complete" /\ c.on = {}
  BY CommandTyped
<1>3. saveAndContinue(n) = s \o <<c>>
  BY DEF saveAndContinue
<1> HIDE DEF s, c
<1>4. Kinds(<<c>>, {"complete"}, InRows, 1) /\ Orderly(<<c>>)
  BY <1>2, OneOrNone, OneIsOrderly
<1>5. Cardinality(Def) + 1 \in Nat /\ Cardinality(Def) + 1 + 1 = Cardinality(Def) + 2
  BY Bounds
<1>6. Kinds(s \o <<c>>, {"title", "schedule"} \cup {"complete"}, InRows, Cardinality(Def) + 1 + 1)
  BY <1>1, <1>4, <1>5, Joined
<1>7. \A k \in DOMAIN s : ~Concludes(s[k])
  BY <1>1, PlainIsOrderly DEF Kinds
<1>8. \A k \in DOMAIN <<c>> : <<c>>[k].kind # "create"
  BY <1>4 DEF Kinds
<1>9. Orderly(s \o <<c>>)
  BY <1>1, <1>4, <1>7, <1>8, OrderlyJoined DEF Kinds
<1> QED BY <1>3, <1>5, <1>6, <1>9 DEF Kinds

-----------------------------------------------------------------------------
(* What is true of a place stays true as plans are added and commands are  *)
(* carried out.                                                            *)

LEMMA PlansTyped ==
  ASSUME Typed
  PROVE  /\ Len(plans) \in Nat /\ DOMAIN plans = 1..Len(plans)
         /\ \A n \in DOMAIN plans :
              /\ plans[n] \in PlanRecord /\ plans[n].item \in Routine \cup {None}
              /\ plans[n].commands \in Seq(Commands)
              /\ Len(plans[n].commands) \in Nat
              /\ DOMAIN plans[n].commands = 1..Len(plans[n].commands)
              /\ \A k \in DOMAIN plans[n].commands : plans[n].commands[k] \in Commands
<1>1. plans \in Seq(PlanRecord)
  BY DEF Typed
<1>2. Len(plans) \in Nat /\ DOMAIN plans = 1..Len(plans)
  BY <1>1, LenProperties
<1>3. ASSUME NEW n \in DOMAIN plans PROVE plans[n] \in PlanRecord
  BY <1>1, <1>2, ElementOfSeq
<1>4. ASSUME NEW n \in DOMAIN plans
      PROVE  /\ plans[n].item \in Routine \cup {None} /\ plans[n].commands \in Seq(Commands)
             /\ Len(plans[n].commands) \in Nat
             /\ DOMAIN plans[n].commands = 1..Len(plans[n].commands)
             /\ \A k \in DOMAIN plans[n].commands : plans[n].commands[k] \in Commands
  <2>1. plans[n].item \in Routine \cup {None} /\ plans[n].commands \in Seq(Commands)
    BY <1>3 DEF PlanRecord
  <2> QED BY <2>1, LenProperties, ElementOfSeq
<1> QED BY <1>2, <1>3, <1>4

Extends(ps, rs, qs, ss) ==
  /\ \A n \in DOMAIN ps : n \in DOMAIN qs /\ qs[n] = ps[n]
  /\ \A op \in DOMAIN rs : op \in DOMAIN ss /\ ss[op] = rs[op]

LEMMA PlaceLasts ==
  ASSUME NEW ps, NEW rs, NEW qs, NEW ss, Extends(ps, rs, qs, ss), NEW at, PlacedIn(at, ps, rs)
  PROVE  PlacedIn(at, qs, ss)
<1>1. at.n \in DOMAIN ps /\ qs[at.n] = ps[at.n] /\ at.n \in DOMAIN qs
  BY DEF PlacedIn, Extends
<1>2. \A j \in 1..at.next - 1 : <<at.n, j>> \in DOMAIN ss /\ ss[<<at.n, j>>] = rs[<<at.n, j>>]
  BY DEF PlacedIn, Extends
<1>3. at.next \in Int
  BY DEF PlacedIn
<1>4. at.next > 1 => ss[<<at.n, 1>>] = rs[<<at.n, 1>>]
  BY <1>2, <1>3
<1> QED BY <1>1, <1>2, <1>4 DEF PlacedIn

LEMMA ReceiptLasts ==
  ASSUME NEW ps, NEW rs, NEW qs, NEW ss, Extends(ps, rs, qs, ss), NEW op \in DOMAIN rs,
         ReceiptIn(op, ps, rs)
  PROVE  ReceiptIn(op, qs, ss)
<1>1. op[1] \in DOMAIN ps /\ qs[op[1]] = ps[op[1]] /\ op[1] \in DOMAIN qs /\ ss[op] = rs[op]
  BY DEF ReceiptIn, Extends
<1>2. \A j \in 1..op[2] - 1 : <<op[1], j>> \in DOMAIN ss /\ ss[<<op[1], j>>] = rs[<<op[1], j>>]
  BY DEF ReceiptIn, Extends
<1>3. op[2] \in Int /\ op[2] >= 1 /\ op = <<op[1], op[2]>>
  BY DEF ReceiptIn
<1>4. ss[<<op[1], 1>>] = rs[<<op[1], 1>>]
  <2>1. CASE op[2] = 1
    BY <1>1, <1>3, <2>1
  <2>2. CASE op[2] > 1
    BY <1>2, <1>3, <2>2
  <2> QED BY <1>3, <2>1, <2>2
<1> QED BY <1>1, <1>2, <1>4 DEF ReceiptIn

LEMMA RunLasts ==
  ASSUME NEW ps, NEW rs, NEW qs, NEW ss, Extends(ps, rs, qs, ss), NEW r, RunIn(r, ps, rs)
  PROVE  RunIn(r, qs, ss)
<1>1. PlacedIn(PlanOf(r), qs, ss)
  BY PlaceLasts DEF RunIn
<1>2. r.n \in DOMAIN ps /\ qs[r.n] = ps[r.n]
  BY DEF RunIn, PlacedIn, PlanOf, Extends
<1> QED BY <1>1, <1>2 DEF RunIn, Extends

LEMMA OthersLast ==
  ASSUME NEW ps, NEW rs, NEW qs, NEW ss, Extends(ps, rs, qs, ss)
  PROVE  /\ \A q : LateIn(q, ps, rs) => LateIn(q, qs, ss)
         /\ \A plan, item : RemembersIn(plan, item, ps, rs) => RemembersIn(plan, item, qs, ss)
         /\ \A n \in DOMAIN ps : DoneIn(n, ps, rs) => DoneIn(n, qs, ss)
<1>1. ASSUME NEW at, PlacedIn(at, ps, rs) PROVE PlacedIn(at, qs, ss) /\ qs[at.n] = ps[at.n]
  <2>1. PlacedIn(at, qs, ss)
    BY <1>1, PlaceLasts
  <2> QED BY <1>1, <2>1 DEF PlacedIn, Extends
<1>2. \A n \in DOMAIN ps : DoneIn(n, ps, rs) => DoneIn(n, qs, ss)
  BY DEF DoneIn, Extends
<1> QED BY <1>1, <1>2 DEF LateIn, RemembersIn

\* So everything said of the progress of the saves lasts, of whatever does not change.
LEMMA ProgressLasts ==
  ASSUME Typed, Progress, Extends(plans, receipts, plans', receipts')
  PROVE  /\ \A op \in DOMAIN receipts : ReceiptIn(op, plans', receipts')
         /\ \A r \in runs : RunIn(r, plans', receipts')
         /\ \A q \in late : LateIn(q, plans', receipts')
         /\ \A i \in Routine : RemembersIn(kept[i], i, plans', receipts')
         /\ sheet.item # None => RemembersIn(sheet.plan, sheet.item, plans', receipts')
         /\ \A n \in told : DoneIn(n, plans', receipts')
<1>1. told \subseteq DOMAIN plans
  BY DEF Typed
<1> QED BY <1>1, ReceiptLasts, RunLasts, OthersLast DEF Progress

-----------------------------------------------------------------------------
(* The server.                                                             *)

LEMMA WrittenTyped ==
  ASSUME NEW d \in Def, NEW c \in Commands, defs[d] \in RoutineState,
         c.kind \in {"title", "subtasks", "schedule", "options"}
  PROVE  Written(d, c) \in RoutineState
<1>1. /\ c.to \in Nat /\ c.enable \in BOOLEAN /\ c.expect \in BOOLEAN \cup {None}
  BY DEF Commands
<1>2. CASE c.kind = "options"
  <2>1. Written(d, c) =
          [defs[d] EXCEPT !.on = c.enable,
                          !.optional = IF c.expect = None THEN defs[d].optional ELSE c.expect]
    BY <1>2 DEF Written
  <2>2. (IF c.expect = None THEN defs[d].optional ELSE c.expect) \in BOOLEAN
    BY <1>1 DEF RoutineState
  <2> DEFINE optional == IF c.expect = None THEN defs[d].optional ELSE c.expect
  <2> HIDE DEF optional
  <2>3. [defs[d] EXCEPT !.on = c.enable, !.optional = optional] \in RoutineState
    BY <1>1, <2>2 DEF optional, RoutineState
  <2> QED BY <2>1, <2>3 DEF optional
<1>3. CASE c.kind = "title"
  BY <1>1, <1>3 DEF Written, RoutineState
<1>4. CASE c.kind = "subtasks"
  BY <1>1, <1>4 DEF Written, RoutineState
<1>5. CASE c.kind = "schedule"
  BY <1>1, <1>5 DEF Written, RoutineState
<1> QED BY <1>2, <1>3, <1>4, <1>5

LEMMA Served ==
  ASSUME Typed, NEW c \in Commands, NEW target \in Made, NEW made \in Made, Serve(c, target, made),
         c.kind # "create" => There(target), \A d \in c.on : There(d), c.kind = "create" => made \in Def
  PROVE  /\ defs' \in [Def -> Known] /\ \A d \in Def : defs[d] # None => defs'[d] # None
         /\ c.kind = "create" => defs'[made] # None
<1>1. defs \in [Def -> Known] /\ None \notin RoutineState
  BY RoutinesAssumption DEF Typed
<1>2. c.kind \in {"create", "title", "subtasks", "schedule", "options", "complete"} /\ c.to \in Nat
      /\ c.on \subseteq Def
  BY DEF Commands
<1>3. CASE c.kind = "create"
  <2>1. [Blank EXCEPT !.title = c.to] \in RoutineState
    BY <1>2 DEF Blank, RoutineState
  <2>2. defs' = [defs EXCEPT ![made] = [Blank EXCEPT !.title = c.to]]
    BY <1>3 DEF Serve
  <2> QED BY <1>1, <1>3, <2>1, <2>2 DEF Known
<1>4. CASE c.kind = "complete"
  <2>1. defs' = defs
    BY <1>4 DEF Serve
  <2> QED BY <1>1, <1>4, <2>1
<1>5. CASE c.kind \in {"title", "subtasks", "schedule", "options"}
  <2> DEFINE on == IF c.own THEN {target} ELSE c.on
  <2>1. defs' = [d \in Def |-> IF d \in on THEN Written(d, c) ELSE defs[d]]
    BY <1>5 DEF Serve
  <2>2. ASSUME NEW d \in Def, d \in on PROVE Written(d, c) \in RoutineState
    <3>1. defs[d] \in RoutineState
      BY <1>1, <1>5, <2>2 DEF There, Known
    <3> QED BY <1>5, <3>1, WrittenTyped
  <2> HIDE DEF on
  <2> QED BY <1>1, <1>5, <2>1, <2>2 DEF Known
<1> QED BY <1>2, <1>3, <1>4, <1>5

\* A command that its save has come to, handled.
LEMMA Handled ==
  ASSUME Typed, PlansRight, Existing, \A op \in DOMAIN receipts : ReceiptIn(op, plans, receipts),
         NEW n, NEW k, NEW target \in Made, NEW at, at.n = n, at.next = k, at.target = target,
         PlacedIn(at, plans, receipts), k <= Len(plans[n].commands),
         NEW reply \in Replies, Handle(n, k, target, reply)
  PROVE  /\ \A op \in DOMAIN receipts : op \in DOMAIN receipts' /\ receipts'[op] = receipts[op]
         /\ \A op \in DOMAIN receipts' : /\ ReceiptIn(op, plans, receipts')
                                         /\ receipts'[op] \in Made
                                         /\ receipts'[op] \in Def => defs'[receipts'[op]] # None
         /\ reply.code = "ok" => <<n, k>> \in DOMAIN receipts' /\ reply.made = receipts'[<<n, k>>]
         /\ defs' \in [Def -> Known] /\ \A d \in Def : defs[d] # None => defs'[d] # None
<1> DEFINE c == plans[n].commands[k]
<1>0. n \in DOMAIN plans /\ k \in DOMAIN plans[n].commands /\ k \in Nat /\ k >= 1 /\ c \in Commands
  BY PlansTyped DEF PlacedIn
<1>1. CASE Landed(n, k) /\ reply = [code |-> "ok", made |-> receipts[<<n, k>>]] /\ UNCHANGED server
  <2>1. receipts' = receipts /\ defs' = defs
    BY <1>1 DEF server
  <2> QED BY <1>1, <2>1 DEF Landed, Typed, Existing, There
<1>2. CASE reply = [code |-> "refused", made |-> None] /\ UNCHANGED server
  <2>1. receipts' = receipts /\ defs' = defs
    BY <1>2 DEF server
  <2> QED BY <1>2, <2>1 DEF Typed, Existing, There
<1>3. CASE /\ ~Landed(n, k) /\ ~MustRefuse(c) /\ (c.kind = "create" => Free # {})
           /\ reply.code = "ok"
           /\ reply.made = IF c.kind = "create" THEN CHOOSE d \in Free : TRUE ELSE target
           /\ receipts' = [op \in DOMAIN receipts \cup {<<n, k>>} |->
                             IF op = <<n, k>> THEN reply.made ELSE receipts[op]]
           /\ Serve(c, target, reply.made)
  <2>1. reply.made \in Made
    BY DEF Replies, Made
  <2>2. c.kind = "create" => reply.made \in Def
    BY <1>3 DEF Free
  <2>3. c.kind # "create" => reply.made = target
    BY <1>3
  <2>4. k = 1 /\ Creates(plans[n]) => c.kind = "create"
    BY DEF Creates
  <2>5. c.kind = "create" => k = 1 /\ Creates(plans[n])
    <3>1. Orderly(plans[n].commands)
      BY <1>0 DEF PlansRight, WellOrdered
    <3> QED BY <1>0, <3>1, PlansTyped DEF Orderly, Creates
  <2>6. c.kind # "create" /\ Creates(plans[n]) =>
          <<n, 1>> \in DOMAIN receipts /\ target = receipts[<<n, 1>>]
    BY <1>0, <2>4 DEF PlacedIn
  <2>7. ~Creates(plans[n]) => target = plans[n].item
    BY DEF PlacedIn
  <2>8. c.kind # "create" => There(target)
    BY <1>0, <2>6, <2>7 DEF Existing
  <2>9. \A d \in c.on : There(d)
    BY <1>0 DEF Existing
  <2>10. /\ defs' \in [Def -> Known] /\ \A d \in Def : defs[d] # None => defs'[d] # None
         /\ c.kind = "create" => defs'[reply.made] # None
    <3> HIDE DEF c
    <3> QED BY <1>0, <1>3, <2>1, <2>2, <2>8, <2>9, Served
  <2>11. /\ DOMAIN receipts' = DOMAIN receipts \cup {<<n, k>>}
         /\ \A op \in DOMAIN receipts : op # <<n, k>> /\ receipts'[op] = receipts[op]
         /\ receipts'[<<n, k>>] = reply.made
    BY <1>3 DEF Landed
  <2>12. Extends(plans, receipts, plans, receipts')
    BY <2>11 DEF Extends
  <2>13. \A op \in DOMAIN receipts : ReceiptIn(op, plans, receipts')
    BY <2>12, ReceiptLasts
  <2>14. ReceiptIn(<<n, k>>, plans, receipts')
    <3>1. <<n, k>>[1] = n /\ <<n, k>>[2] = k
      OBVIOUS
    <3>2. \A j \in 1..k - 1 : <<n, j>> \in DOMAIN receipts'
      BY <2>11 DEF PlacedIn
    <3>3. k \in 1..Len(plans[n].commands)
      BY <1>0, PlansTyped
    <3>4. CASE Creates(plans[n])
      <4>1. CASE k = 1
        BY <1>0, <3>1, <3>2, <3>3, <3>4, <4>1 DEF ReceiptIn
      <4>2. CASE k # 1
        <5>1. c.kind # "create"
          BY <2>5, <4>2
        <5>2. receipts'[<<n, k>>] = receipts'[<<n, 1>>]
          BY <2>3, <2>6, <2>11, <3>4, <5>1
        <5> QED BY <1>0, <3>1, <3>2, <3>3, <3>4, <5>2 DEF ReceiptIn
      <4> QED BY <4>1, <4>2
    <3>5. CASE ~Creates(plans[n])
      <4>1. receipts'[<<n, k>>] = plans[n].item
        BY <2>3, <2>5, <2>7, <2>11, <3>5
      <4> QED BY <1>0, <3>1, <3>2, <3>3, <3>5, <4>1 DEF ReceiptIn
    <3> QED BY <3>4, <3>5
  <2>15. ASSUME NEW op \in DOMAIN receipts
         PROVE  receipts'[op] \in Made /\ (receipts'[op] \in Def => defs'[receipts'[op]] # None)
    <3>1. receipts'[op] = receipts[op] /\ receipts[op] \in Made /\ There(receipts[op])
      BY <2>11 DEF Typed, Existing
    <3> QED BY <2>10, <3>1 DEF There
  <2>16. reply.made \in Def => defs'[reply.made] # None
    BY <2>3, <2>8, <2>10 DEF There
  <2> HIDE DEF c
  <2> QED BY <2>1, <2>10, <2>11, <2>13, <2>14, <2>15, <2>16
<1> QED BY <1>1, <1>2, <1>3 DEF Handle

-----------------------------------------------------------------------------
(* A new plan.                                                             *)

LEMMA DraftTyped ==
  ASSUME NEW opened \in RoutineState, NEW touched, NEW n \in Nat
  PROVE  draftFor(opened, touched, n) \in Drafts
BY DEF draftFor, Field, RoutineState, Drafts

\* What the sheet of a routine shows of it.
LEMMA SheetTyped ==
  ASSUME Typed, Existing, NEW item \in Routine, sheet.item = item
  PROVE  /\ Shown(item) \in RoutineState /\ sheet.opened \in RoutineState
         /\ There(item) /\ item # None
<1>1. item # None /\ (item = New <=> item \notin Def)
  BY RoutinesAssumption DEF Routine
<1>2. CASE item = New
  BY <1>1, <1>2 DEF Shown, Blank, RoutineState, Existing, There
<1>3. CASE item \in Def
  <2>1. list[item] # None /\ list[item] \in Known
    BY <1>3 DEF Existing, Typed
  <2> QED BY <1>1, <1>3, <2>1 DEF Shown, Known, Existing, There
<1> QED BY <1>1, <1>2, <1>3

\* A plan is made: of a routine that is there, with commands in order.
PlanMade ==
  \E item \in Routine \cup {None}, touched \in SUBSET (Field \cup {"on"}),
     commands \in Seq(Commands) :
    /\ Plans(item, touched, commands)
    /\ Len(commands) <= MaxCommands /\ Orderly(commands)
    /\ item = New => Len(commands) > 0 /\ commands[1].kind = "create"
    /\ There(item)
    /\ \A k \in DOMAIN commands : \A d \in commands[k].on : There(d)

LEMMA PlanGrows ==
  ASSUME Typed, NEW item \in Routine \cup {None}, NEW touched \in SUBSET (Field \cup {"on"}),
         NEW commands \in Seq(Commands), Plans(item, touched, commands)
  PROVE  /\ Number \in Nat /\ Number # 0 /\ Number \notin DOMAIN plans
         /\ plans' \in Seq(PlanRecord) /\ DOMAIN plans' = DOMAIN plans \cup {Number}
         /\ plans'[Number] = [item |-> item, touched |-> touched, commands |-> commands]
         /\ \A n \in DOMAIN plans : n < Number /\ plans'[n] = plans[n]
<1> DEFINE new == [item |-> item, touched |-> touched, commands |-> commands]
<1>1. plans \in Seq(PlanRecord) /\ new \in PlanRecord
  BY DEF Typed, PlanRecord
<1>2. plans' = Append(plans, new)
  BY DEF Plans
<1> HIDE DEF new
<1>3. Len(plans) \in Nat /\ DOMAIN plans = 1..Len(plans)
  BY <1>1, LenProperties
<1>4. /\ plans' \in Seq(PlanRecord) /\ Len(plans') = Len(plans) + 1
      /\ \A n \in 1..Len(plans) : plans'[n] = plans[n]
      /\ plans'[Len(plans) + 1] = new
  BY <1>1, <1>2, AppendProperties
<1>5. DOMAIN plans' = 1..Len(plans) + 1
  BY <1>3, <1>4, LenProperties
<1> QED BY <1>3, <1>4, <1>5 DEF Number, new

LEMMA PlanMadeKeeps ==
  ASSUME Typed, PlansRight, Existing, PlanMade
  PROVE  /\ PlansRight'
         /\ \A n \in DOMAIN plans' :
              /\ There(plans'[n].item)
              /\ \A k \in DOMAIN plans'[n].commands : \A d \in plans'[n].commands[k].on : There(d)
<1> PICK item \in Routine \cup {None}, touched \in SUBSET (Field \cup {"on"}),
         commands \in Seq(Commands) :
    /\ Plans(item, touched, commands)
    /\ Len(commands) <= MaxCommands /\ Orderly(commands)
    /\ item = New => Len(commands) > 0 /\ commands[1].kind = "create"
    /\ There(item)
    /\ \A k \in DOMAIN commands : \A d \in commands[k].on : There(d)
  BY DEF PlanMade
<1>1. /\ DOMAIN plans' = DOMAIN plans \cup {Number}
      /\ plans'[Number] = [item |-> item, touched |-> touched, commands |-> commands]
      /\ \A n \in DOMAIN plans : plans'[n] = plans[n]
  BY PlanGrows
<1>2. WellOrdered(plans'[Number])
  BY <1>1 DEF WellOrdered, Creates
<1>3. PlansRight'
  BY <1>1, <1>2 DEF PlansRight
<1> QED BY <1>1, <1>3 DEF Existing

\* The press of the button of a sheet.
Pressed(item) ==
  \E touched \in SUBSET (Field \cup {"on"}), commands \in Seq(Commands) :
    /\ Begins(item, touched, commands)
    /\ Len(commands) <= MaxCommands /\ Orderly(commands)
    /\ item = New => Len(commands) > 0 /\ commands[1].kind = "create"
    /\ \A k \in DOMAIN commands : commands[k].on = {}

LEMMA SavePresses ==
  ASSUME Typed, Existing, NEW item \in Routine, save(item)
  PROVE  Pressed(item) /\ sheet.item = item /\ There(item) /\ item # None
<1>0. sheet.item = item
  BY DEF save
<1>1. /\ Shown(item) \in RoutineState /\ sheet.opened \in RoutineState /\ There(item) /\ item # None
  BY <1>0, SheetTyped
<1>2. PICK touched \in start.touches :
        Begins(item, touched, build(item, draftFor(sheet.opened, touched, Number)))
  BY DEF save
<1>3. start \in Starts /\ touched \in SUBSET (Field \cup {"on"})
  <2>1. start \in Starts
    BY DEF Typed
  <2>2. start.touches \in SUBSET SUBSET Field
    BY <2>1, RoutinesAssumption
  <2> QED BY <2>1, <2>2
<1>4. Number \in Nat
  BY PlansTyped DEF Number
<1> DEFINE commands == build(item, draftFor(sheet.opened, touched, Number))
<1>5. /\ commands \in Seq(Commands) /\ Len(commands) <= 4 /\ Orderly(commands)
      /\ \A k \in DOMAIN commands : commands[k].on = {}
      /\ item = New => Len(commands) > 0 /\ commands[1].kind = "create"
  BY <1>1, <1>4, DraftTyped, BuildRight
<1> HIDE DEF commands
<1>6. Len(commands) <= MaxCommands
  BY <1>5, Bounds, LenProperties
<1> QED BY <1>0, <1>1, <1>2, <1>3, <1>5, <1>6 DEF Pressed, commands

LEMMA SaveStopPresses ==
  ASSUME Typed, Existing, NEW item \in Routine, saveStop(item)
  PROVE  Pressed(item) /\ sheet.item = item /\ There(item) /\ item # None
<1>0. sheet.item = item /\ item # New /\ Begins(item, {"on"}, buildStop)
  BY DEF saveStop
<1>1. There(item) /\ item # None
  BY <1>0, SheetTyped
<1> DEFINE c == [Command("options", 0) EXCEPT !.enable = FALSE]
<1>2. c \in Commands /\ c.kind = "options" /\ c.on = {}
  BY DEF Command, Commands
<1>3. buildStop = <<c>>
  BY DEF buildStop
<1> HIDE DEF c
<1>4. <<c>> \in Seq(Commands) /\ Len(<<c>>) = 1 /\ Orderly(<<c>>) /\ DOMAIN <<c>> = {1}
      /\ <<c>>[1] = c
  BY <1>2, OneIsOrderly
<1>5. \A k \in DOMAIN <<c>> : <<c>>[k].on = {}
  BY <1>2, <1>4
<1>6. Len(<<c>>) <= MaxCommands
  BY <1>4, Bounds
<1>7. {"on"} \in SUBSET (Field \cup {"on"})
  OBVIOUS
<1> QED BY <1>0, <1>1, <1>3, <1>4, <1>5, <1>6, <1>7 DEF Pressed

LEMMA PressMakesPlan ==
  ASSUME NEW item \in Routine, Pressed(item), There(item) PROVE PlanMade
<1>1. PICK touched \in SUBSET (Field \cup {"on"}), commands \in Seq(Commands) :
        /\ Begins(item, touched, commands)
        /\ Len(commands) <= MaxCommands /\ Orderly(commands)
        /\ item = New => Len(commands) > 0 /\ commands[1].kind = "create"
        /\ \A k \in DOMAIN commands : commands[k].on = {}
  BY DEF Pressed
<1>2. Plans(item, touched, commands)
  BY <1>1 DEF Begins
<1> QED BY <1>1, <1>2 DEF PlanMade

\* The press of a button of the editor of the morning.
MorningPressed ==
  \E commands \in Seq(Commands) :
    /\ Presses(commands)
    /\ Len(commands) <= MaxCommands /\ Orderly(commands)
    /\ \A k \in DOMAIN commands : commands[k].on \subseteq InRows

LEMMA MorningPresses ==
  ASSUME Typed, (\E d \in Def : PressRow(d)) \/ PressAdd \/ PressContinue PROVE MorningPressed
<1>0. Number \in Nat
  BY PlansTyped DEF Number
<1>1. ASSUME NEW commands, NEW K, NEW m \in Nat, m <= MaxCommands, Presses(commands),
             NEW D, Kinds(commands, K, D, m), D \subseteq InRows, Orderly(commands)
      PROVE  MorningPressed
  <2>1. commands \in Seq(Commands) /\ Len(commands) <= m
    BY <1>1 DEF Kinds
  <2>2. Len(commands) <= MaxCommands
    BY <1>1, <2>1, Bounds, LenProperties
  <2> QED BY <1>1, <2>1, <2>2 DEF MorningPressed, Kinds
<1>2. ASSUME NEW d \in Def, PressRow(d) PROVE MorningPressed
  <2>1. d \in InRows /\ Presses(saveRow(d, Number))
    BY <1>2 DEF PressRow, InRows
  <2>2. Kinds(saveRow(d, Number), {"title", "schedule"}, InRows, 2)
    BY <1>0, <2>1, SaveRowRight
  <2>3. Orderly(saveRow(d, Number))
    BY <2>2, PlainIsOrderly DEF Kinds
  <2> QED BY <1>1, <2>1, <2>2, <2>3, Bounds
<1>3. ASSUME PressAdd PROVE MorningPressed
  <2>1. Presses(add(Number))
    BY <1>3 DEF PressAdd
  <2>2. Kinds(add(Number), {"create", "schedule"}, {}, 2) /\ Orderly(add(Number))
    BY <1>0, AddRight
  <2> QED BY <1>1, <2>1, <2>2, Bounds
<1>4. ASSUME PressContinue PROVE MorningPressed
  <2>1. Presses(saveAndContinue(Number))
    BY <1>4 DEF PressContinue
  <2>2. /\ Kinds(saveAndContinue(Number), {"title", "schedule", "complete"}, InRows, Cardinality(Def) + 2)
        /\ Orderly(saveAndContinue(Number))
    BY <1>0, SaveAndContinueRight
  <2>3. Cardinality(Def) + 2 \in Nat /\ Cardinality(Def) + 2 <= MaxCommands
    BY Bounds
  <2> QED BY <1>1, <2>1, <2>2, <2>3
<1> QED BY <1>2, <1>3, <1>4

LEMMA MorningMakesPlan ==
  ASSUME Existing, MorningPressed PROVE PlanMade
<1>1. PICK commands \in Seq(Commands) :
        /\ Presses(commands)
        /\ Len(commands) <= MaxCommands /\ Orderly(commands)
        /\ \A k \in DOMAIN commands : commands[k].on \subseteq InRows
  BY DEF MorningPressed
<1>2. Plans(None, {}, commands)
  BY <1>1 DEF Presses
<1>3. None # New /\ There(None)
  BY RoutinesAssumption DEF There, Routine
<1>4. \A k \in DOMAIN commands : \A d \in commands[k].on : There(d)
  BY <1>1 DEF InRows, Existing
<1>5. None \in Routine \cup {None} /\ {} \in SUBSET (Field \cup {"on"})
  OBVIOUS
<1> QED BY <1>1, <1>2, <1>3, <1>4, <1>5 DEF PlanMade

-----------------------------------------------------------------------------
(* The steps.                                                              *)

LEMMA RunFacts ==
  ASSUME Typed, Progress, NEW r \in runs
  PROVE  /\ r \in RunRecord /\ r.n \in DOMAIN plans /\ r.n \in Nat /\ r.n # 0 /\ PlanOf(r) \in Place
         /\ RunIn(r, plans, receipts) /\ PlacedIn(PlanOf(r), plans, receipts)
         /\ r.next \in 1..Len(plans[r.n].commands) + 1
         /\ plans[r.n].item \in Routine \cup {None}
         /\ r.reply.code = "ok" => r.sent
<1>1. r \in RunRecord /\ RunIn(r, plans, receipts)
  BY DEF Typed, Progress
<1>2. PlanOf(r) \in Place /\ PlanOf(r).n = r.n /\ PlanOf(r).next = r.next
  BY <1>1 DEF RunRecord, Place, PlanOf
<1>3. PlacedIn(PlanOf(r), plans, receipts) /\ r.n \in DOMAIN plans
      /\ r.next \in 1..Len(plans[r.n].commands) + 1
  BY <1>1, <1>2 DEF RunIn, PlacedIn
<1>4. r.n \in Nat /\ r.n # 0
  BY <1>3, PlansTyped
<1>5. r.reply.code = "ok" => r.sent
  BY <1>1, RoutinesAssumption DEF RunIn, Waiting
<1> QED BY <1>1, <1>2, <1>3, <1>4, <1>5, PlansTyped

\* The place behind a command that is done.
LEMMA AheadRight ==
  ASSUME Typed, PlansRight, Progress, NEW r \in runs, r.reply.code = "ok"
  PROVE  /\ Ahead(r) \in RunRecord /\ RunIn(Ahead(r), plans, receipts)
         /\ Ahead(r).n = r.n /\ Ahead(r).here = r.here /\ PlanOf(Ahead(r)) \in Place
         /\ PlacedIn(PlanOf(Ahead(r)), plans, receipts) /\ PlanOf(Ahead(r)).n = r.n
<1> DEFINE c == plans[r.n].commands[r.next]
           target == IF c.kind = "create" THEN r.reply.made ELSE r.target
<1>1. /\ r \in RunRecord /\ r.n \in DOMAIN plans /\ r.n \in Nat /\ RunIn(r, plans, receipts)
      /\ PlacedIn(PlanOf(r), plans, receipts) /\ r.next \in 1..Len(plans[r.n].commands) + 1 /\ r.sent
  BY RunFacts
<1>2. r.next \in Nat /\ r.reply.made \in Made /\ r.target \in Made /\ r.here \in BOOLEAN
  BY <1>1 DEF RunRecord
<1>3. Len(plans[r.n].commands) \in Nat /\ DOMAIN plans[r.n].commands = 1..Len(plans[r.n].commands)
  BY <1>1, PlansTyped
<1>4. /\ r.next <= Len(plans[r.n].commands) /\ <<r.n, r.next>> \in DOMAIN receipts
      /\ r.reply.made = receipts[<<r.n, r.next>>]
  BY <1>1 DEF RunIn
<1>5. Ahead(r) = [n |-> r.n, next |-> r.next + 1, target |-> target, here |-> r.here,
                  sent |-> FALSE, reply |-> Waiting]
  <2>1. Ahead(r) = [r EXCEPT !.next = r.next + 1, !.sent = FALSE, !.reply = Waiting, !.target = target]
    BY DEF Ahead, CommandOf
  <2> HIDE DEF target
  <2> QED BY <1>1, <2>1 DEF RunRecord
<1>6. target \in Made
  BY <1>2
<1>7. /\ \A j \in 1..r.next - 1 : <<r.n, j>> \in DOMAIN receipts
      /\ IF Creates(plans[r.n]) THEN r.next > 1 => r.target = receipts[<<r.n, 1>>]
                                ELSE r.target = plans[r.n].item
  BY <1>1 DEF PlacedIn, PlanOf
<1>8. c.kind = "create" <=> r.next = 1 /\ Creates(plans[r.n])
  <2>1. Orderly(plans[r.n].commands)
    BY <1>1 DEF PlansRight, WellOrdered
  <2>2. r.next \in DOMAIN plans[r.n].commands
    BY <1>1, <1>3, <1>4
  <2> QED BY <1>3, <2>1, <2>2 DEF Orderly, Creates
<1>9. IF Creates(plans[r.n]) THEN target = receipts[<<r.n, 1>>] ELSE target = plans[r.n].item
  <2>1. CASE c.kind = "create"
    <3>1. target = r.reply.made
      BY <2>1
    <3> QED BY <1>4, <1>8, <2>1, <3>1
  <2>2. CASE c.kind # "create"
    <3>1. target = r.target /\ (Creates(plans[r.n]) => r.next > 1)
      BY <1>1, <1>2, <1>8, <2>2
    <3> HIDE DEF target, c
    <3> QED BY <1>7, <3>1
  <2> QED BY <2>1, <2>2
<1>10. \A j \in 1..r.next : <<r.n, j>> \in DOMAIN receipts
  <2> SUFFICES ASSUME NEW j \in 1..r.next PROVE <<r.n, j>> \in DOMAIN receipts
    OBVIOUS
  <2> QED BY <1>2, <1>4, <1>7
<1> HIDE DEF target, c
<1>11. PlanOf(Ahead(r)) = [n |-> r.n, next |-> r.next + 1, target |-> target]
  BY <1>5 DEF PlanOf
<1>12. PlacedIn(PlanOf(Ahead(r)), plans, receipts)
  <2>1. r.next + 1 - 1 = r.next /\ r.next + 1 \in 1..Len(plans[r.n].commands) + 1
    BY <1>2, <1>3, <1>4
  <2> QED BY <1>1, <1>9, <1>10, <1>11, <2>1 DEF PlacedIn
<1>13. Ahead(r) \in RunRecord /\ PlanOf(Ahead(r)) \in Place
  BY <1>1, <1>2, <1>5, <1>6, <1>11 DEF RunRecord, Place, Waiting, Made
<1>14. RunIn(Ahead(r), plans, receipts)
  BY <1>5, <1>12, RoutinesAssumption DEF RunIn, Waiting
<1> QED BY <1>5, <1>11, <1>12, <1>13, <1>14

\* What a step does to the plans and the server: nothing, or it carries out a command
\* that some save has come to, or it makes a plan.
ServerGoes ==
  /\ plans' = plans
  /\ \A op \in DOMAIN receipts : op \in DOMAIN receipts' /\ receipts'[op] = receipts[op]
  /\ \A op \in DOMAIN receipts' : /\ ReceiptIn(op, plans, receipts')
                                  /\ receipts'[op] \in Made
                                  /\ receipts'[op] \in Def => defs'[receipts'[op]] # None
  /\ defs' \in [Def -> Known] /\ \A d \in Def : defs[d] # None => defs'[d] # None

LEMMA ServerRests ==
  ASSUME Typed, Existing, Progress, UNCHANGED <<plans, server>> PROVE ServerGoes
BY DEF ServerGoes, server, Typed, Existing, Progress, There

LEMMA RepliesTyped ==
  ASSUME NEW reply \in Replies
  PROVE  reply \in [code : {None, "ok", "refused"}, made : Made] /\ reply # Waiting
BY RoutinesAssumption DEF Replies, Made, Waiting

LEMMA ArrivesServes ==
  ASSUME Typed, PlansRight, Existing, Progress, NEW r \in runs, Arrives(r)
  PROVE  /\ ServerGoes
         /\ \E reply \in Replies :
              /\ Goes(r, [r EXCEPT !.reply = reply])
              /\ reply.code = "ok" => /\ <<r.n, r.next>> \in DOMAIN receipts'
                                      /\ reply.made = receipts'[<<r.n, r.next>>]
<1>1. PICK reply \in Replies :
        Handle(r.n, r.next, r.target, reply) /\ Goes(r, [r EXCEPT !.reply = reply])
  BY DEF Arrives
<1>2. /\ r \in RunRecord /\ RunIn(r, plans, receipts) /\ PlacedIn(PlanOf(r), plans, receipts)
  BY RunFacts
<1>3. r.next <= Len(plans[r.n].commands) /\ r.target \in Made
  BY <1>2 DEF RunIn, Arrives, RunRecord
<1>4. PlanOf(r).n = r.n /\ PlanOf(r).next = r.next /\ PlanOf(r).target = r.target
  BY DEF PlanOf
<1>5. \A op \in DOMAIN receipts : ReceiptIn(op, plans, receipts)
  BY DEF Progress
<1>6. plans' = plans
  BY DEF Arrives
<1> HIDE DEF Arrives
<1>7. /\ \A op \in DOMAIN receipts : op \in DOMAIN receipts' /\ receipts'[op] = receipts[op]
      /\ \A op \in DOMAIN receipts' : /\ ReceiptIn(op, plans, receipts')
                                      /\ receipts'[op] \in Made
                                      /\ receipts'[op] \in Def => defs'[receipts'[op]] # None
      /\ reply.code = "ok" => /\ <<r.n, r.next>> \in DOMAIN receipts'
                              /\ reply.made = receipts'[<<r.n, r.next>>]
      /\ defs' \in [Def -> Known] /\ \A d \in Def : defs[d] # None => defs'[d] # None
  BY <1>1, <1>2, <1>3, <1>4, <1>5, Handled
<1> QED BY <1>1, <1>6, <1>7 DEF ServerGoes

LEMMA ArrivesLateServes ==
  ASSUME Typed, PlansRight, Existing, Progress, NEW q \in late, ArrivesLate(q)
  PROVE  ServerGoes
<1>1. PICK reply \in Replies : Handle(q.n, q.next, q.target, reply)
  BY DEF ArrivesLate
<1>2. q \in Place /\ PlacedIn(q, plans, receipts) /\ q.next <= Len(plans[q.n].commands)
  BY DEF Typed, Progress, LateIn
<1>3. q.target \in Made
  BY <1>2 DEF Place
<1>5. \A op \in DOMAIN receipts : ReceiptIn(op, plans, receipts)
  BY DEF Progress
<1>6. plans' = plans
  BY DEF ArrivesLate
<1>7. /\ \A op \in DOMAIN receipts : op \in DOMAIN receipts' /\ receipts'[op] = receipts[op]
      /\ \A op \in DOMAIN receipts' : /\ ReceiptIn(op, plans, receipts')
                                      /\ receipts'[op] \in Made
                                      /\ receipts'[op] \in Def => defs'[receipts'[op]] # None
      /\ defs' \in [Def -> Known] /\ \A d \in Def : defs[d] # None => defs'[d] # None
  BY <1>1, <1>2, <1>3, <1>5, Handled
<1> QED BY <1>6, <1>7 DEF ServerGoes

\* The steps that leave the server and the plans alone.
Aside ==
  \/ \E r \in runs : \/ Send(r) \/ Stops(r) \/ Advances(r) \/ Saved(r)
                     \/ Rejected(r) \/ NotSent(r) \/ Lost(r)
  \/ load \/ retry \/ review \/ CloseSheet
  \/ \E i \in Routine : OpenSheet(i)
  \/ LeavePage \/ Reload \/ CloseTab \/ UNCHANGED vars

LEMMA Steps ==
  ASSUME Typed, Existing, [Next]_vars
  PROVE  \/ Aside
         \/ \E r \in runs : Arrives(r)
         \/ \E q \in late : ArrivesLate(q)
         \/ \E i \in Routine : Pressed(i) /\ sheet.item = i /\ There(i) /\ i # None
         \/ MorningPressed
BY SavePresses, SaveStopPresses, MorningPresses DEF Next, Aside

LEMMA AsideRests ==
  ASSUME Aside PROVE UNCHANGED <<plans, server>>
BY DEF Aside, Send, Stops, Advances, Saved, Rejected, NotSent, Lost, Failed, load, retry, review,
   CloseSheet, OpenSheet, LeavePage, Reload, CloseTab, vars

LEMMA PressedMakes ==
  ASSUME NEW i \in Routine, Pressed(i), There(i) PROVE PlanMade /\ UNCHANGED server
<1>1. UNCHANGED server
  BY DEF Pressed, Begins
<1> QED BY <1>1, PressMakesPlan

LEMMA MorningMakes ==
  ASSUME Existing, MorningPressed PROVE PlanMade /\ UNCHANGED server
<1>1. UNCHANGED server
  BY DEF MorningPressed, Presses
<1> QED BY <1>1, MorningMakesPlan

\* So the plans stay right, and what the server and they know of a routine is there.
LEMMA Ground ==
  ASSUME Typed, PlansRight, Existing, Progress, [Next]_vars
  PROVE  /\ Extends(plans, receipts, plans', receipts')
         /\ PlansRight' /\ plans' \in Seq(PlanRecord)
         /\ \A n \in DOMAIN plans' :
              /\ plans'[n].item \in Def => defs'[plans'[n].item] # None
              /\ \A k \in DOMAIN plans'[n].commands : \A d \in plans'[n].commands[k].on :
                   d \in Def => defs'[d] # None
         /\ \A op \in DOMAIN receipts' : /\ ReceiptIn(op, plans', receipts')
                                         /\ receipts'[op] \in Made
                                         /\ receipts'[op] \in Def => defs'[receipts'[op]] # None
         /\ defs' \in [Def -> Known] /\ \A d \in Def : defs[d] # None => defs'[d] # None
<1>1. ServerGoes \/ (PlanMade /\ UNCHANGED server)
  BY Steps, AsideRests, ServerRests, ArrivesServes, ArrivesLateServes, PressedMakes, MorningMakes
<1>2. CASE ServerGoes
  <2>1. plans' = plans /\ Extends(plans, receipts, plans', receipts')
    BY <1>2 DEF ServerGoes, Extends
  <2>2. \A n \in DOMAIN plans' :
          /\ plans'[n].item \in Def => defs'[plans'[n].item] # None
          /\ \A k \in DOMAIN plans'[n].commands : \A d \in plans'[n].commands[k].on :
               d \in Def => defs'[d] # None
    BY <1>2 DEF ServerGoes, Existing, There
  <2>3. PlansRight'
    BY <2>1 DEF PlansRight
  <2> QED BY <1>2, <2>1, <2>2, <2>3 DEF ServerGoes, Typed
<1>3. CASE PlanMade /\ UNCHANGED server
  <2>1. receipts' = receipts /\ defs' = defs
    BY <1>3 DEF server
  <2>2. PICK item \in Routine \cup {None}, touched \in SUBSET (Field \cup {"on"}),
             commands \in Seq(Commands) : Plans(item, touched, commands)
    BY <1>3 DEF PlanMade
  <2>3. plans' \in Seq(PlanRecord) /\ Extends(plans, receipts, plans', receipts')
    BY <2>1, <2>2, PlanGrows DEF Extends
  <2>4. \A op \in DOMAIN receipts' : ReceiptIn(op, plans', receipts')
    BY <2>1, <2>3, ProgressLasts
  <2>5. /\ PlansRight'
        /\ \A n \in DOMAIN plans' :
             /\ There(plans'[n].item)
             /\ \A k \in DOMAIN plans'[n].commands : \A d \in plans'[n].commands[k].on : There(d)
    BY <1>3, PlanMadeKeeps
  <2> QED BY <2>1, <2>3, <2>4, <2>5 DEF There, Typed, Existing
<1> QED BY <1>1, <1>2, <1>3

-----------------------------------------------------------------------------
(* The saves under way.                                                    *)

LEMMA RunStarts ==
  ASSUME NEW plan \in Place
  PROVE  /\ Run(plan, TRUE) \in RunRecord /\ PlanOf(Run(plan, TRUE)) = plan
         /\ Run(plan, TRUE).n = plan.n /\ Run(plan, TRUE).here
<1>1. Run(plan, TRUE) \in RunRecord
  BY DEF Run, RunRecord, Place, Waiting, Made
<1>2. PlanOf(Run(plan, TRUE)) = plan
  BY DEF Run, PlanOf, Place
<1> QED BY <1>1, <1>2 DEF Run

LEMMA RunStartsIn ==
  ASSUME NEW plan \in Place, NEW ps, NEW rs, PlacedIn(plan, ps, rs)
  PROVE  RunIn(Run(plan, TRUE), ps, rs)
<1>1. PlanOf(Run(plan, TRUE)) = plan
  BY DEF Run, PlanOf, Place
<1>2. Run(plan, TRUE).sent = FALSE /\ Run(plan, TRUE).reply = Waiting
  BY DEF Run
<1>3. Waiting.code # "ok"
  BY RoutinesAssumption DEF Waiting
<1> QED BY <1>1, <1>2, <1>3 DEF RunIn

\* What the record of a save becomes as it is sent, answered or left.
LEMMA RunChanges ==
  ASSUME NEW r \in RunRecord, NEW ps, NEW rs, RunIn(r, ps, rs)
  PROVE  /\ \A here \in BOOLEAN :
              /\ [r EXCEPT !.here = here] \in RunRecord
              /\ RunIn([r EXCEPT !.here = here], ps, rs)
         /\ /\ [r EXCEPT !.sent = TRUE] \in RunRecord
            /\ r.next <= Len(ps[r.n].commands) => RunIn([r EXCEPT !.sent = TRUE], ps, rs)
         /\ \A reply \in Replies :
              /\ [r EXCEPT !.reply = reply] \in RunRecord
              /\ r.sent /\ (reply.code = "ok" => /\ <<r.n, r.next>> \in DOMAIN rs
                                                 /\ reply.made = rs[<<r.n, r.next>>])
                   => RunIn([r EXCEPT !.reply = reply], ps, rs)
<1>1. /\ \A here : PlanOf([r EXCEPT !.here = here]) = PlanOf(r)
      /\ PlanOf([r EXCEPT !.sent = TRUE]) = PlanOf(r)
      /\ \A reply : PlanOf([r EXCEPT !.reply = reply]) = PlanOf(r)
  BY DEF RunRecord, PlanOf
<1>2. ASSUME NEW here \in BOOLEAN
      PROVE  /\ [r EXCEPT !.here = here] \in RunRecord
             /\ RunIn([r EXCEPT !.here = here], ps, rs)
  BY <1>1 DEF RunRecord, RunIn
<1>3. /\ [r EXCEPT !.sent = TRUE] \in RunRecord
      /\ r.next <= Len(ps[r.n].commands) => RunIn([r EXCEPT !.sent = TRUE], ps, rs)
  BY <1>1 DEF RunRecord, RunIn
<1>4. ASSUME NEW reply \in Replies
      PROVE  /\ [r EXCEPT !.reply = reply] \in RunRecord
             /\ r.sent /\ (reply.code = "ok" => /\ <<r.n, r.next>> \in DOMAIN rs
                                                /\ reply.made = rs[<<r.n, r.next>>])
                  => RunIn([r EXCEPT !.reply = reply], ps, rs)
  <2>1. reply \in [code : {None, "ok", "refused"}, made : Made]
    BY RepliesTyped
  <2> QED BY <1>1, <2>1 DEF RunRecord, RunIn
<1> QED BY <1>2, <1>3, <1>4

\* A new plan begins at its first command.
LEMMA PlaceStarts ==
  ASSUME Typed, NEW item \in Routine \cup {None}, NEW touched \in SUBSET (Field \cup {"on"}),
         NEW commands \in Seq(Commands), Plans(item, touched, commands),
         item = New => Len(commands) > 0 /\ commands[1].kind = "create",
         NEW plan, plan = [n |-> Number, next |-> 1, target |-> IF item = New THEN None ELSE item]
  PROVE  /\ plan \in Place /\ plan.n = Number /\ plan.n # 0 /\ plans'[plan.n].item = item
         /\ PlacedIn(plan, plans', receipts')
<1>1. /\ Number \in Nat /\ Number # 0 /\ Number \in DOMAIN plans'
      /\ plans'[Number] = [item |-> item, touched |-> touched, commands |-> commands]
  BY PlanGrows
<1>2. plan \in Place
  BY <1>1 DEF Place, Made, Routine
<1>3. Len(commands) \in Nat /\ plans'[Number].commands = commands /\ plans'[Number].item = item
  BY <1>1, LenProperties
<1>4. 1 \in 1..Len(commands) + 1 /\ \A j \in 1..1 - 1 : <<Number, j>> \in DOMAIN receipts'
  BY <1>3
<1>5. ~Creates(plans'[Number]) => plan.target = item
  BY <1>3 DEF Creates
<1> QED BY <1>1, <1>2, <1>3, <1>4, <1>5 DEF PlacedIn

LEMMA AsideRuns ==
  ASSUME Typed, PlansRight, Existing, Progress, Aside, NEW r \in runs'
  PROVE  r \in RunRecord /\ RunIn(r, plans, receipts)
<1>0. \A q \in runs : q \in RunRecord /\ RunIn(q, plans, receipts)
  BY DEF Typed, Progress
<1>1. ASSUME NEW q \in runs, Send(q) PROVE r \in RunRecord /\ RunIn(r, plans, receipts)
  <2>1. q.next <= Len(plans[q.n].commands)
    <3>1. q.next \in 1..Len(plans[q.n].commands) + 1 /\ Len(plans[q.n].commands) \in Nat
      BY RunFacts, PlansTyped
    <3>2. ~(q.next > Len(plans[q.n].commands))
      BY <1>1 DEF Send, Finished
    <3> QED BY <3>1, <3>2
  <2>2. r \in runs \/ r = [q EXCEPT !.sent = TRUE]
    BY <1>1 DEF Send, Goes
  <2> QED BY <1>0, <2>1, <2>2, RunChanges
<1>2. ASSUME NEW q \in runs, Advances(q) PROVE r \in RunRecord /\ RunIn(r, plans, receipts)
  <2>1. r \in runs \/ r = Ahead(q)
    BY <1>2 DEF Advances, Goes
  <2>2. q.reply.code = "ok"
    BY <1>2 DEF Advances
  <2> QED BY <1>0, <2>1, <2>2, AheadRight
<1>3. ASSUME retry PROVE r \in RunRecord /\ RunIn(r, plans, receipts)
  <2>1. sheet \in Sheets /\ sheet.plan.n # 0 /\ sheet # Shut
    BY <1>3 DEF retry, Typed
  <2>2. sheet.plan \in Place /\ PlacedIn(sheet.plan, plans, receipts)
    <3>1. sheet.item # None
      BY <1>3 DEF retry, Existing
    <3> QED BY <2>1, <3>1 DEF Sheets, Progress, RemembersIn
  <2>3. r \in runs \/ r = Run(sheet.plan, TRUE)
    BY <1>3 DEF retry
  <2> QED BY <1>0, <2>2, <2>3, RunStarts, RunStartsIn
<1>4. ASSUME LeavePage PROVE r \in RunRecord /\ RunIn(r, plans, receipts)
  <2>1. PICK q \in runs : r = [q EXCEPT !.here = q.here /\ ~IsSheets(q)]
    BY <1>4 DEF LeavePage
  <2>2. (q.here /\ ~IsSheets(q)) \in BOOLEAN
    OBVIOUS
  <2> QED BY <1>0, <2>1, <2>2, RunChanges
<1>5. ASSUME runs' \subseteq runs PROVE r \in RunRecord /\ RunIn(r, plans, receipts)
  BY <1>0, <1>5
<1> QED BY <1>1, <1>2, <1>3, <1>4, <1>5
        DEF Aside, Stops, Saved, Rejected, NotSent, Lost, Failed, Ends, load, review, CloseSheet,
            OpenSheet, Reload, CloseTab, Unload, vars

LEMMA RunsKept ==
  ASSUME Typed, PlansRight, Existing, Progress, [Next]_vars, NEW r \in runs'
  PROVE  r \in RunRecord /\ RunIn(r, plans', receipts')
<1>1. Extends(plans, receipts, plans', receipts')
  BY Ground
<1>2. \A q \in runs : q \in RunRecord /\ RunIn(q, plans', receipts')
  BY <1>1, ProgressLasts DEF Typed
<1>3. CASE Aside
  <2>1. r \in RunRecord /\ RunIn(r, plans, receipts)
    BY <1>3, AsideRuns
  <2> QED BY <1>1, <2>1, RunLasts
<1>4. ASSUME NEW q \in runs, Arrives(q) PROVE r \in RunRecord /\ RunIn(r, plans', receipts')
  <2>1. PICK reply \in Replies :
          /\ Goes(q, [q EXCEPT !.reply = reply])
          /\ reply.code = "ok" => /\ <<q.n, q.next>> \in DOMAIN receipts'
                                  /\ reply.made = receipts'[<<q.n, q.next>>]
    BY <1>4, ArrivesServes
  <2>2. r \in runs \/ r = [q EXCEPT !.reply = reply]
    BY <2>1 DEF Goes
  <2>3. q.sent
    BY <1>4 DEF Arrives
  <2>4. q \in RunRecord /\ RunIn(q, plans', receipts')
    BY <1>2
  <2>5. /\ [q EXCEPT !.reply = reply] \in RunRecord
        /\ RunIn([q EXCEPT !.reply = reply], plans', receipts')
    BY <2>1, <2>3, <2>4, RunChanges
  <2> QED BY <1>2, <2>2, <2>5
<1>5. ASSUME NEW q \in late, ArrivesLate(q) PROVE r \in RunRecord /\ RunIn(r, plans', receipts')
  BY <1>2, <1>5 DEF ArrivesLate
<1>6. ASSUME NEW i \in Routine, Pressed(i) PROVE r \in RunRecord /\ RunIn(r, plans', receipts')
  <2>1. PICK touched \in SUBSET (Field \cup {"on"}), commands \in Seq(Commands) :
          /\ Begins(i, touched, commands)
          /\ i = New => Len(commands) > 0 /\ commands[1].kind = "create"
    BY <1>6 DEF Pressed
  <2> DEFINE plan == [n |-> Number, next |-> 1, target |-> IF i = New THEN None ELSE i]
  <2>2. Plans(i, touched, commands) /\ (r \in runs \/ r = Run(plan, TRUE))
    BY <2>1 DEF Begins
  <2> HIDE DEF plan
  <2>3. plan \in Place /\ PlacedIn(plan, plans', receipts')
    BY <2>1, <2>2, PlaceStarts DEF plan
  <2> QED BY <1>2, <2>2, <2>3, RunStarts, RunStartsIn
<1>7. ASSUME MorningPressed PROVE r \in RunRecord /\ RunIn(r, plans', receipts')
  <2>1. PICK commands \in Seq(Commands) : Presses(commands)
    BY <1>7 DEF MorningPressed
  <2> DEFINE plan == [n |-> Number, next |-> 1, target |-> None]
  <2>2. Plans(None, {}, commands) /\ (r \in runs \/ r = Run(plan, TRUE))
    BY <2>1 DEF Presses
  <2>3. plan \in Place /\ PlacedIn(plan, plans', receipts')
    <3>1. None # New
      BY RoutinesAssumption DEF Routine
    <3>2. plan = [n |-> Number, next |-> 1, target |-> IF None = New THEN None ELSE None]
      OBVIOUS
    <3> HIDE DEF plan
    <3> QED BY <2>2, <3>1, <3>2, PlaceStarts
  <2> HIDE DEF plan
  <2> QED BY <1>2, <2>2, <2>3, RunStarts, RunStartsIn
<1> QED BY <1>3, <1>4, <1>5, <1>6, <1>7, Steps

-----------------------------------------------------------------------------
(* What is kept and shown of them.                                         *)

LEMMA NothingKept ==
  NoPlan \in Place /\ \A item, ps, rs : RemembersIn(NoPlan, item, ps, rs)
BY DEF NoPlan, Place, Made, RemembersIn

LEMMA LateKept ==
  ASSUME Typed, PlansRight, Existing, Progress, [Next]_vars, NEW q \in late'
  PROVE  q \in Place /\ LateIn(q, plans', receipts')
<1>1. Extends(plans, receipts, plans', receipts')
  BY Ground
<1>2. \A p \in late : p \in Place /\ LateIn(p, plans', receipts')
  BY <1>1, ProgressLasts DEF Typed
<1>3. ASSUME NEW r \in runs, r.sent, q = PlanOf(r)
      PROVE  q \in Place /\ LateIn(q, plans', receipts')
  <2>1. /\ PlanOf(r) \in Place /\ PlacedIn(PlanOf(r), plans, receipts)
        /\ RunIn(r, plans, receipts)
    BY RunFacts
  <2>2. LateIn(PlanOf(r), plans, receipts)
    BY <1>3, <2>1 DEF RunIn, LateIn, PlanOf
  <2> QED BY <1>1, <1>3, <2>1, <2>2, OthersLast
<1>4. q \in late \/ \E r \in runs : r.sent /\ q = PlanOf(r)
  <2>1. ASSUME NEW r \in runs, Lost(r) PROVE q \in late \/ \E p \in runs : p.sent /\ q = PlanOf(p)
    BY <2>1 DEF Lost
  <2>2. ASSUME Reload \/ CloseTab PROVE q \in late \/ \E p \in runs : p.sent /\ q = PlanOf(p)
    BY <2>2 DEF Reload, CloseTab, Unload
  <2>3. ASSUME late' \subseteq late PROVE q \in late \/ \E p \in runs : p.sent /\ q = PlanOf(p)
    BY <2>3
  <2>4. CASE Aside
    BY <2>1, <2>2, <2>3, <2>4
       DEF Aside, Send, Stops, Advances, Saved, Rejected, NotSent, load, retry, review, CloseSheet,
           OpenSheet, LeavePage, vars
  <2> QED BY <2>3, <2>4, Steps DEF Arrives, ArrivesLate, Pressed, Begins, MorningPressed, Presses
<1> QED BY <1>2, <1>3, <1>4

LEMMA KeptTakes ==
  ASSUME kept \in [Routine -> Place], NEW ps, NEW rs,
         \A i \in Routine : RemembersIn(kept[i], i, ps, rs),
         NEW item \in Routine, NEW plan \in Place, RemembersIn(plan, item, ps, rs),
         kept' = Kept(item, plan)
  PROVE  kept' \in [Routine -> Place] /\ \A i \in Routine : RemembersIn(kept'[i], i, ps, rs)
BY DEF Kept

LEMMA KeptKept ==
  ASSUME Typed, PlansRight, Existing, Progress, [Next]_vars
  PROVE  /\ kept' \in [Routine -> Place]
         /\ \A i \in Routine : RemembersIn(kept'[i], i, plans', receipts')
<1> DEFINE Goal == /\ kept' \in [Routine -> Place]
                   /\ \A i \in Routine : RemembersIn(kept'[i], i, plans', receipts')
<1>1. Extends(plans, receipts, plans', receipts')
  BY Ground
<1>2. kept \in [Routine -> Place] /\ \A i \in Routine : RemembersIn(kept[i], i, plans', receipts')
  BY <1>1, ProgressLasts DEF Typed
<1>3. ASSUME NEW item \in Routine, NEW plan \in Place, RemembersIn(plan, item, plans', receipts'),
             kept' = Kept(item, plan)
      PROVE  Goal
  BY <1>2, <1>3, KeptTakes
<1>4. ASSUME NEW item \in Routine, kept' = Kept(item, NoPlan) PROVE Goal
  BY <1>3, <1>4, NothingKept
<1>5. ASSUME kept' = kept PROVE Goal
  BY <1>2, <1>5
<1> HIDE DEF Goal
<1>6. ASSUME NEW r \in runs, Advances(r) PROVE Goal
  <2>1. CASE IsSheets(r)
    <3>1. kept' = Kept(plans[r.n].item, PlanOf(Ahead(r))) /\ plans[r.n].item \in Routine
      BY <1>6, <2>1 DEF Advances, IsSheets
    <3>2. /\ PlanOf(Ahead(r)) \in Place /\ PlanOf(Ahead(r)).n = r.n
          /\ PlacedIn(PlanOf(Ahead(r)), plans, receipts) /\ r.n # 0
      BY <1>6, AheadRight, RunFacts DEF Advances
    <3>3. RemembersIn(PlanOf(Ahead(r)), plans[r.n].item, plans, receipts)
      BY <3>2 DEF RemembersIn
    <3>4. RemembersIn(PlanOf(Ahead(r)), plans[r.n].item, plans', receipts')
      BY <1>1, <3>3, OthersLast
    <3> QED BY <1>3, <3>1, <3>2, <3>4
  <2>2. CASE ~IsSheets(r)
    BY <1>5, <1>6, <2>2 DEF Advances
  <2> QED BY <2>1, <2>2
<1>7. ASSUME NEW r \in runs, Saved(r) PROVE Goal
  BY <1>4, <1>5, <1>7 DEF Saved, IsSheets
<1>8. ASSUME review PROVE Goal
  <2>1. sheet.item \in Routine
    BY <1>8, RoutinesAssumption DEF review, Existing, Typed, Sheets
  <2> QED BY <1>4, <1>8, <2>1 DEF review
<1>9. ASSUME CloseTab PROVE Goal
  <2>1. kept' = [i \in Routine |-> NoPlan]
    BY <1>9 DEF CloseTab
  <2> QED BY <2>1, NothingKept DEF Goal
<1>10. ASSUME Aside PROVE kept' = kept \/ Goal
  BY <1>5, <1>6, <1>7, <1>8, <1>9, <1>10
     DEF Aside, Send, Stops, Rejected, NotSent, Lost, Failed, load, retry, CloseSheet, OpenSheet,
         LeavePage, Reload, memory, vars
<1>11. ASSUME NEW i \in Routine, Pressed(i) PROVE Goal
  <2>1. PICK touched \in SUBSET (Field \cup {"on"}), commands \in Seq(Commands) :
          /\ Begins(i, touched, commands)
          /\ i = New => Len(commands) > 0 /\ commands[1].kind = "create"
    BY <1>11 DEF Pressed
  <2> DEFINE plan == [n |-> Number, next |-> 1, target |-> IF i = New THEN None ELSE i]
  <2>2. Plans(i, touched, commands) /\ kept' = Kept(i, plan)
    BY <2>1 DEF Begins
  <2> HIDE DEF plan
  <2>3. plan \in Place /\ PlacedIn(plan, plans', receipts') /\ plan.n # 0 /\ plans'[plan.n].item = i
    BY <2>1, <2>2, PlaceStarts DEF plan
  <2>4. RemembersIn(plan, i, plans', receipts')
    BY <2>3 DEF RemembersIn
  <2> QED BY <1>3, <2>2, <2>3, <2>4
<1>12. kept' = kept \/ Goal
  BY <1>10, <1>11, Steps DEF Arrives, ArrivesLate, MorningPressed, Presses, memory
<1> QED BY <1>5, <1>12 DEF Goal

\* The open sheet: its routine is in the list, and its plan one of the routine.
SheetIn(s, ps, rs, shown) ==
  /\ s \in Sheets
  /\ IF s.item = None THEN s = Shut ELSE s.opened \in RoutineState /\ RemembersIn(s.plan, s.item, ps, rs)
  /\ s.item \in Def => shown[s.item] # None

LEMMA SheetOpen ==
  ASSUME Typed, Existing, Progress PROVE SheetIn(sheet, plans, receipts, list)
BY DEF Typed, Existing, Progress, SheetIn

LEMMA ShutIn ==
  ASSUME NEW ps, NEW rs, NEW shown PROVE SheetIn(Shut, ps, rs, shown)
<1>1. None \notin Def
  BY RoutinesAssumption DEF Routine
<1>2. Shut.item = None /\ Shut \in Sheets
  BY NothingKept DEF Shut, Sheets, Known
<1> QED BY <1>1, <1>2 DEF SheetIn

LEMMA SheetTakes ==
  ASSUME NEW s, NEW ps, NEW rs, NEW shown, SheetIn(s, ps, rs, shown), s.item # None,
         NEW plan \in Place, RemembersIn(plan, s.item, ps, rs), NEW looks \in BOOLEAN
  PROVE  SheetIn([s EXCEPT !.plan = plan, !.review = looks], ps, rs, shown)
<1> DEFINE t == [s EXCEPT !.plan = plan, !.review = looks]
<1>1. s \in Sheets
  BY DEF SheetIn
<1>2. t \in Sheets /\ t.item = s.item /\ t.opened = s.opened /\ t.plan = plan
  BY <1>1 DEF Sheets
<1> HIDE DEF t
<1>3. SheetIn(t, ps, rs, shown)
  BY <1>2 DEF SheetIn
<1> QED BY <1>3 DEF t

\* The save under way from the sheet is one of its plan.
LEMMA SheetOfRun ==
  ASSUME Typed, Existing, Progress, OneSave, NEW r \in runs, r.here, IsSheets(r)
  PROVE  /\ sheet.item = plans[r.n].item /\ sheet.item \in Routine /\ sheet.item # None
         /\ sheet.plan = PlanOf(r) /\ sheet.plan.n = r.n /\ r.n # 0
BY RunFacts, RoutinesAssumption DEF OneSave, IsSheets, PlanOf

LEMMA SheetKept ==
  ASSUME Typed, PlansRight, Existing, Progress, OneSave, [Next]_vars
  PROVE  SheetIn(sheet', plans', receipts', list')
<1>1. Extends(plans, receipts, plans', receipts')
  BY Ground
<1>2. SheetIn(sheet, plans', receipts', list)
  BY <1>1, ProgressLasts DEF Typed, Existing, SheetIn
<1>3. ASSUME sheet' = sheet, list' = list PROVE SheetIn(sheet', plans', receipts', list')
  BY <1>2, <1>3
<1>4. ASSUME sheet' = Shut PROVE SheetIn(sheet', plans', receipts', list')
  BY <1>4, ShutIn
<1>5. ASSUME sheet.item # None, list' = list, NEW plan \in Place, NEW looks \in BOOLEAN,
             sheet' = [sheet EXCEPT !.plan = plan, !.review = looks],
             RemembersIn(plan, sheet.item, plans', receipts')
      PROVE  SheetIn(sheet', plans', receipts', list')
  BY <1>2, <1>5, SheetTakes
<1>6. ASSUME sheet.item # None, list' = list, NEW looks \in BOOLEAN,
             sheet' = [sheet EXCEPT !.review = looks]
      PROVE  SheetIn(sheet', plans', receipts', list')
  <2>1. sheet' = [sheet EXCEPT !.plan = sheet.plan, !.review = looks] /\ sheet.plan \in Place
    BY <1>2, <1>6 DEF SheetIn, Sheets
  <2> QED BY <1>2, <1>5, <1>6, <2>1 DEF SheetIn
<1>7. ASSUME NEW r \in runs, Advances(r) PROVE SheetIn(sheet', plans', receipts', list')
  <2>1. CASE IsSheets(r) /\ r.here
    <3>1. sheet' = [sheet EXCEPT !.plan = PlanOf(Ahead(r))] /\ list' = list
      BY <1>7, <2>1 DEF Advances
    <3>2. sheet' = [sheet EXCEPT !.plan = PlanOf(Ahead(r)), !.review = sheet.review]
          /\ sheet.review \in BOOLEAN
      BY <1>2, <3>1 DEF SheetIn, Sheets
    <3>3. /\ PlanOf(Ahead(r)) \in Place /\ PlanOf(Ahead(r)).n = r.n
          /\ PlacedIn(PlanOf(Ahead(r)), plans, receipts)
      BY <1>7, AheadRight DEF Advances
    <3>4. sheet.item = plans[r.n].item /\ sheet.item # None /\ r.n # 0
      BY <2>1, SheetOfRun
    <3>5. RemembersIn(PlanOf(Ahead(r)), sheet.item, plans', receipts')
      BY <1>1, <3>3, <3>4, OthersLast DEF RemembersIn
    <3> QED BY <1>5, <3>1, <3>2, <3>3, <3>4, <3>5
  <2>2. CASE ~(IsSheets(r) /\ r.here)
    BY <1>3, <1>7, <2>2 DEF Advances
  <2> QED BY <2>1, <2>2
<1>8. ASSUME NEW r \in runs, NEW looks \in BOOLEAN, Failed(r, looks)
      PROVE  SheetIn(sheet', plans', receipts', list')
  <2>1. CASE IsSheets(r) /\ r.here
    BY <1>6, <1>8, <2>1, SheetOfRun DEF Failed
  <2>2. CASE ~(IsSheets(r) /\ r.here)
    BY <1>3, <1>8, <2>2 DEF Failed
  <2> QED BY <2>1, <2>2
<1>9. ASSUME load PROVE SheetIn(sheet', plans', receipts', list')
  <2>1. list' = defs /\ sheet' = sheet
    BY <1>9 DEF load
  <2> QED BY <1>2, <2>1 DEF SheetIn, Existing, There
<1>10. ASSUME retry PROVE SheetIn(sheet', plans', receipts', list')
  <2>1. sheet.item # None
    BY <1>10 DEF retry, Existing
  <2> QED BY <1>6, <1>10, <2>1 DEF retry, screen
<1>11. ASSUME NEW i \in Routine, OpenSheet(i) PROVE SheetIn(sheet', plans', receipts', list')
  <2>1. /\ sheet' = [item |-> i, opened |-> Shown(i), plan |-> kept[i], review |-> FALSE]
        /\ list' = list /\ (i # New => list[i] # None)
    BY <1>11 DEF OpenSheet
  <2>2. i # None /\ Blank \in RoutineState /\ New \notin Def
    BY RoutinesAssumption DEF Blank, RoutineState
  <2>3. Shown(i) \in RoutineState
    BY <2>1, <2>2 DEF Shown, Typed, Known, Routine
  <2>4. kept[i] \in Place /\ RemembersIn(kept[i], i, plans', receipts')
    BY <1>1, ProgressLasts DEF Typed
  <2>5. sheet' \in Sheets /\ sheet'.item = i /\ sheet'.opened = Shown(i) /\ sheet'.plan = kept[i]
    BY <2>1, <2>3, <2>4 DEF Sheets, Known
  <2> QED BY <2>1, <2>2, <2>3, <2>4, <2>5 DEF SheetIn
<1>12. ASSUME NEW r \in runs, Saved(r) PROVE SheetIn(sheet', plans', receipts', list')
  BY <1>3, <1>4, <1>12 DEF Saved
<1>13. CASE Aside
  <2>1. ASSUME NEW r \in runs, Rejected(r) \/ NotSent(r) \/ Lost(r)
        PROVE  SheetIn(sheet', plans', receipts', list')
    BY <1>8, <2>1 DEF Rejected, NotSent, Lost
  <2>2. ASSUME review \/ CloseSheet \/ LeavePage \/ Reload \/ CloseTab
        PROVE  SheetIn(sheet', plans', receipts', list')
    BY <1>4, <2>2 DEF review, CloseSheet, LeavePage, Reload, CloseTab, Unload, Blanked
  <2>3. ASSUME (\E r \in runs : Send(r) \/ Stops(r)) \/ UNCHANGED vars
        PROVE  SheetIn(sheet', plans', receipts', list')
    BY <1>3, <2>3 DEF Send, Stops, screen, vars
  <2> QED BY <1>7, <1>9, <1>10, <1>11, <1>12, <1>13, <2>1, <2>2, <2>3 DEF Aside
<1>14. ASSUME NEW i \in Routine, Pressed(i), sheet.item = i
       PROVE  SheetIn(sheet', plans', receipts', list')
  <2>1. PICK touched \in SUBSET (Field \cup {"on"}), commands \in Seq(Commands) :
          /\ Begins(i, touched, commands)
          /\ i = New => Len(commands) > 0 /\ commands[1].kind = "create"
    BY <1>14 DEF Pressed
  <2> DEFINE plan == [n |-> Number, next |-> 1, target |-> IF i = New THEN None ELSE i]
  <2>2. /\ Plans(i, touched, commands) /\ list' = list
        /\ sheet' = [sheet EXCEPT !.plan = plan, !.review = FALSE]
    BY <2>1 DEF Begins
  <2> HIDE DEF plan
  <2>3. plan \in Place /\ PlacedIn(plan, plans', receipts') /\ plan.n # 0 /\ plans'[plan.n].item = i
    BY <2>1, <2>2, PlaceStarts DEF plan
  <2>4. RemembersIn(plan, i, plans', receipts') /\ i # None
    BY <2>3, RoutinesAssumption DEF RemembersIn
  <2> QED BY <1>5, <1>14, <2>2, <2>3, <2>4
<1>15. ASSUME (\E r \in runs : Arrives(r)) \/ (\E q \in late : ArrivesLate(q)) \/ MorningPressed
       PROVE  SheetIn(sheet', plans', receipts', list')
  BY <1>3, <1>15 DEF Arrives, ArrivesLate, MorningPressed, Presses, screen
<1> QED BY <1>13, <1>14, <1>15, Steps

LEMMA ListsKept ==
  ASSUME Typed, PlansRight, Existing, Progress, [Next]_vars
  PROVE  /\ list' \in [Def -> Known] /\ rows' \in [Def -> Known] /\ start' = start /\ storage' = storage
         /\ \A d \in Def : list'[d] # None \/ rows'[d] # None => defs'[d] # None
<1>1. defs \in [Def -> Known] /\ list \in [Def -> Known] /\ rows \in [Def -> Known]
  BY DEF Typed
<1>2. \A d \in Def : list[d] # None \/ rows[d] # None \/ defs[d] # None => defs'[d] # None
  BY Ground DEF Existing, There
<1>3. list' = list \/ list' = defs \/ list' = [d \in Def |-> None]
  <2>1. CASE Aside
    BY <2>1 DEF Aside, Send, Stops, Advances, Saved, Rejected, NotSent, Lost, Failed, load, retry, review,
       CloseSheet, OpenSheet, LeavePage, Reload, CloseTab, Unload, Blanked, screen, vars
  <2> QED BY <2>1, Steps DEF Arrives, ArrivesLate, Pressed, Begins, MorningPressed, Presses, screen
<1>4. rows' = rows \/ rows' = defs
  <2>1. CASE Aside
    BY <2>1 DEF Aside, Send, Stops, Advances, Saved, Rejected, NotSent, Lost, Failed, load, retry, review,
       CloseSheet, OpenSheet, LeavePage, Reload, CloseTab, vars
  <2> QED BY <2>1, Steps DEF Arrives, ArrivesLate, Pressed, Begins, MorningPressed, Presses
<1>5. start' = start /\ storage' = storage
  <2>1. CASE Aside
    BY <2>1 DEF Aside, Send, Stops, Advances, Saved, Rejected, NotSent, Lost, Failed, load, retry, review,
       CloseSheet, OpenSheet, LeavePage, Reload, CloseTab, memory, vars
  <2> QED BY <2>1, Steps DEF Arrives, ArrivesLate, Pressed, Begins, MorningPressed, Presses, memory
<1>6. list' \in [Def -> Known] /\ \A d \in Def : list'[d] # None => defs'[d] # None
  BY <1>1, <1>2, <1>3 DEF Known
<1>7. rows' \in [Def -> Known] /\ \A d \in Def : rows'[d] # None => defs'[d] # None
  BY <1>1, <1>2, <1>4
<1> QED BY <1>5, <1>6, <1>7

LEMMA SheetPlanMade ==
  ASSUME Typed, Existing, Progress, sheet.plan.n # 0 PROVE sheet.plan.n \in DOMAIN plans
BY DEF Existing, Progress, RemembersIn, PlacedIn, Shut, NoPlan

LEMMA MarksKept ==
  ASSUME Typed, PlansRight, Existing, Progress, [Next]_vars
  PROVE  /\ told' \cup dropped' \cup overwritten' \subseteq DOMAIN plans'
         /\ \A n \in told' : DoneIn(n, plans', receipts')
<1>1. Extends(plans, receipts, plans', receipts')
  BY Ground
<1>2. /\ told \cup dropped \cup overwritten \subseteq DOMAIN plans'
      /\ \A n \in told : DoneIn(n, plans', receipts')
  BY <1>1, ProgressLasts DEF Typed, Extends
<1>3. \A n \in told' : n \in told \/ (n \in DOMAIN plans /\ DoneIn(n, plans, receipts))
  <2>1. ASSUME NEW r \in runs, Saved(r) PROVE r.n \in DOMAIN plans /\ DoneIn(r.n, plans, receipts)
    <3>1. r.n \in DOMAIN plans /\ PlacedIn(PlanOf(r), plans, receipts)
      BY RunFacts
    <3>2. r.next > Len(plans[r.n].commands)
      BY <2>1 DEF Saved, Finished
    <3>3. /\ r.next \in 1..Len(plans[r.n].commands) + 1
          /\ \A j \in 1..r.next - 1 : <<r.n, j>> \in DOMAIN receipts
      BY <3>1 DEF PlacedIn, PlanOf
    <3>4. Len(plans[r.n].commands) \in Nat /\ DOMAIN plans[r.n].commands = 1..Len(plans[r.n].commands)
      BY <3>1, PlansTyped
    <3>5. r.next - 1 = Len(plans[r.n].commands)
      BY <3>2, <3>3, <3>4
    <3> QED BY <3>1, <3>3, <3>4, <3>5 DEF DoneIn
  <2>2. CASE Aside
    <3>1. told' = told \/ \E r \in runs : Saved(r) /\ told' = told \cup {r.n}
      BY <2>2 DEF Aside, Send, Stops, Advances, Saved, Rejected, NotSent, Lost, Failed, load, retry, review,
         CloseSheet, OpenSheet, LeavePage, Reload, CloseTab, vars
    <3> QED BY <2>1, <3>1
  <2>3. ASSUME told' = told PROVE \A n \in told' : n \in told
    BY <2>3
  <2> QED BY <2>2, <2>3, Steps DEF Arrives, ArrivesLate, Pressed, Begins, MorningPressed, Presses
<1>4. \A n \in dropped' : n \in dropped \/ n \in DOMAIN plans
  <2>1. ASSUME Drops(sheet.plan.n) PROVE dropped' \subseteq dropped \cup DOMAIN plans
    BY <2>1, SheetPlanMade DEF Drops
  <2>2. ASSUME Leaves PROVE dropped' \subseteq dropped \cup DOMAIN plans
    BY <2>1, <2>2 DEF Leaves
  <2>3. ASSUME CloseTab PROVE dropped' \subseteq dropped \cup DOMAIN plans
    BY <2>3, PlansTyped DEF CloseTab
  <2>4. CASE Aside
    BY <2>1, <2>2, <2>3, <2>4
       DEF Aside, Send, Stops, Advances, Saved, Rejected, NotSent, Lost, Failed, load, retry, review,
           CloseSheet, OpenSheet, LeavePage, Reload, memory, vars
  <2> QED BY <2>4, Steps DEF Arrives, ArrivesLate, Pressed, Begins, MorningPressed, Presses, memory
<1>5. \A n \in overwritten' : n \in overwritten \/ n \in DOMAIN plans
  <2>1. ASSUME NEW r \in runs, Advances(r) PROVE overwritten' \subseteq overwritten \cup DOMAIN plans
    BY <2>1 DEF Advances, Replaced
  <2>2. CASE Aside
    BY <2>1, <2>2
       DEF Aside, Send, Stops, Saved, Rejected, NotSent, Lost, Failed, load, retry, review,
           CloseSheet, OpenSheet, LeavePage, Reload, CloseTab, memory, vars
  <2> QED BY <2>2, Steps DEF Arrives, ArrivesLate, Pressed, Begins, MorningPressed, Presses, memory
<1>6. \A n \in DOMAIN plans : n \in DOMAIN plans' /\ (DoneIn(n, plans, receipts) => DoneIn(n, plans', receipts'))
  BY <1>1, OthersLast DEF Extends
<1> QED BY <1>2, <1>3, <1>4, <1>5, <1>6

\* So all that is known of the saves lasts.
LEMMA ProgressKept ==
  ASSUME Typed, PlansRight, Existing, Progress, OneSave, [Next]_vars
  PROVE  Typed' /\ PlansRight' /\ Existing' /\ Progress'
<1>1. /\ PlansRight' /\ plans' \in Seq(PlanRecord) /\ defs' \in [Def -> Known]
      /\ \A n \in DOMAIN plans' :
           /\ plans'[n].item \in Def => defs'[plans'[n].item] # None
           /\ \A k \in DOMAIN plans'[n].commands : \A d \in plans'[n].commands[k].on :
                d \in Def => defs'[d] # None
      /\ \A op \in DOMAIN receipts' : /\ ReceiptIn(op, plans', receipts')
                                      /\ receipts'[op] \in Made
                                      /\ receipts'[op] \in Def => defs'[receipts'[op]] # None
  BY Ground
<1>2. SheetIn(sheet', plans', receipts', list')
  BY SheetKept
<1>3. Typed'
  BY <1>1, <1>2, RunsKept, LateKept, KeptKept, ListsKept, MarksKept DEF Typed, SheetIn
<1>4. Existing'
  BY <1>1, <1>2, ListsKept DEF Existing, There, SheetIn
<1>5. Progress'
  BY <1>1, <1>2, RunsKept, LateKept, KeptKept, MarksKept DEF Progress, SheetIn
<1> QED BY <1>1, <1>3, <1>4, <1>5

-----------------------------------------------------------------------------
(* One save from the sheet at a time.                                      *)

\* A save from the sheet that is open.
FromSheet(r) == r.here /\ IsSheets(r)

LEMMA FromSheetLasts ==
  ASSUME Typed, PlansRight, Existing, Progress, [Next]_vars, NEW r, r.n \in DOMAIN plans
  PROVE  plans'[r.n] = plans[r.n] /\ (IsSheets(r)' <=> IsSheets(r))
<1>1. plans'[r.n] = plans[r.n]
  BY Ground DEF Extends
<1> QED BY <1>1 DEF IsSheets

LEMMA OneSaveKept ==
  ASSUME Typed, PlansRight, Existing, Progress, OneSave, [Next]_vars
  PROVE  OneSave'
<1>1. \A r \in runs : r.n \in DOMAIN plans /\ plans'[r.n] = plans[r.n] /\ (IsSheets(r)' <=> IsSheets(r))
  BY RunFacts, FromSheetLasts
<1>2. ASSUME runs' \subseteq runs, sheet'.item = sheet.item, sheet'.plan = sheet.plan PROVE OneSave'
  <2> SUFFICES ASSUME NEW r \in runs', r.here, IsSheets(r)'
               PROVE  /\ sheet'.item = plans'[r.n].item /\ sheet'.plan = PlanOf(r)
                      /\ \A q \in runs' : q.here /\ IsSheets(q)' => q = r
    BY DEF OneSave, PlanOf
  <2> QED BY <1>1, <1>2 DEF OneSave
<1>3. ASSUME NEW r \in runs, NEW to, Goes(r, to), to.here = r.here, to.n = r.n,
             FromSheet(r) => sheet'.item = sheet.item /\ sheet'.plan = PlanOf(to),
             ~FromSheet(r) => sheet' = sheet
      PROVE  OneSave'
  <2> SUFFICES ASSUME NEW p \in runs', p.here, IsSheets(p)'
               PROVE  /\ sheet'.item = plans'[p.n].item /\ sheet'.plan = PlanOf(p)
                      /\ \A q \in runs' : q.here /\ IsSheets(q)' => q = p
    BY DEF OneSave, PlanOf
  <2>1. \A q \in runs' : q = to \/ (q \in runs /\ q # r)
    BY <1>3 DEF Goes
  <2>2. IsSheets(to)' <=> IsSheets(r)
    BY <1>1, <1>3 DEF IsSheets
  <2>3. CASE FromSheet(r)
    <3>1. /\ sheet.item = plans[r.n].item
          /\ \A q \in runs : q.here /\ IsSheets(q) => q = r
      BY <2>3 DEF OneSave, FromSheet
    <3>2. \A q \in runs' : q.here /\ IsSheets(q)' => q = to
      BY <1>1, <2>1, <3>1
    <3> QED BY <1>1, <1>3, <2>3, <3>1, <3>2
  <2>4. CASE ~FromSheet(r)
    <3>1. \A q \in runs' : q.here /\ IsSheets(q)' => q \in runs /\ IsSheets(q)
      BY <1>1, <1>3, <2>1, <2>2, <2>4 DEF FromSheet
    <3> QED BY <1>1, <1>3, <2>4, <3>1 DEF OneSave
  <2> QED BY <2>3, <2>4
<1>4. ASSUME \A r \in runs' : ~(r.here /\ IsSheets(r)') PROVE OneSave'
  BY <1>4 DEF OneSave
<1>5. ASSUME ~Busy, runs' \subseteq runs PROVE OneSave'
  BY <1>1, <1>4, <1>5 DEF Busy
<1>6. ASSUME ~Busy, NEW new, runs' \subseteq runs \cup {new},
             sheet'.item = plans'[new.n].item, sheet'.plan = PlanOf(new)
      PROVE  OneSave'
  <2>1. \A q \in runs' : q.here /\ IsSheets(q)' => q = new
    BY <1>1, <1>6 DEF Busy
  <2> QED BY <1>6, <2>1 DEF OneSave, PlanOf
<1>7. ASSUME NEW r \in runs, NEW to, Goes(r, to), to.here = r.here, PlanOf(to) = PlanOf(r), sheet' = sheet
      PROVE  OneSave'
  <2>1. to.n = r.n
    BY <1>7 DEF PlanOf
  <2>2. FromSheet(r) => sheet'.plan = PlanOf(to)
    BY <1>7 DEF FromSheet, OneSave
  <2> QED BY <1>3, <1>7, <2>1, <2>2
<1>8. ASSUME NEW r \in runs, Send(r) PROVE OneSave'
  <2>1. r \in RunRecord
    BY RunFacts
  <2>2. /\ [r EXCEPT !.sent = TRUE].here = r.here /\ PlanOf([r EXCEPT !.sent = TRUE]) = PlanOf(r)
    BY <2>1 DEF RunRecord, PlanOf
  <2>3. Goes(r, [r EXCEPT !.sent = TRUE]) /\ sheet' = sheet
    BY <1>8 DEF Send, screen
  <2> QED BY <1>7, <2>2, <2>3
<1>9. ASSUME NEW r \in runs, Arrives(r) PROVE OneSave'
  <2>1. r \in RunRecord
    BY RunFacts
  <2>2. PICK reply \in Replies : Goes(r, [r EXCEPT !.reply = reply])
    BY <1>9 DEF Arrives
  <2>3. /\ [r EXCEPT !.reply = reply].here = r.here /\ PlanOf([r EXCEPT !.reply = reply]) = PlanOf(r)
    BY <2>1 DEF RunRecord, PlanOf
  <2>4. sheet' = sheet
    BY <1>9 DEF Arrives, screen
  <2> QED BY <1>7, <2>2, <2>3, <2>4
<1>10. ASSUME NEW r \in runs, Advances(r) PROVE OneSave'
  <2>1. Ahead(r).here = r.here /\ Ahead(r).n = r.n /\ Goes(r, Ahead(r))
    BY <1>10, AheadRight DEF Advances
  <2>2. FromSheet(r) => sheet'.item = sheet.item /\ sheet'.plan = PlanOf(Ahead(r))
    BY <1>10 DEF Advances, FromSheet, Typed, Sheets
  <2>3. ~FromSheet(r) => sheet' = sheet
    BY <1>10 DEF Advances, FromSheet
  <2> QED BY <1>3, <2>1, <2>2, <2>3
<1>11. ASSUME NEW r \in runs, Saved(r) PROVE OneSave'
  <2>1. CASE IsSheets(r)
    <3>1. \A q \in runs : q.here /\ IsSheets(q) => q = r
      BY <1>11, <2>1 DEF Saved, OneSave
    <3>2. runs' = runs \ {r}
      BY <1>11 DEF Saved, Ends
    <3> QED BY <1>1, <1>4, <3>1, <3>2
  <2>2. CASE ~IsSheets(r)
    BY <1>2, <1>11, <2>2 DEF Saved, Ends
  <2> QED BY <2>1, <2>2
<1>12. ASSUME NEW r \in runs, NEW looks, Failed(r, looks) PROVE OneSave'
  <2>1. sheet'.item = sheet.item /\ sheet'.plan = sheet.plan
    BY <1>12 DEF Failed, Typed, Sheets
  <2> QED BY <1>2, <1>12, <2>1 DEF Failed, Ends
<1>13. ASSUME retry PROVE OneSave'
  <2>1. /\ ~Busy /\ runs' = runs \cup {Run(sheet.plan, TRUE)} /\ sheet \in Sheets
        /\ sheet'.item = sheet.item /\ sheet'.plan = sheet.plan /\ sheet.plan.n # 0
    BY <1>13 DEF retry, Typed, Sheets
  <2>2. sheet.plan \in Place /\ PlacedIn(sheet.plan, plans, receipts) /\ plans[sheet.plan.n].item = sheet.item
    BY <1>13, <2>1 DEF retry, Existing, Progress, RemembersIn, Sheets
  <2>3. PlanOf(Run(sheet.plan, TRUE)) = sheet.plan /\ Run(sheet.plan, TRUE).n = sheet.plan.n
    BY <2>2, RunStarts
  <2>4. plans' = plans
    BY <1>13 DEF retry
  <2> QED BY <1>6, <2>1, <2>2, <2>3, <2>4
<1>14. ASSUME LeavePage PROVE OneSave'
  <2>1. ASSUME NEW r \in runs' PROVE ~(r.here /\ IsSheets(r)')
    <3>1. PICK q \in runs : r = [q EXCEPT !.here = q.here /\ ~IsSheets(q)]
      BY <1>14 DEF LeavePage
    <3>2. r.n = q.n /\ r.here = (q.here /\ ~IsSheets(q))
      BY <3>1, RunFacts DEF RunRecord
    <3> QED BY <1>1, <3>2 DEF IsSheets
  <2> QED BY <1>4, <2>1
<1>15. ASSUME Reload \/ CloseTab PROVE OneSave'
  <2>1. runs' = runs \ {r \in runs : IsSheets(r)}
    BY <1>15 DEF Reload, CloseTab, Unload
  <2> QED BY <1>1, <1>4, <2>1
<1>16. ASSUME Aside PROVE OneSave'
  <2>1. ASSUME NEW r \in runs, Rejected(r) \/ NotSent(r) \/ Lost(r) PROVE OneSave'
    BY <1>12, <2>1 DEF Rejected, NotSent, Lost
  <2>2. ASSUME NEW r \in runs, Stops(r) PROVE OneSave'
    BY <1>2, <2>2 DEF Stops, Ends, screen
  <2>3. ASSUME load \/ UNCHANGED vars PROVE OneSave'
    BY <1>2, <2>3 DEF load, screen, vars
  <2>4. ASSUME review \/ CloseSheet \/ \E i \in Routine : OpenSheet(i) PROVE OneSave'
    BY <1>5, <2>4 DEF review, CloseSheet, OpenSheet
  <2> QED BY <1>8, <1>10, <1>11, <1>13, <1>14, <1>15, <1>16, <2>1, <2>2, <2>3, <2>4 DEF Aside
<1>17. ASSUME NEW i \in Routine, Pressed(i), sheet.item = i PROVE OneSave'
  <2>1. PICK touched \in SUBSET (Field \cup {"on"}), commands \in Seq(Commands) :
          /\ Begins(i, touched, commands)
          /\ i = New => Len(commands) > 0 /\ commands[1].kind = "create"
    BY <1>17 DEF Pressed
  <2> DEFINE plan == [n |-> Number, next |-> 1, target |-> IF i = New THEN None ELSE i]
  <2>2. /\ Plans(i, touched, commands) /\ ~Busy /\ runs' = runs \cup {Run(plan, TRUE)}
        /\ sheet' = [sheet EXCEPT !.plan = plan, !.review = FALSE]
    BY <2>1 DEF Begins
  <2> HIDE DEF plan
  <2>3. plan \in Place /\ plans'[plan.n].item = i
    BY <2>1, <2>2, PlaceStarts DEF plan
  <2>4. sheet'.item = i /\ sheet'.plan = plan
    BY <1>17, <2>2 DEF Typed, Sheets
  <2>5. PlanOf(Run(plan, TRUE)) = plan /\ Run(plan, TRUE).n = plan.n
    BY <2>3, RunStarts
  <2> QED BY <1>6, <2>2, <2>3, <2>4, <2>5
<1>18. ASSUME MorningPressed PROVE OneSave'
  <2>1. PICK commands \in Seq(Commands) : Presses(commands)
    BY <1>18 DEF MorningPressed
  <2> DEFINE plan == [n |-> Number, next |-> 1, target |-> None]
  <2>2. Plans(None, {}, commands) /\ runs' = runs \cup {Run(plan, TRUE)} /\ sheet' = sheet
    BY <2>1 DEF Presses, screen
  <2>3. PICK new : new = Run(plan, TRUE)
    OBVIOUS
  <2>4. plans'[Number].item = None
    <3>1. None \in Routine \cup {None} /\ {} \in SUBSET (Field \cup {"on"})
      OBVIOUS
    <3>2. plans'[Number] = [item |-> None, touched |-> {}, commands |-> commands]
      BY <2>2, <3>1, PlanGrows
    <3> QED BY <3>2
  <2>5. new.n = Number
    BY <2>3 DEF Run
  <2>6. ~IsSheets(new)'
    BY <2>4, <2>5, RoutinesAssumption DEF IsSheets
  <2>7. \A r \in runs' : r.here /\ IsSheets(r)' => r \in runs /\ IsSheets(r)
    BY <1>1, <2>2, <2>3, <2>6
  <2> SUFFICES ASSUME NEW r \in runs', r.here, IsSheets(r)'
               PROVE  /\ sheet'.item = plans'[r.n].item /\ sheet'.plan = PlanOf(r)
                      /\ \A q \in runs' : q.here /\ IsSheets(q)' => q = r
    BY DEF OneSave, PlanOf
  <2> QED BY <1>1, <2>2, <2>7 DEF OneSave
<1>19. ASSUME NEW q \in late, ArrivesLate(q) PROVE OneSave'
  BY <1>2, <1>19 DEF ArrivesLate, screen
<1> QED BY <1>9, <1>16, <1>17, <1>18, <1>19, Steps

-----------------------------------------------------------------------------
(* No addition is forgotten.                                               *)

\* Of the plans of additions, all but the one of a press are there before a step; and
\* what is settled stays so.
LEMMA SettledLasts ==
  ASSUME Typed, Existing, [Next]_vars
  PROVE  /\ Settled \subseteq Settled' /\ storage' = storage
         /\ \/ \E i \in Routine : Pressed(i) /\ sheet.item = i
            \/ \A n \in DOMAIN plans' : plans'[n].item = New => n \in DOMAIN plans /\ plans[n].item = New
<1>1. CASE Aside
  <2>1. plans' = plans
    BY <1>1, AsideRests
  <2>2. told \subseteq told' /\ dropped \subseteq dropped' /\ overwritten \subseteq overwritten' /\ storage' = storage
    BY <1>1 DEF Aside, Send, Stops, Advances, Saved, Rejected, NotSent, Lost, Failed, load, retry,
       review, CloseSheet, OpenSheet, LeavePage, Reload, CloseTab, Leaves, Drops, memory, vars
  <2> QED BY <2>1, <2>2 DEF Settled
<1>2. ASSUME MorningPressed PROVE \A n \in DOMAIN plans' : plans'[n].item = New => n \in DOMAIN plans /\ plans[n].item = New
  <2>1. PICK commands \in Seq(Commands) : Plans(None, {}, commands)
    BY <1>2 DEF MorningPressed, Presses
  <2>2. None \in Routine \cup {None} /\ {} \in SUBSET (Field \cup {"on"}) /\ None # New
    BY RoutinesAssumption DEF Routine
  <2>3. /\ DOMAIN plans' = DOMAIN plans \cup {Number}
        /\ plans'[Number] = [item |-> None, touched |-> {}, commands |-> commands]
        /\ \A n \in DOMAIN plans : plans'[n] = plans[n]
    BY <2>1, <2>2, PlanGrows
  <2> QED BY <2>2, <2>3
<1>3. \/ Aside
      \/ /\ told' = told /\ dropped' = dropped /\ overwritten' = overwritten /\ storage' = storage
         /\ plans' = plans \/ MorningPressed \/ \E i \in Routine : Pressed(i) /\ sheet.item = i
  BY Steps DEF Arrives, ArrivesLate, Pressed, Begins, MorningPressed, Presses, memory
<1> QED BY <1>1, <1>2, <1>3 DEF Settled

LEMMA AdditionsKept ==
  ASSUME Typed, PlansRight, Existing, Progress, OneSave, Additions, [Next]_vars
  PROVE  Additions'
<1> DEFINE Past == \A n \in DOMAIN plans' : plans'[n].item = New => n \in DOMAIN plans /\ plans[n].item = New
<1>1. Settled \subseteq Settled' /\ storage' = storage
      /\ (Past \/ \E i \in Routine : Pressed(i) /\ sheet.item = i)
  BY SettledLasts
<1>2. /\ kept \in [Routine -> Place] /\ sheet \in Sheets /\ New \in Routine
      /\ \A n \in DOMAIN plans : n \in Nat /\ n # 0
  BY PlansTyped DEF Typed, Routine
<1>3. /\ ~storage => \A i \in Routine : kept[i] = NoPlan
      /\ sheet.item = New /\ sheet.plan.n # 0 =>
           ~storage \/ kept[New].n = sheet.plan.n \/ sheet.plan.n \in overwritten
      /\ \A n \in DOMAIN plans : plans[n].item = New => n \in Settled \/ Resumed(n)
  BY DEF Additions
<1>4. ASSUME Past, kept' = kept, sheet'.item = sheet.item, sheet'.plan = sheet.plan,
             overwritten \subseteq overwritten'
      PROVE  Additions'
  BY <1>1, <1>3, <1>4 DEF Additions, Resumed
\* The sheet is left.
<1>5. ASSUME Past, sheet' = Shut, sheet.item # None, overwritten \subseteq overwritten',
             ~storage => kept' = kept,
             sheet.item # New => kept'[New] = kept[New],
             sheet.item = New /\ sheet.plan.n # 0 =>
               sheet.plan.n \in Settled' \/ kept'[New].n = sheet.plan.n
      PROVE  Additions'
  <2>1. sheet'.item = None /\ None # New
    BY <1>5, RoutinesAssumption DEF Shut, Routine
  <2>2. ASSUME NEW n \in DOMAIN plans, plans[n].item = New PROVE n \in Settled' \/ Resumed(n)'
    <3>1. n \in Settled \/ Resumed(n)
      BY <1>3, <2>2
    <3> QED BY <1>1, <1>2, <1>5, <2>1, <2>2, <3>1 DEF Resumed
  <2>3. ~storage' => \A i \in Routine : kept'[i] = NoPlan
    BY <1>1, <1>3, <1>5
  <2> QED BY <1>5, <2>1, <2>2, <2>3 DEF Additions
<1>6. ASSUME NEW r \in runs, Advances(r), Past PROVE Additions'
  <2> DEFINE item == plans[r.n].item
             to == PlanOf(Ahead(r))
  <2>1. to.n = r.n /\ to \in Place /\ r.n \in DOMAIN plans
    BY <1>6, AheadRight, RunFacts DEF Advances
  <2>2. CASE ~IsSheets(r)
    BY <1>4, <1>6, <2>2 DEF Advances
  <2>3. CASE IsSheets(r) /\ r.here
    <3>1. /\ kept' = Kept(item, to) /\ sheet' = [sheet EXCEPT !.plan = to]
          /\ overwritten \subseteq overwritten'
      BY <1>6, <2>3 DEF Advances
    <3>2. sheet.item = item /\ sheet.plan.n = r.n /\ item \in Routine
      BY <2>3, SheetOfRun
    <3> HIDE DEF to, item
    <3>3. sheet'.item = sheet.item /\ sheet'.plan = to /\ sheet'.plan.n = sheet.plan.n
      BY <1>2, <2>1, <3>1, <3>2 DEF Sheets
    <3>4. IF storage /\ item = New THEN kept'[New].n = r.n ELSE kept'[New] = kept[New]
      BY <1>2, <2>1, <3>1, <3>2 DEF Kept
    <3>5. \A n \in DOMAIN plans : Resumed(n) => Resumed(n)'
      BY <3>2, <3>3, <3>4 DEF Resumed
    <3>6. ~storage' => \A i \in Routine : kept'[i] = NoPlan
      BY <1>1, <1>3, <3>1 DEF Kept
    <3>7. sheet'.item = New /\ sheet'.plan.n # 0 =>
            ~storage' \/ kept'[New].n = sheet'.plan.n \/ sheet'.plan.n \in overwritten'
      BY <1>1, <3>2, <3>3, <3>4
    <3>8. \A n \in DOMAIN plans' : plans'[n].item = New => n \in Settled' \/ Resumed(n)'
      BY <1>1, <1>3, <1>6, <3>5
    <3> QED BY <3>6, <3>7, <3>8 DEF Additions
  <2>4. CASE IsSheets(r) /\ ~r.here
    <3>1. /\ kept' = Kept(item, to) /\ sheet' = sheet /\ item \in Routine
          /\ overwritten' = overwritten \cup Replaced(r)
      BY <1>6, <2>4 DEF Advances, IsSheets
    <3>2. ASSUME NEW n \in DOMAIN plans, kept[New].n = n
          PROVE  kept'[New].n = n \/ n \in overwritten'
      <4>1. CASE storage /\ item = New /\ n # r.n
        BY <2>4, <3>1, <3>2, <4>1 DEF Replaced
      <4>2. CASE ~(storage /\ item = New /\ n # r.n)
        <5> HIDE DEF to, item
        <5> QED BY <1>2, <2>1, <3>1, <3>2, <4>2 DEF Kept
      <4> QED BY <4>1, <4>2
    <3> HIDE DEF to, item
    <3>3. \A n \in DOMAIN plans : Resumed(n) => Resumed(n)' \/ n \in Settled'
      BY <3>1, <3>2 DEF Resumed, Settled
    <3>4. ~storage' => \A i \in Routine : kept'[i] = NoPlan
      BY <1>1, <1>3, <3>1 DEF Kept
    <3>5. sheet'.item = New /\ sheet'.plan.n # 0 =>
            ~storage' \/ kept'[New].n = sheet'.plan.n \/ sheet'.plan.n \in overwritten'
      <4>1. sheet.plan.n # 0 => sheet.plan.n \in DOMAIN plans
        BY SheetPlanMade
      <4> QED BY <1>1, <1>3, <3>1, <3>2, <4>1
    <3>6. \A n \in DOMAIN plans' : plans'[n].item = New => n \in Settled' \/ Resumed(n)'
      BY <1>1, <1>3, <1>6, <3>3
    <3> QED BY <3>4, <3>5, <3>6 DEF Additions
  <2> QED BY <2>2, <2>3, <2>4
<1>7. ASSUME NEW r \in runs, Saved(r), Past PROVE Additions'
  <2>1. CASE ~IsSheets(r)
    BY <1>4, <1>7, <2>1 DEF Saved
  <2>2. CASE IsSheets(r)
    <3>1. /\ kept' = Kept(plans[r.n].item, NoPlan) /\ sheet' = Shut /\ r.here
          /\ told' = told \cup {r.n} /\ overwritten' = overwritten
      BY <1>7, <2>2 DEF Saved
    <3>2. sheet.item = plans[r.n].item /\ sheet.plan.n = r.n /\ sheet.item \in Routine
          /\ sheet.item # None
      BY <2>2, <3>1, SheetOfRun
    <3>3. /\ ~storage => kept' = kept
          /\ sheet.item # New => kept'[New] = kept[New]
      BY <1>2, <3>1, <3>2 DEF Kept
    <3>4. sheet.plan.n \in Settled'
      BY <3>1, <3>2 DEF Settled
    <3> QED BY <1>5, <1>7, <3>1, <3>2, <3>3, <3>4
  <2> QED BY <2>1, <2>2
\* A sheet whose plan is not resumed any more, or kept as far as there is storage.
<1>8. ASSUME Leaves, sheet.plan.n # 0, sheet.item = New, Settled' = told' \cup dropped' \cup overwritten',
             overwritten \subseteq overwritten'
      PROVE  sheet.plan.n \in Settled' \/ kept[New].n = sheet.plan.n
  BY <1>3, <1>8 DEF Leaves, Drops
<1>9. ASSUME Past, CloseSheet \/ LeavePage \/ Reload PROVE Additions'
  <2>1. sheet' = Shut /\ kept' = kept /\ overwritten' = overwritten /\ Leaves
    BY <1>9 DEF CloseSheet, LeavePage, Reload, Unload, Blanked
  <2>2. CASE sheet.item = None
    <3>1. sheet = Shut
      BY <2>2 DEF Existing
    <3> QED BY <1>4, <1>9, <2>1, <3>1
  <2>3. CASE sheet.item # None
    BY <1>5, <1>8, <1>9, <2>1, <2>3 DEF Settled
  <2> QED BY <2>2, <2>3
<1>10. ASSUME Past, review PROVE Additions'
  <2>1. /\ kept' = Kept(sheet.item, NoPlan) /\ sheet' = Shut /\ overwritten' = overwritten
        /\ Drops(sheet.plan.n) /\ sheet.item # None
    BY <1>10 DEF review, Existing
  <2>2. sheet.item \in Routine
    BY <1>2, <2>1 DEF Sheets
  <2>3. /\ ~storage => kept' = kept
        /\ sheet.item # New => kept'[New] = kept[New]
    BY <1>2, <2>1, <2>2 DEF Kept
  <2>4. sheet.plan.n # 0 => sheet.plan.n \in Settled'
    BY <2>1 DEF Drops, Settled
  <2> QED BY <1>5, <1>10, <2>1, <2>3, <2>4
<1>11. ASSUME Past, CloseTab PROVE Additions'
  <2>1. /\ kept' = [i \in Routine |-> NoPlan] /\ sheet' = Shut
        /\ DOMAIN plans \subseteq dropped'
    BY <1>11, PlansTyped DEF CloseTab, Unload, Blanked
  <2>2. sheet'.item # New
    BY <2>1, RoutinesAssumption DEF Shut, Routine
  <2> QED BY <1>11, <2>1, <2>2 DEF Additions, Settled
<1>12. ASSUME Past, NEW i \in Routine, OpenSheet(i) PROVE Additions'
  <2>1. /\ sheet = Shut /\ kept' = kept /\ overwritten' = overwritten
        /\ sheet'.item = i /\ sheet'.plan = kept[i]
    BY <1>12 DEF OpenSheet, memory
  <2>2. sheet.item # New
    BY <2>1, RoutinesAssumption DEF Shut, Routine
  <2>3. \A n \in DOMAIN plans : Resumed(n) => Resumed(n)'
    BY <2>1, <2>2 DEF Resumed
  <2> QED BY <1>1, <1>3, <1>12, <2>1, <2>3 DEF Additions
<1>13. ASSUME Past, NEW r \in runs, NEW looks, Failed(r, looks) PROVE Additions'
  <2>1. sheet'.item = sheet.item /\ sheet'.plan = sheet.plan
    BY <1>2, <1>13 DEF Failed, Sheets
  <2> QED BY <1>4, <1>13, <2>1 DEF Failed, memory
<1>14. ASSUME Past, retry PROVE Additions'
  <2>1. sheet'.item = sheet.item /\ sheet'.plan = sheet.plan
    BY <1>2, <1>14 DEF retry, Sheets
  <2> QED BY <1>4, <1>14, <2>1 DEF retry, memory
<1>15. ASSUME Past, \/ \E r \in runs : Send(r) \/ Stops(r) \/ Arrives(r)
                    \/ load \/ UNCHANGED vars \/ MorningPressed \/ \E q \in late : ArrivesLate(q)
       PROVE  Additions'
  BY <1>4, <1>15 DEF Send, Stops, Arrives, load, vars, MorningPressed, Presses, ArrivesLate, memory, screen
<1>16. ASSUME NEW i \in Routine, Pressed(i), sheet.item = i PROVE Additions'
  <2>1. PICK touched \in SUBSET (Field \cup {"on"}), commands \in Seq(Commands) :
          Begins(i, touched, commands)
    BY <1>16 DEF Pressed
  <2> DEFINE plan == [n |-> Number, next |-> 1, target |-> IF i = New THEN None ELSE i]
  <2>2. /\ Plans(i, touched, commands) /\ kept' = Kept(i, plan) /\ sheet.plan = NoPlan
        /\ sheet' = [sheet EXCEPT !.plan = plan, !.review = FALSE]
    BY <2>1 DEF Begins
  <2>3. plan.n = Number
    OBVIOUS
  <2> HIDE DEF plan
  <2>4. sheet'.item = i /\ sheet'.plan = plan
    BY <1>2, <1>16, <2>2 DEF Sheets
  <2>5. /\ DOMAIN plans' = DOMAIN plans \cup {Number}
        /\ plans'[Number] = [item |-> i, touched |-> touched, commands |-> commands]
        /\ \A n \in DOMAIN plans : plans'[n] = plans[n]
    BY <2>2, PlanGrows
  <2>6. /\ ~storage => kept' = kept
        /\ storage => kept'[i] = plan
        /\ i # New => kept'[New] = kept[New]
    BY <1>2, <2>2 DEF Kept
  <2>7. ASSUME NEW n \in DOMAIN plans, plans[n].item = New PROVE n \in Settled' \/ Resumed(n)'
    <3>1. n \in Settled \/ Resumed(n)
      BY <1>3, <2>7
    <3>2. CASE i = New
      <4>1. ~Resumed(n)
        BY <1>2, <1>16, <2>2, <3>2 DEF Resumed, NoPlan
      <4> QED BY <1>1, <3>1, <4>1
    <3>3. CASE i # New
      BY <1>1, <1>16, <2>4, <2>6, <3>1, <3>3 DEF Resumed
    <3> QED BY <3>2, <3>3
  <2>8. ASSUME NEW n, n = Number, plans'[n].item = New PROVE Resumed(n)'
    <3>1. sheet'.item = New /\ sheet'.plan.n = n
      BY <2>3, <2>4, <2>5, <2>8
    <3> QED BY <3>1 DEF Resumed
  <2>9. \A n \in DOMAIN plans' : plans'[n].item = New => n \in Settled' \/ Resumed(n)'
    BY <2>5, <2>7, <2>8
  <2>10. ~storage' => \A k \in Routine : kept'[k] = NoPlan
    BY <1>1, <1>3, <2>6
  <2>11. sheet'.item = New /\ sheet'.plan.n # 0 =>
           ~storage' \/ kept'[New].n = sheet'.plan.n \/ sheet'.plan.n \in overwritten'
    BY <1>1, <2>4, <2>6
  <2> QED BY <2>9, <2>10, <2>11 DEF Additions
<1> HIDE DEF Past
<1>17. ASSUME Past, Aside PROVE Additions'
  <2>1. ASSUME NEW r \in runs, Rejected(r) \/ NotSent(r) \/ Lost(r) PROVE Additions'
    BY <1>13, <1>17, <2>1 DEF Rejected, NotSent, Lost
  <2> QED BY <1>6, <1>7, <1>9, <1>10, <1>11, <1>12, <1>14, <1>15, <1>17, <2>1 DEF Aside
<1>18. CASE Past
  BY <1>15, <1>16, <1>17, <1>18, Steps
<1> QED BY <1>1, <1>16, <1>18

\* A sheet begins a plan only when it resumes none: at that moment every addition is
\* settled.
LEMMA EarlierKept ==
  ASSUME Typed, PlansRight, Existing, Progress, Additions, EarlierSettled, [Next]_vars
  PROVE  EarlierSettled'
<1>1. Settled \subseteq Settled'
  BY SettledLasts
<1>2. CASE \A n \in DOMAIN plans' : plans'[n].item = New => n \in DOMAIN plans /\ plans[n].item = New
  BY <1>1, <1>2 DEF EarlierSettled
<1>3. ASSUME NEW i \in Routine, Pressed(i), sheet.item = i PROVE EarlierSettled'
  <2>1. PICK touched \in SUBSET (Field \cup {"on"}), commands \in Seq(Commands) :
          Begins(i, touched, commands)
    BY <1>3 DEF Pressed
  <2>2. Plans(i, touched, commands) /\ sheet.plan = NoPlan
    BY <2>1 DEF Begins
  <2>3. /\ DOMAIN plans' = DOMAIN plans \cup {Number} /\ Number \in Nat
        /\ plans'[Number] = [item |-> i, touched |-> touched, commands |-> commands]
        /\ \A n \in DOMAIN plans : n < Number /\ plans'[n] = plans[n]
    BY <2>2, PlanGrows
  <2>4. \A n \in DOMAIN plans : n \in Nat /\ n # 0
    BY PlansTyped
  <2>5. ASSUME i = New, NEW n \in DOMAIN plans, plans[n].item = New PROVE n \in Settled
    <3>1. ~Resumed(n)
      BY <1>3, <2>2, <2>4, <2>5 DEF Resumed, NoPlan
    <3> QED BY <2>5, <3>1 DEF Additions
  <2> SUFFICES ASSUME NEW n \in DOMAIN plans', NEW m \in DOMAIN plans', n < m,
                      plans'[n].item = New, plans'[m].item = New
               PROVE  n \in Settled'
    BY DEF EarlierSettled
  <2>6. n # Number
    BY <2>3, <2>4
  <2>7. n \in DOMAIN plans /\ plans[n].item = New
    BY <2>3, <2>6
  <2>8. CASE m = Number
    <3>1. i = New
      BY <2>3, <2>8
    <3> QED BY <1>1, <2>5, <2>7, <3>1
  <2>9. CASE m # Number
    BY <1>1, <2>3, <2>7, <2>9 DEF EarlierSettled
  <2> QED BY <2>8, <2>9
<1> QED BY <1>2, <1>3, SettledLasts

-----------------------------------------------------------------------------
(* The theorems.                                                           *)

LEMMA InitRight == Init => IInv
<1> SUFFICES ASSUME Init PROVE IInv
  OBVIOUS
<1>1. start \in Starts
  BY DEF Init
<1>2. start.defs \in [Def -> Known] /\ start.storage \in BOOLEAN
  BY <1>1, RoutinesAssumption DEF Known
<1>3. plans = <<>> /\ DOMAIN plans = {} /\ plans \in Seq(PlanRecord)
  BY DEF Init
<1>4. receipts = <<>> /\ DOMAIN receipts = {}
  BY DEF Init
<1>5. kept = [i \in Routine |-> NoPlan] /\ sheet = Shut /\ runs = {} /\ late = {}
      /\ told = {} /\ dropped = {} /\ overwritten = {}
      /\ list = start.defs /\ rows = start.defs /\ defs = start.defs /\ storage = start.storage
  BY DEF Init
<1>6. Shut \in Sheets /\ Shut.item = None /\ None \notin Routine
  BY ShutIn, RoutinesAssumption DEF SheetIn, Shut
<1>7. Typed
  BY <1>1, <1>2, <1>3, <1>4, <1>5, <1>6, NothingKept DEF Typed
<1>8. PlansRight
  BY <1>3 DEF PlansRight
<1>9. Existing
  BY <1>3, <1>4, <1>5, <1>6 DEF Existing, There, Routine
<1>10. Progress
  BY <1>3, <1>4, <1>5, <1>6, NothingKept DEF Progress
<1>11. OneSave
  BY <1>5 DEF OneSave
<1>12. Additions
  BY <1>3, <1>5, <1>6 DEF Additions, Routine
<1>13. EarlierSettled
  BY <1>3 DEF EarlierSettled
<1> QED BY <1>7, <1>8, <1>9, <1>10, <1>11, <1>12, <1>13 DEF IInv

LEMMA StepRight == IInv /\ [Next]_vars => IInv'
BY ProgressKept, OneSaveKept, AdditionsKept, EarlierKept DEF IInv

LEMMA Inductive == Spec => []IInv
BY InitRight, StepRight, PTL DEF Spec

LEMMA TypesRight == IInv => TypeOK
<1> SUFFICES ASSUME IInv PROVE TypeOK
  OBVIOUS
<1> USE DEF IInv
<1>1. \A d \in Def : defs[d] = None \/ defs[d] \in RoutineState
  BY DEF Typed, Known
<1>2. \A d \in Def : list[d] # None => defs[d] # None
  BY DEF Existing, There
<1>3. DOMAIN receipts \subseteq (1..Len(plans)) \X (1..MaxCommands)
  <2> SUFFICES ASSUME NEW op \in DOMAIN receipts PROVE op \in (1..Len(plans)) \X (1..MaxCommands)
    OBVIOUS
  <2>1. op = <<op[1], op[2]>> /\ op[1] \in DOMAIN plans /\ op[2] \in 1..Len(plans[op[1]].commands)
    BY DEF Progress, ReceiptIn
  <2>2. /\ DOMAIN plans = 1..Len(plans) /\ Len(plans[op[1]].commands) <= MaxCommands
        /\ Len(plans[op[1]].commands) \in Nat
    BY <2>1, PlansTyped DEF PlansRight, WellOrdered
  <2>3. op[2] \in 1..MaxCommands
    BY <2>1, <2>2, Bounds
  <2> QED BY <2>1, <2>2, <2>3
<1>4. \A r \in runs : r.n \in 1..Len(plans) /\ r.next \in 1..Len(plans[r.n].commands) + 1
  BY RunFacts, PlansTyped
<1>5. Cardinality({r \in runs : r.here /\ IsSheets(r)}) <= 1
  <2> DEFINE S == {r \in runs : r.here /\ IsSheets(r)}
  <2>1. CASE S = {}
    BY <2>1, FS_EmptySet
  <2>2. CASE S # {}
    <3>1. PICK r : r \in S
      BY <2>2
    <3>2. S = {r}
      BY <3>1 DEF OneSave
    <3>3. Cardinality({r}) = 1
      BY FS_Singleton
    <3> QED BY <3>2, <3>3
  <2> QED BY <2>1, <2>2
<1>6. Busy => sheet # Shut
  BY SheetOfRun DEF Busy, Shut
<1>7. ~storage => \A i \in Routine : kept[i] = NoPlan
  BY DEF Additions
<1>8. told \cup dropped \cup overwritten \subseteq 1..Len(plans)
  BY PlansTyped DEF Typed
<1> QED BY <1>1, <1>2, <1>3, <1>4, <1>5, <1>6, <1>7, <1>8 DEF TypeOK

\* The types of the saves, that there is at most one under way from the sheets (saving in
\* RoutineRoleEditor), and that without sessionStorage nothing is kept.
THEOREM RoutineTypes == Spec => []TypeOK
BY Inductive, TypesRight, PTL

LEMMA WhollyRight == IInv => SavedWholly
<1> SUFFICES ASSUME IInv, NEW n \in told, NEW k \in DOMAIN plans[n].commands
             PROVE  Landed(n, k) /\ receipts[<<n, k>>] = receipts[<<n, 1>>]
  BY DEF SavedWholly
<1> USE DEF IInv
<1>1. n \in DOMAIN plans /\ \A j \in DOMAIN plans[n].commands : <<n, j>> \in DOMAIN receipts
  BY DEF Typed, Progress, DoneIn
<1>2. 1 \in DOMAIN plans[n].commands
  BY <1>1, PlansTyped
<1>3. ReceiptIn(<<n, k>>, plans, receipts) /\ ReceiptIn(<<n, 1>>, plans, receipts)
  BY <1>1, <1>2 DEF Progress
<1> QED BY <1>1, <1>3 DEF Landed, ReceiptIn

\* What the adult is told is saved was saved as a whole, and on one routine, whatever
\* was lost, closed, loaded again or answered late (the loops of RoutineRoleEditor and
\* MorningPreparationEditor).
THEOREM ToldIsSaved == Spec => []SavedWholly
BY Inductive, WhollyRight, PTL

LEMMA OrderRight == IInv => AppliedInOrder
<1> SUFFICES ASSUME IInv, NEW op \in DOMAIN receipts PROVE
               /\ \A j \in 1..op[2] - 1 : Landed(op[1], j)
               /\ Concludes(plans[op[1]].commands[op[2]]) =>
                    \A j \in DOMAIN plans[op[1]].commands :
                      plans[op[1]].commands[j].kind = "schedule" => Landed(op[1], j)
  BY DEF AppliedInOrder, Concludes
<1> USE DEF IInv
<1>1. /\ op[1] \in DOMAIN plans /\ op[2] \in 1..Len(plans[op[1]].commands)
      /\ \A j \in 1..op[2] - 1 : <<op[1], j>> \in DOMAIN receipts
  BY DEF Progress, ReceiptIn
<1>2. /\ Orderly(plans[op[1]].commands) /\ Len(plans[op[1]].commands) \in Nat
      /\ DOMAIN plans[op[1]].commands = 1..Len(plans[op[1]].commands)
  BY <1>1, PlansTyped DEF PlansRight, WellOrdered
<1>3. ASSUME Concludes(plans[op[1]].commands[op[2]]), NEW j \in DOMAIN plans[op[1]].commands,
             plans[op[1]].commands[j].kind = "schedule"
      PROVE  Landed(op[1], j)
  <2>1. j < op[2]
    BY <1>1, <1>2, <1>3 DEF Orderly
  <2> QED BY <1>1, <1>2, <2>1 DEF Landed
<1> QED BY <1>1, <1>3 DEF Landed

\* The commands of a plan take effect in their order and with no gap, however often they
\* are sent and however late they arrive: no routine is resumed, and no setup concluded,
\* before its schedules are installed.
THEOREM CommandsInOrder == Spec => []AppliedInOrder
BY Inductive, OrderRight, PTL

\* Of two additions that reached the server the earlier was told to be saved, given up,
\* lost with its page or storage - or replaced by a save that had outlived its sheet.
THEOREM AddedOnce == Spec => []NewOnceUnlessOverwritten
<1>1. IInv => NewOnceUnlessOverwritten
  BY DEF IInv, EarlierSettled, Settled, NewOnceUnlessOverwritten
<1> QED BY <1>1, Inductive, PTL
=============================================================================
