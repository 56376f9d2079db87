----------------------------- MODULE RoutineSave -----------------------------
(***************************************************************************)
(* A routine is edited by several commands that belong together.  The      *)
(* sheet of a routine (RoutineRoleEditor) keeps such a save as a plan and  *)
(* resumes it; the editor of the morning preparation, also a step of the   *)
(* first setup (MorningPreparationEditor, OnboardingSteps), sends the      *)
(* commands anew at every press.  One adult uses the sheets, the other the *)
(* editor of the morning.                                                  *)
(*                                                                         *)
(* A plan is a number, and 0 stands for none; a command is                 *)
(* <<plan, position>>, and so is its operation id.                         *)
(***************************************************************************)
EXTENDS Naturals, Sequences, FiniteSets, SequencesExt

CONSTANTS Def,          \* ids of routine definitions
          New,          \* the sheet of a routine to be added
          None,
          Starts        \* what an instance starts with, and its bounds: [defs, storage,
                        \*   sheets, touches, saves, buttons, presses, trouble]

\* A field of a routine holds the number of the plan that last wrote it.
RoutineState == [title : Nat, items : Nat, days : Nat, optional : BOOLEAN, on : BOOLEAN,
                 locked : BOOLEAN]
Field == {"title", "items", "days", "optional"}
Routine == Def \cup {New}

ASSUME RoutinesAssumption ==
  /\ IsFiniteSet(Def) /\ New \notin Def
  /\ None \notin Routine \cup RoutineState \cup {"ok", "refused"}
  /\ Starts \subseteq [defs : [Def -> RoutineState \cup {None}], storage : BOOLEAN,
                       sheets : SUBSET Routine, touches : SUBSET SUBSET Field, saves : Nat,
                       buttons : SUBSET {"row", "add", "continue"}, presses : Nat, trouble : Nat]

VARIABLES
  start,      \* the start of this behaviour, with its bounds
  defs,       \* the definitions on the server
  onboarded,  \* the step of the first setup is done
  receipts,   \* operations carried out -> the definition of their plan, if it has one
  late,       \* requests their senders gave up, that may still arrive
  plans,      \* the plans made so far: [item, touched, commands]
  runs,       \* saves under way
  list,       \* the routines the page of the sheets shows
  loading,    \* ... and whether it is loading them
  sheet,      \* the open sheet
  kept,       \* sheet -> the plan in sessionStorage: [n, next, target]
  storage,    \* whether sessionStorage can be used
  rows,       \* the rows of the editor of the morning
  told,       \* plans the adult was told are saved
  dropped,    \* plans that are not resumed any more, as the adult knows
  overwritten,\* history: plans replaced in sessionStorage by a save whose sheet is gone
  trouble     \* how often something went wrong, or the adult went away in a save

server == <<defs, onboarded, receipts>>
screen == <<list, loading, sheet>>
memory == <<kept, storage, dropped, overwritten>>
vars == <<start, server, late, plans, runs, screen, memory, rows, told, trouble>>

MaxCommands == Cardinality(Def) + 4

NoPlan == [n |-> 0, next |-> 1, target |-> None]
Shut == [item |-> None, opened |-> None, plan |-> NoPlan, review |-> FALSE]

\* A routine to be added.
Blank == [title |-> 0, items |-> 0, days |-> 0, optional |-> FALSE, on |-> TRUE, locked |-> FALSE]

Shown(item) == IF item = New THEN Blank ELSE list[item]

-----------------------------------------------------------------------------
(* The commands of a plan.                                                 *)

\* own: the routine of the plan, known once it is made; base: the checklist edited.
Command(kind, to) ==
  [kind |-> kind, own |-> TRUE, on |-> {}, to |-> to, base |-> 0, enable |-> TRUE, expect |-> None]

When(holds, command) == IF holds THEN <<command>> ELSE <<>>
Of(command, definitions) == [command EXCEPT !.own = FALSE, !.on = definitions]

draftFor(opened, touched, n) ==
  [f \in Field |->
     IF f \notin touched THEN opened[f] ELSE IF f = "optional" THEN ~opened[f] ELSE n]

setOptions(now, draft) ==
  When(~now.on \/ draft.optional # now.optional,
       [Command("options", 0) EXCEPT
          !.expect = IF draft.optional # now.optional THEN draft.optional ELSE None])

\* What differs from the list as it is now.
edits(item, draft) ==
  LET now == Shown(item)
  IN  When(draft.items # now.items, [Command("subtasks", draft.items) EXCEPT !.base = now.items])
      \o When(item # New /\ draft.title # now.title, Command("title", draft.title))
      \o When(~now.locked /\ (item = New \/ draft.days # now.days), Command("schedule", draft.days))

creation(item, draft) == When(item = New, Command("create", draft.title))

\* Mutant: a stopped routine is resumed before its new schedule is installed.
buildResumingFirst(item, draft) ==
  creation(item, draft) \o setOptions(Shown(item), draft) \o edits(item, draft)

\* A routine whose schedule is edited is resumed afterwards.
build(item, draft) == creation(item, draft) \o edits(item, draft) \o setOptions(Shown(item), draft)

buildStop == << [Command("options", 0) EXCEPT !.enable = FALSE] >>

\* The editor of the morning sends the titles it has read and the whole week.
saveRow(d, n) ==
  << Of(Command("title", rows[d].title), {d}), Of(Command("schedule", n), {d}) >>

saveAll(n) ==
  LET shown == {d \in Def : rows[d] # None /\ rows[d].on}
      title(d) == Of(Command("title", rows[d].title), {d})
  IN  [k \in 1..Cardinality(shown) |-> title(SetToSeq(shown)[k])]
      \o << Of(Command("schedule", n), shown) >>

saveAndContinue(n) == saveAll(n) \o << Command("complete", n) >>

add(n) == << Command("create", n), Command("schedule", n) >>

-----------------------------------------------------------------------------
(* The server.                                                             *)

Landed(n, k) == <<n, k>> \in DOMAIN receipts
Free == {d \in Def : defs[d] = None}

\* A checklist that keeps an item deleted meanwhile is refused; so is a schedule
\* of no routine at all.
Refused(c, target) ==
  \/ c.kind = "subtasks" /\ defs[target].items # c.base
  \/ c.kind = "schedule" /\ ~c.own /\ c.on = {}

MustRefuse(c) == c.kind = "schedule" /\ ~c.own /\ c.on = {}

Written(d, c) ==
  CASE c.kind = "title" -> [defs[d] EXCEPT !.title = c.to]
    [] c.kind = "subtasks" -> [defs[d] EXCEPT !.items = c.to]
    [] c.kind = "schedule" -> [defs[d] EXCEPT !.days = c.to]
    [] c.kind = "options" ->
         [defs[d] EXCEPT !.on = c.enable, !.optional = IF c.expect = None THEN @ ELSE c.expect]

\* The command of an operation that was not carried out yet; made: the new definition.
Serve(c, target, made) ==
  /\ defs' = CASE c.kind = "create" -> [defs EXCEPT ![made] = [Blank EXCEPT !.title = c.to]]
               [] c.kind = "complete" -> defs
               [] OTHER -> LET on == IF c.own THEN {target} ELSE c.on
                           IN  [d \in Def |-> IF d \in on THEN Written(d, c) ELSE defs[d]]
  /\ onboarded' = (onboarded \/ c.kind = "complete")

\* reply: what the caller is answered; made: the definition.
Handle(n, k, target, reply) ==
  LET c == plans[n].commands[k]
  IN  \/ /\ Landed(n, k)
         /\ reply = [code |-> "ok", made |-> receipts[<<n, k>>]]
         /\ UNCHANGED server
      \/ /\ ~Landed(n, k) /\ Refused(c, target)
         /\ reply = [code |-> "refused", made |-> None]
         /\ UNCHANGED server
      \/ /\ ~Landed(n, k) /\ ~MustRefuse(c) /\ (c.kind = "create" => Free # {})
         /\ reply.code = "ok"
         /\ reply.made = IF c.kind = "create" THEN CHOOSE d \in Free : TRUE ELSE target
         /\ receipts' = [op \in DOMAIN receipts \cup {<<n, k>>} |->
                           IF op = <<n, k>> THEN reply.made ELSE receipts[op]]
         /\ Serve(c, target, reply.made)

Replies == [code : {"ok", "refused"}, made : Def \cup {None}]

-----------------------------------------------------------------------------
(* A save under way: the loop over the commands of a plan.                 *)

Waiting == [code |-> None, made |-> None]

Run(plan, here) ==
  [n |-> plan.n, next |-> plan.next, target |-> plan.target, here |-> here, sent |-> FALSE,
   reply |-> Waiting]

PlanOf(r) == [n |-> r.n, next |-> r.next, target |-> r.target]
CommandOf(r) == plans[r.n].commands[r.next]
IsSheets(r) == plans[r.n].item \in Routine
Busy == \E r \in runs : r.here /\ IsSheets(r)

Finished(r) == r.next > Len(plans[r.n].commands)

\* Mutant: the plan is taken for kept without storage.
KeptAlways(item, plan) == [kept EXCEPT ![item] = plan]

\* Storage that cannot be written is passed over.
Kept(item, plan) == IF storage THEN [kept EXCEPT ![item] = plan] ELSE kept

Ends(r) == runs' = runs \ {r}
Goes(r, to) == runs' = (runs \ {r}) \cup {to}

\* The sheet is still there; the editor of the morning does not ask.
Send(r) ==
  /\ ~r.sent /\ ~Finished(r) /\ r.here
  /\ Goes(r, [r EXCEPT !.sent = TRUE])
  /\ UNCHANGED <<start, server, late, plans, screen, memory, rows, told, trouble>>

\* The sheet is gone: nothing more is sent under the session there is now.
Stops(r) ==
  /\ ~r.sent /\ ~r.here
  /\ Ends(r)
  /\ UNCHANGED <<start, server, late, plans, screen, memory, rows, told, trouble>>

Arrives(r) ==
  /\ r.sent /\ r.reply = Waiting
  /\ \E reply \in Replies :
       /\ Handle(r.n, r.next, r.target, reply)
       /\ Goes(r, [r EXCEPT !.reply = reply])
  /\ UNCHANGED <<start, late, plans, screen, memory, rows, told, trouble>>

ArrivesLate(q) ==
  /\ late' = late \ {q}
  /\ \E reply \in Replies : Handle(q.n, q.next, q.target, reply)
  /\ UNCHANGED <<start, plans, runs, screen, memory, rows, told, trouble>>

\* The command is done: the plan goes on behind it.
Ahead(r) ==
  [r EXCEPT !.next = @ + 1, !.sent = FALSE, !.reply = Waiting,
            !.target = IF CommandOf(r).kind = "create" THEN r.reply.made ELSE @]

\* Another plan than its own that a save replaces after its sheet has gone.
Replaced(r) ==
  {n \in DOMAIN plans : storage /\ ~r.here /\ n = kept[plans[r.n].item].n /\ n # r.n}

\* The plan is kept also when the sheet is gone, over whatever is kept by then.
Advances(r) ==
  /\ r.reply.code = "ok"
  /\ LET to == Ahead(r)
     IN  /\ Goes(r, to)
         /\ IF IsSheets(r)
            THEN /\ kept' = Kept(plans[r.n].item, PlanOf(to))
                 /\ overwritten' = overwritten \cup Replaced(r)
                 /\ sheet' = IF r.here THEN [sheet EXCEPT !.plan = PlanOf(to)] ELSE sheet
                 /\ UNCHANGED rows
            ELSE /\ rows' = IF CommandOf(r).kind = "schedule" THEN defs ELSE rows
                 /\ UNCHANGED <<kept, overwritten, sheet>>
  /\ UNCHANGED <<start, server, late, plans, list, loading, storage, dropped, told, trouble>>

\* All commands are done.
Saved(r) ==
  /\ ~r.sent /\ Finished(r) /\ r.here
  /\ Ends(r)
  /\ told' = told \cup {r.n}
  /\ IF IsSheets(r)
     THEN /\ kept' = Kept(plans[r.n].item, NoPlan)
          /\ sheet' = Shut /\ loading' = TRUE
     ELSE UNCHANGED <<kept, sheet, loading>>
  /\ UNCHANGED <<start, server, late, plans, list, storage, dropped, overwritten, rows, trouble>>

Trouble == trouble < start.trouble /\ trouble' = trouble + 1

Failed(r, review) ==
  /\ Ends(r)
  /\ sheet' = IF IsSheets(r) /\ r.here THEN [sheet EXCEPT !.review = review] ELSE sheet
  /\ UNCHANGED <<start, server, plans, list, loading, memory, rows, told>>

\* A definite failure: refused by the server, or not sent for want of a session.
Rejected(r) ==
  /\ r.reply.code = "refused"
  /\ Failed(r, TRUE)
  /\ UNCHANGED <<late, trouble>>

NotSent(r) ==
  /\ Trouble /\ ~r.sent /\ ~Finished(r) /\ r.here
  /\ Failed(r, TRUE)
  /\ UNCHANGED late

\* Mutant: the sheet goes on behind a command whose result is not known.
LostSkipping(r) ==
  /\ Trouble /\ r.sent
  /\ Ends(r)
  /\ sheet' = IF IsSheets(r) /\ r.here THEN [sheet EXCEPT !.plan.next = @ + 1] ELSE sheet
  /\ late' = IF r.reply = Waiting THEN late \cup {PlanOf(r)} ELSE late
  /\ UNCHANGED <<start, server, plans, list, loading, memory, rows, told>>

\* The result is not known: the deadline passes, or the connection breaks.
Lost(r) ==
  /\ Trouble /\ r.sent
  /\ Failed(r, FALSE)
  /\ late' = IF r.reply = Waiting THEN late \cup {PlanOf(r)} ELSE late

-----------------------------------------------------------------------------
(* The sheets.                                                             *)

\* Answers to an older load are dropped, so that this is the latest one's.
load ==
  /\ loading
  /\ list' = defs /\ loading' = FALSE
  /\ UNCHANGED <<start, server, late, plans, runs, sheet, memory, rows, told, trouble>>

\* One sheet at a time; it begins with the plan that was kept.
OpenSheet(item) ==
  /\ item \in start.sheets /\ ~Busy /\ sheet = Shut
  /\ IF item = New THEN ~loading ELSE list[item] # None
  /\ sheet' = [item |-> item, opened |-> Shown(item), plan |-> kept[item], review |-> FALSE]
  /\ UNCHANGED <<start, server, late, plans, runs, list, loading, memory, rows, told, trouble>>

Drops(n) == dropped' = IF n = 0 THEN dropped ELSE dropped \cup {n}

\* The plan of a sheet that is left is kept, as far as there is storage.
Leaves == IF storage THEN UNCHANGED dropped ELSE Drops(sheet.plan.n)

\* Mutant: a sheet that is left forgets its plan.
CloseSheetForgetting ==
  /\ ~Busy /\ sheet # Shut
  /\ sheet' = Shut
  /\ kept' = Kept(sheet.item, NoPlan)
  /\ UNCHANGED <<start, server, late, plans, runs, list, loading, dropped, overwritten, storage,
                 rows, told, trouble>>

CloseSheet ==
  /\ ~Busy /\ sheet # Shut
  /\ sheet' = Shut /\ Leaves
  /\ UNCHANGED <<start, server, late, plans, runs, list, loading, kept, overwritten, storage, rows,
                 told, trouble>>

Number == Len(plans) + 1

Plans(item, touched, commands) ==
  plans' = Append(plans, [item |-> item, touched |-> touched, commands |-> commands])

\* The press of the button of a sheet that is not resuming.
Begins(item, touched, commands) ==
  LET plan == [n |-> Number, next |-> 1, target |-> IF item = New THEN None ELSE item]
  IN  /\ ~Busy /\ sheet.plan = NoPlan
      /\ Cardinality({n \in DOMAIN plans : plans[n].item \in Routine}) < start.saves
      /\ Plans(item, touched, commands)
      /\ sheet' = [sheet EXCEPT !.plan = plan, !.review = FALSE]
      /\ kept' = Kept(item, plan)
      /\ runs' = runs \cup {Run(plan, TRUE)}
      /\ UNCHANGED <<start, server, late, list, loading, storage, dropped, overwritten, rows, told,
                     trouble>>

\* New routines have a title and days; a stopped one that has no days needs some.
save(item) ==
  /\ sheet.item = item
  /\ \E touched \in start.touches :
       /\ item = New => {"title", "days"} \subseteq touched
       /\ touched # {} \/ ~Shown(item).on
       /\ Shown(item).locked => "days" \notin touched
       /\ Begins(item, touched, build(item, draftFor(sheet.opened, touched, Number)))

saveStop(item) ==
  /\ sheet.item = item /\ item # New /\ Shown(item).on /\ ~Shown(item).locked
  /\ Begins(item, {"on"}, buildStop)

\* The same plan, from the command whose result is not known.
retry ==
  /\ ~Busy /\ sheet # Shut /\ sheet.plan.n # 0
  /\ runs' = runs \cup {Run(sheet.plan, TRUE)}
  /\ sheet' = [sheet EXCEPT !.review = FALSE]
  /\ UNCHANGED <<start, server, late, plans, list, loading, memory, rows, told, trouble>>

\* After a definite failure the adult may look at what was applied and begin anew.
review ==
  /\ ~Busy /\ sheet # Shut /\ sheet.review
  /\ kept' = Kept(sheet.item, NoPlan)
  /\ Drops(sheet.plan.n)
  /\ sheet' = Shut /\ loading' = TRUE
  /\ UNCHANGED <<start, server, late, plans, runs, list, storage, overwritten, rows, told, trouble>>

Blanked == list' = [d \in Def |-> None] /\ loading' = TRUE /\ sheet' = Shut

\* The page is left for another, or shown for another account.
LeavePage ==
  /\ Trouble /\ Busy
  /\ Blanked /\ Leaves
  /\ runs' = {[r EXCEPT !.here = @ /\ ~IsSheets(r)] : r \in runs}
  /\ UNCHANGED <<start, server, late, plans, kept, storage, overwritten, rows, told>>

\* The page is loaded again, or its tab closed: what was sent may still arrive.
Unload ==
  LET gone == {r \in runs : IsSheets(r)}
  IN  /\ runs' = runs \ gone
      /\ late' = late \cup {PlanOf(r) : r \in {q \in gone : q.sent /\ q.reply = Waiting}}
      /\ Blanked

Reload ==
  /\ Trouble /\ Unload /\ Leaves
  /\ UNCHANGED <<start, server, plans, kept, storage, overwritten, rows, told>>

CloseTab ==
  /\ Trouble /\ Unload
  /\ kept' = [i \in Routine |-> NoPlan]
  /\ dropped' = dropped \cup 1..Len(plans)
  /\ UNCHANGED <<start, server, plans, storage, overwritten, rows, told>>

-----------------------------------------------------------------------------
(* The editor of the morning: a press is a plan that is not kept.          *)

Presses(commands) ==
  /\ Cardinality({n \in DOMAIN plans : plans[n].item = None}) < start.presses
  /\ Plans(None, {}, commands)
  /\ runs' = runs \cup {Run([n |-> Number, next |-> 1, target |-> None], TRUE)}
  /\ UNCHANGED <<start, server, late, screen, memory, rows, told, trouble>>

PressRow(d) ==
  "row" \in start.buttons /\ rows[d] # None /\ rows[d].on /\ Presses(saveRow(d, Number))

PressAdd == "add" \in start.buttons /\ Presses(add(Number))

\* The button is not disabled while the rows are being saved.
PressContinue ==
  "continue" \in start.buttons /\ ~onboarded /\ Presses(saveAndContinue(Number))

-----------------------------------------------------------------------------
Init ==
  /\ start \in Starts
  /\ defs = start.defs /\ onboarded = FALSE /\ receipts = <<>>
  /\ late = {} /\ plans = <<>> /\ runs = {}
  /\ list = start.defs /\ loading = FALSE /\ sheet = Shut
  /\ kept = [i \in Routine |-> NoPlan] /\ storage = start.storage
  /\ rows = start.defs
  /\ told = {} /\ dropped = {} /\ overwritten = {} /\ trouble = 0

Next ==
  \/ \E r \in runs : \/ Send(r) \/ Stops(r) \/ Arrives(r) \/ Advances(r) \/ Saved(r)
                     \/ Rejected(r) \/ NotSent(r) \/ Lost(r)
  \/ \E q \in late : ArrivesLate(q)
  \/ load \/ retry \/ review \/ CloseSheet
  \/ \E i \in Routine : OpenSheet(i) \/ save(i) \/ saveStop(i)
  \/ LeavePage \/ Reload \/ CloseTab
  \/ \E d \in Def : PressRow(d)
  \/ PressAdd \/ PressContinue

Spec == Init /\ [][Next]_vars

-----------------------------------------------------------------------------
TypeOK ==
  /\ \A d \in Def : defs[d] = None \/ defs[d] \in RoutineState
  /\ \A d \in Def : list[d] # None => defs[d] # None
  /\ DOMAIN receipts \subseteq (1..Len(plans)) \X (1..MaxCommands)
  /\ \A r \in runs : r.n \in 1..Len(plans) /\ r.next \in 1..Len(plans[r.n].commands) + 1
  /\ Cardinality({r \in runs : r.here /\ IsSheets(r)}) <= 1
  /\ Busy => sheet # Shut
  /\ ~storage => \A i \in Routine : kept[i] = NoPlan
  /\ told \cup dropped \cup overwritten \subseteq 1..Len(plans)

\* What the adult is told is saved is saved as a whole: every command of the plan was
\* carried out, and all those about its routine on one and the same - whatever was
\* lost, closed, loaded again or answered late on the way.
SavedWholly ==
  \A n \in told : LET commands == plans[n].commands
                  IN  \A k \in DOMAIN commands :
                        /\ Landed(n, k)
                        /\ commands[k].own /\ commands[1].own => receipts[<<n, k>>] = receipts[<<n, 1>>]

\* The commands of a plan take effect in their order, with no gap: no routine is
\* resumed before its edited schedule is installed, and the setup goes on only
\* after every row was saved.
AppliedInOrder ==
  \A op \in DOMAIN receipts :
    LET commands == plans[op[1]].commands
        c == commands[op[2]]
    IN  /\ \A j \in 1..op[2] - 1 : Landed(op[1], j)
        /\ c.kind = "complete" \/ (c.kind = "options" /\ c.enable) =>
             \A j \in DOMAIN commands : commands[j].kind = "schedule" => Landed(op[1], j)

\* A routine is added again only by an adult who was told that it was saved, or who
\* gave the first save up, or whose page or storage is gone: a failed addition is
\* resumed as the sheet is opened again, and creates no other definition.  The plan of
\* the first may also be gone from sessionStorage because a save that had outlived its
\* sheet stored its own over it, as its answer came (RoutineRoleEditor.tsx:403).
NewOnceUnlessOverwritten ==
  \A n, m \in DOMAIN plans :
    n < m /\ plans[n].item = New /\ plans[m].item = New /\ Landed(n, 1) /\ Landed(m, 1)
      => n \in told \cup dropped \cup overwritten

=============================================================================
