--------------------------- MODULE RuleSchedules ---------------------------
(***************************************************************************)
(* Rule scheduling: one schedule of one rule of a rule set on the PCE.     *)
(* The five-minute tick and the page's "check now" compare the rule with   *)
(* the schedule's plan and switch it: a write to the draft, a provisioning *)
(* of the rule set, and a revert of its draft when that fails.  The page   *)
(* makes, changes and ends the schedule and writes a note into the rule's  *)
(* description the same way.  People edit and provision the same rule set  *)
(* on the PCE.  Every call to the PCE is a step of its own and may be      *)
(* refused, or be carried out while its answer is lost.                    *)
(*                                                                         *)
(* What the plan asks for changes with time: a weekly plan asks for "on"   *)
(* or "off", an expiry for "keep" and later for "expired".                 *)
(***************************************************************************)
EXTENDS Integers, FiniteSets

CONSTANTS
    MaxIds,      \* bound: schedules ever made
    MaxTurns,    \* bound: times the plan's wish changes with the clock
    MaxOwn,      \* bound: requests on the page
    MaxEditions, \* bound: edits people make in the rule set's draft
    MaxFaults    \* bound: refusals, lost answers and stops

ASSUME RuleSchedulesAssumption ==
    MaxIds \in Nat \ {0} /\ MaxTurns \in Nat /\ MaxOwn \in Nat /\ MaxEditions \in Nat /\ MaxFaults \in Nat

Checkers == {"tick", "now"}
Writers == Checkers \cup {"page"}
Plans == {"on", "off", "keep", "expired"}


\* desired: whether the target should be enabled.
Wanted(plan) == plan \in {"on", "keep"}

VARIABLES
    pce,     \* the rule set: [live, draft: the rule's enabled, note, foreign: other changes in the draft]
    row,     \* rule_schedules: [id (0: none), plan, paused]
    writer,  \* the checks and the page: what each read and where it is
    ids, turns, requests, ruleEdits, faults,  \* (bounds)
    late,    \* (history) writers that had looked before the foreign change was made
    crossed, \* (history) writers during whose work someone else wrote to the rule set
    trampled,\* (history) a foreign change that was there to be seen went live or was discarded
    mislaid, \* (history) a change of our own may be left in the draft
    early    \* (history) an expiry was dropped with the rule enabled: "no", "crossed" or "alone"

ruleBounds == <<ids, turns, requests, ruleEdits, faults>>
ruleHistory == <<late, crossed, trampled, mislaid, early>>
ruleVars == <<pce, row, writer, ruleBounds, ruleHistory>>

NoRow == [id |-> 0, plan |-> "off", paused |-> FALSE]
Idle == [step |-> "idle", kind |-> "check", id |-> 0, plan |-> "off", before |-> FALSE]

\* One type invariant, with: at most one kind of work per writer, and the check works on a schedule.
RuleTypeOK ==
    /\ pce \in [live : BOOLEAN, draft : BOOLEAN, note : BOOLEAN, foreign : BOOLEAN]
    /\ row \in [id : 0 .. MaxIds, plan : Plans, paused : BOOLEAN]
    /\ \A w \in Writers :
         /\ writer[w].step \in {"idle", "look", "active", "put", "provision", "undo", "clear", "save"}
         /\ writer[w].kind \in IF w = "page" THEN {"check", "create", "update", "delete"} ELSE {"check"}
         /\ writer[w].plan \in Plans /\ writer[w].id \in 0 .. MaxIds
         /\ w \in Checkers /\ writer[w].step # "idle" => writer[w].id # 0

RuleInit ==
    /\ pce = [live |-> TRUE, draft |-> TRUE, note |-> FALSE, foreign |-> FALSE]
    /\ row = NoRow /\ writer = [w \in Writers |-> Idle]
    /\ ids = 0 /\ turns = 0 /\ requests = 0 /\ ruleEdits = 0 /\ faults = 0
    /\ late = {} /\ crossed = {} /\ trampled = FALSE /\ mislaid = FALSE /\ early = "no"

Step(w, step) == writer' = [writer EXCEPT ![w].step = step]
Ends(w) == writer' = [writer EXCEPT ![w] = Idle]
Fault == faults < MaxFaults /\ faults' = faults + 1

-----------------------------------------------------------------------------
(* The PCE's answers to the four calls.  A call may do what it is asked    *)
(* ("ok"), refuse, or do it while its answer is lost.                      *)

Outcomes == {"ok", "refused", "lost"}

\* Mutation of Pending: only the target itself is looked at.
PendingOfTarget == pce.draft # pce.live \/ pce.note

\* draft_pending: anything in the rule set has a change that is not provisioned.
Pending == pce.draft # pce.live \/ pce.note \/ pce.foreign

\* The writer's call takes the foreign change with it; it should have seen it when it looked.
Tramples(w) == pce.foreign /\ w \notin late

\* Whoever else is at work when a writer writes.
Others(w) == {v \in Writers \ {w} : writer[v].step # "idle"}

\* set_fields
Put(w, o, written, okStep, badStep) ==
    /\ IF o = "ok" THEN UNCHANGED faults ELSE Fault
    /\ pce' = IF o = "refused" THEN pce ELSE written
    /\ mislaid' = (mislaid \/ o = "lost" \/ (o = "ok" /\ okStep = "save"))
    /\ writer' = [writer EXCEPT ![w] = IF o = "ok" THEN [@ EXCEPT !.step = okStep]
                                       ELSE IF badStep = "idle" THEN Idle ELSE [@ EXCEPT !.step = badStep]]
    /\ crossed' = crossed \cup Others(w)
    /\ UNCHANGED <<row, ids, turns, requests, ruleEdits, late, trampled, early>>

\* provision: the rule set alone; refused too when other objects would have to go live with it.
Provisioned == [pce EXCEPT !.live = pce.draft, !.note = FALSE, !.foreign = FALSE]

Provision(w, o, okStep, badStep) ==
    /\ IF o = "ok" THEN UNCHANGED faults ELSE Fault
    /\ pce' = IF o = "refused" THEN pce ELSE Provisioned
    /\ trampled' = (trampled \/ (o # "refused" /\ Tramples(w)))
    /\ mislaid' = (mislaid \/ (o = "refused" /\ w = "page" /\ badStep # "undo"))
    /\ writer' = [writer EXCEPT ![w] = LET next == IF o = "ok" THEN okStep ELSE badStep
                                       IN IF next = "idle" THEN Idle ELSE [@ EXCEPT !.step = next]]
    /\ crossed' = crossed \cup Others(w)
    /\ UNCHANGED <<row, ids, turns, requests, ruleEdits, late, early>>

\* revert: the rule set's draft is discarded.
Reverted == [pce EXCEPT !.draft = pce.live, !.note = FALSE, !.foreign = FALSE]

Revert(w, o) ==
    /\ writer[w].step = "undo"
    /\ IF o = "ok" THEN UNCHANGED faults ELSE Fault
    /\ pce' = IF o = "refused" THEN pce ELSE Reverted
    /\ trampled' = (trampled \/ (o # "refused" /\ Tramples(w)))
    /\ mislaid' = (mislaid \/ o = "refused")
    /\ crossed' = crossed \cup Others(w)
    /\ Ends(w)
    /\ UNCHANGED <<row, ids, turns, requests, ruleEdits, late, early>>

-----------------------------------------------------------------------------
(* _check_fresh, _check_one, _apply, _switch.                              *)

\* Mutation of CheckBegin: it is not asked whether there is a schedule.
CheckBeginAny(c) ==
    /\ writer[c].step = "idle"
    /\ c = "now" => requests < MaxOwn
    /\ requests' = IF c = "now" THEN requests + 1 ELSE requests
    /\ writer' = [writer EXCEPT ![c] = [Idle EXCEPT !.step = "look", !.id = row.id, !.plan = row.plan]]
    /\ late' = late \ {c} /\ crossed' = crossed \ {c}
    /\ UNCHANGED <<pce, row, ids, turns, ruleEdits, faults, trampled, mislaid, early>>
\* One schedule that is not paused, as the store has it now.
CheckBegin(c) ==
    /\ writer[c].step = "idle" /\ row.id # 0 /\ ~row.paused
    /\ c = "now" => requests < MaxOwn
    /\ requests' = IF c = "now" THEN requests + 1 ELSE requests
    /\ writer' = [writer EXCEPT ![c] = [Idle EXCEPT !.step = "look", !.id = row.id, !.plan = row.plan]]
    /\ late' = late \ {c} /\ crossed' = crossed \ {c}
    /\ UNCHANGED <<pce, row, ids, turns, ruleEdits, faults, trampled, mislaid, early>>

\* A pending draft: skipped this round.
CheckSkips(c) ==
    /\ writer[c].step = "look" /\ Pending
    /\ Ends(c)
    /\ UNCHANGED <<pce, row, ruleBounds, ruleHistory>>

\* The draft's value is taken for the live one.  An expired plan needs no look at the active rule, and
\* no switch if the rule is disabled.
CheckLooks(c) ==
    /\ writer[c].step = "look" /\ ~Pending
    /\ writer' = [writer EXCEPT ![c].before = pce.draft,
                                ![c].step = IF writer[c].plan # "expired" THEN "active"
                                            ELSE IF pce.draft THEN "put" ELSE "clear"]
    /\ UNCHANGED <<pce, row, ruleBounds, ruleHistory>>

CheckActive(c) ==
    /\ writer[c].step = "active"
    /\ IF pce.live = Wanted(writer[c].plan) \/ writer[c].before = Wanted(writer[c].plan)
       THEN Ends(c) ELSE Step(c, "put")
    /\ UNCHANGED <<pce, row, ruleBounds, ruleHistory>>

CheckPut(c, o) ==
    /\ writer[c].step = "put"
    /\ Put(c, o, [pce EXCEPT !.draft = Wanted(writer[c].plan)], "provision", "idle")

\* Mutation of AfterRefusal: an expiry goes on to drop the schedule.
AfterRefusalDrops(c) == IF writer[c].plan = "expired" THEN "save" ELSE "undo"

\* Mutation of AfterRefusal: the schedule's own change stays in the draft.
AfterRefusalKeeps(c) == "idle"

\* A change that was not provisioned is put back.
AfterRefusal(c) == "undo"

CheckProvision(c, o) ==
    /\ writer[c].step = "provision" /\ c \in Checkers
    /\ Provision(c, o, IF writer[c].plan = "expired" THEN "clear" ELSE "idle", AfterRefusal(c))

\* _clear_note of an expired schedule: its description is written and provisioned, or left in the draft.
CheckClears(c, o) ==
    /\ writer[c].step = "clear"
    /\ IF o = "ok" THEN UNCHANGED faults ELSE Fault
    /\ pce' = CASE o = "ok" -> Provisioned
                [] o = "lost" -> [pce EXCEPT !.note = TRUE]
                [] o = "refused" -> pce
    /\ trampled' = (trampled \/ (o = "ok" /\ Tramples(c)))
    /\ mislaid' = (mislaid \/ o = "lost")
    /\ crossed' = crossed \cup Others(c)
    /\ Step(c, "save")
    /\ UNCHANGED <<row, ids, turns, requests, ruleEdits, late, early>>

\* The expiry was carried out: the schedule goes, by its id.
CheckDrops(c) ==
    /\ writer[c].step = "save" /\ c \in Checkers
    /\ early' = IF ~pce.live \/ early = "alone" THEN early ELSE IF c \in crossed THEN "crossed" ELSE "alone"
    /\ row' = IF row.id = writer[c].id THEN NoRow ELSE row
    /\ Ends(c)
    /\ UNCHANGED <<pce, ruleBounds, late, crossed, trampled, mislaid>>

\* The PCE does not answer a read, or the target is gone from it.
CheckFails(c) ==
    /\ writer[c].step \in {"look", "active"} /\ Fault
    /\ Ends(c)
    /\ UNCHANGED <<pce, row, ids, turns, requests, ruleEdits, ruleHistory>>

Check(c) ==
    \/ CheckSkips(c) \/ CheckLooks(c) \/ CheckActive(c) \/ CheckDrops(c)
    \/ \E o \in Outcomes : CheckPut(c, o) \/ CheckProvision(c, o) \/ CheckClears(c, o) \/ Revert(c, o)

-----------------------------------------------------------------------------
(* The page: create, update, delete (each a note in the description), and  *)
(* set_paused.                                                             *)

Request == requests < MaxOwn /\ requests' = requests + 1

PageBegin(kind, plan) ==
    /\ writer["page"].step = "idle" /\ Request
    /\ IF kind = "create" THEN row.id = 0 /\ ids < MaxIds ELSE row.id # 0
    /\ writer' = [writer EXCEPT !["page"] =
                    [Idle EXCEPT !.step = "look", !.kind = kind, !.id = row.id, !.plan = plan]]
    /\ late' = late \ {"page"} /\ crossed' = crossed \ {"page"}
    /\ UNCHANGED <<pce, row, ids, turns, ruleEdits, faults, trampled, mislaid, early>>

\* create and update refuse a pending draft; delete remembers it.
PageLooks ==
    /\ writer["page"].step = "look"
    /\ IF writer["page"].kind # "delete" /\ Pending THEN Ends("page")
       ELSE writer' = [writer EXCEPT !["page"].step = "put", !["page"].before = Pending]
    /\ UNCHANGED <<pce, row, ruleBounds, ruleHistory>>

Deleting == writer["page"].kind = "delete"

PagePut(o) ==
    /\ writer["page"].step = "put"
    /\ Put("page", o, [pce EXCEPT !.note = TRUE],
           IF Deleting /\ writer["page"].before THEN "save" ELSE "provision", IF Deleting THEN "save" ELSE "idle")

PageProvision(o) ==
    /\ writer["page"].step = "provision"
    /\ Provision("page", o, "save", IF Deleting THEN "save" ELSE "undo")

\* The row: made, given the new plan, or gone, whatever the PCE said to a delete.
PageSaves ==
    /\ writer["page"].step = "save"
    /\ LET w == writer["page"]
       IN /\ row' = CASE w.kind = "create" -> [NoRow EXCEPT !.id = ids + 1, !.plan = w.plan]
                      [] w.kind = "update" /\ row.id = w.id -> [row EXCEPT !.plan = w.plan]
                      [] w.kind = "delete" /\ row.id = w.id -> NoRow
                      [] OTHER -> row
          /\ ids' = IF w.kind = "create" THEN ids + 1 ELSE ids
    /\ Ends("page")
    /\ UNCHANGED <<pce, turns, requests, ruleEdits, faults, ruleHistory>>

SetPaused ==
    /\ row.id # 0 /\ Request
    /\ row' = [row EXCEPT !.paused = ~@]
    /\ UNCHANGED <<pce, writer, ids, turns, ruleEdits, faults, ruleHistory>>

Page ==
    \/ PageLooks \/ PageSaves
    \/ \E o \in Outcomes : PagePut(o) \/ PageProvision(o) \/ Revert("page", o)

-----------------------------------------------------------------------------
(* The clock, people at the PCE, and a stop of the service.                *)

\* desired: a window begins or ends, an expiry falls due.
PlanTurns ==
    /\ row.id # 0 /\ turns < MaxTurns /\ turns' = turns + 1
    /\ row.plan # "expired"
    /\ row' = [row EXCEPT !.plan = CASE @ = "on" -> "off" [] @ = "off" -> "on" [] @ = "keep" -> "expired"]
    /\ UNCHANGED <<pce, writer, ids, requests, ruleEdits, faults, ruleHistory>>

PeopleEdit ==
    /\ ~pce.foreign /\ ruleEdits < MaxEditions /\ ruleEdits' = ruleEdits + 1
    /\ pce' = [pce EXCEPT !.foreign = TRUE]
    /\ late' = {w \in Writers : writer[w].step \notin {"idle", "look"}}
    /\ UNCHANGED <<row, writer, ids, turns, requests, faults, crossed, trampled, mislaid, early>>

\* They end what they began, for the whole rule set.
PeopleProvision ==
    /\ pce.foreign /\ pce' = Provisioned
    /\ crossed' = crossed \cup Others("people")
    /\ UNCHANGED <<row, writer, ruleBounds, late, trampled, mislaid, early>>

PeopleRevert ==
    /\ pce.foreign /\ pce' = Reverted
    /\ crossed' = crossed \cup Others("people")
    /\ UNCHANGED <<row, writer, ruleBounds, late, trampled, mislaid, early>>

RuleStop ==
    /\ \E w \in Writers : writer[w].step # "idle"
    /\ Fault
    /\ mislaid' = (mislaid \/ \E w \in Writers : writer[w].step \in {"provision", "undo"})
    /\ writer' = [w \in Writers |-> Idle]
    /\ UNCHANGED <<pce, row, ids, turns, requests, ruleEdits, late, crossed, trampled, early>>

RuleNext ==
    \/ \E c \in Checkers : CheckBegin(c) \/ CheckFails(c) \/ Check(c)
    \/ Page \/ SetPaused \/ PlanTurns \/ PeopleEdit \/ PeopleProvision \/ PeopleRevert \/ RuleStop
    \/ \E kind \in {"create", "update", "delete"}, plan \in {"on", "keep"} : PageBegin(kind, plan)

\* The tick runs every five minutes, and checks and requests that began go on.
RuleFairness ==
    /\ WF_ruleVars(CheckBegin("tick")) /\ WF_ruleVars(Page)
    /\ \A c \in Checkers : WF_ruleVars(Check(c))

RuleSpec == RuleInit /\ [][RuleNext]_ruleVars /\ RuleFairness

-----------------------------------------------------------------------------
(* Properties.                                                             *)

\* A change someone else has waiting in the rule set's draft is neither taken live nor discarded by a
\* check or by the page, unless it was made after they looked ("no switch on top of a change nobody
\* reviewed").
NeverTramples == ~trampled

\* A check that nobody crosses drops an expiry only with the rule disabled and provisioned, whatever
\* the PCE refuses and whichever answer is lost (5.x review BUG-1).
ExpiryDropsDisabled == early # "alone"

\* "an expiry is removed only once the target is disabled and provisioned" (rule_schedules.py), whoever
\* else checks the same schedule.
ExpiryOnlyWhenDisabled == early = "no"

\* The rule is as its schedule wants it, or something waits in the draft that a check must not touch.
RuleIsAsPlanned == row.id = 0 \/ row.paused \/ pce.live = Wanted(row.plan) \/ pce.foreign \/ mislaid
\* The rule follows the plan: from some time on it is as the schedule wants it.
RuleFollowsPlan == <>[]RuleIsAsPlanned

\* A schedule neither touches what others have waiting nor forgets a rule it should disable
\* (services/rule_schedules.py).
SchedulesDoNoHarm == RuleTypeOK /\ NeverTramples /\ ExpiryDropsDisabled
=============================================================================
