------------------------------ MODULE Handover ------------------------------
(***************************************************************************)
(* The upgrade from 5.x: what a stopped 5.x had sent to its SIEM and       *)
(* evaluated for alerts is read from its cache, written into the new       *)
(* installation as floors, and the first cycles, dispatches and            *)
(* evaluations of v6 go on from there.  An event is its time; times are    *)
(* even, so that "one millisecond before" is the odd number before.        *)
(***************************************************************************)
EXTENDS Integers, Sequences, SequencesExt, FiniteSetsExt

CONSTANTS
    PceEvents,    \* the events of the PCE: even numbers
    StoppedAt,    \* when 5.x was stopped
    UpgradedAt,   \* when the upgrade ran
    ColdStartCap, \* COLD_START_CAP
    CycleTimes,   \* when v6 may run its events cycles
    EventOverlap, \* how far a later cycle reads back
    EventBatch,   \* events evaluated, and records sent, per batch
    MaxCuts       \* bound: stops of the upgrade or of an evaluation run

ASSUME HandoverAssumption ==
    /\ \A e \in PceEvents : e % 2 = 0 /\ e > 0
    /\ StoppedAt <= UpgradedAt /\ \A t \in CycleTimes : t >= UpgradedAt

VARIABLES
    v5,           \* 5.x as it was stopped: [order, from, settled, failed, cursor, cacheOn, mark, late, lateAt, twice]
    installing,   \* how far the upgrade is: none, settings, app, floors, marked, done, broken
    auditFloor,   \* siem_cursors: floor_time of the audit source
    auditAt,      \* its last_id
    alertMark,    \* the event alerts' watermark: ["t", time] or ["id", id]
    coldStart,    \* cold_start_from of the events source
    eventMark,    \* its watermark
    eventTable,   \* the events table: the order of ids
    evalRun,      \* the evaluation run in progress: [on, floor, after]
    sentNow,      \* history: events v6 sent
    judgedNow,    \* history: events v6 evaluated
    clearedAt,    \* history: the last id when the audit floor was cleared, -1 before
    cuts          \* history: stops

handoverVars == <<v5, installing, auditFloor, auditAt, alertMark, coldStart, eventMark, eventTable, evalRun,
                  sentNow, judgedNow, clearedAt, cuts>>

NoTime == 0
\* An event is on the PCE from its time on; one of a VEN that was away only once it is back.
VisibleAt(e) == IF e = v5.late THEN v5.lateAt ELSE e
Latest(s) == FoldSet(LAMBDA a, b : IF a > b THEN a ELSE b, NoTime, s)
Earliest(s) == CHOOSE a \in s : \A b \in s : a <= b
InOrder(a, b) == {v5.order[i] : i \in a .. b}

\* What 5.x left: the events it collected in the order it cached them, its queue to the SIEM from some event on, worked
\* off in that order, and how many of the cached events were evaluated.
Left5x(o) ==
    /\ \E until \in 0 .. StoppedAt :
          \E seen \in {{e \in PceEvents : (IF e = o.late THEN o.lateAt ELSE e) <= until}} :
             IF o.cacheOn THEN o.order \in SetToSeqs(seen) /\ o.mark = NoTime ELSE o.order = <<>> /\ o.mark \in seen \cup {NoTime}
    /\ o.from \in 1 .. Len(o.order) + 1 /\ o.settled \in o.from - 1 .. Len(o.order)
    /\ o.failed \in o.from - 1 .. o.settled /\ o.cursor \in -1 .. Len(o.order)

\* settled: the queue's last record that was sent or given up; failed: the one given up (none: before the queue).
Pending == InOrder(v5.settled + 1, Len(v5.order))
Failed5 == IF v5.failed >= v5.from THEN {v5.order[v5.failed]} ELSE {}
Sent5 == InOrder(v5.from, v5.settled) \ Failed5
NeverQueued == InOrder(1, v5.from - 1)
Judged5 == IF v5.cacheOn THEN InOrder(1, v5.cursor) ELSE {e \in PceEvents : e <= v5.mark /\ VisibleAt(e) <= StoppedAt}

HandoverInit ==
    /\ \E cacheOn \in BOOLEAN, lateOne \in {NoTime} \cup PceEvents, mark \in {NoTime} \cup PceEvents, twice \in BOOLEAN :
       \E lateAt \in (IF lateOne = NoTime THEN {NoTime} ELSE {StoppedAt + 1} \cup CycleTimes) :
       \E order \in UNION {SetToSeqs(s) : s \in SUBSET {e \in PceEvents : e <= StoppedAt}} :
       \E from \in 1 .. Len(order) + 1, cursor \in -1 .. Len(order) : \E settled \in from - 1 .. Len(order) :
       \E failed \in from - 1 .. settled :
          /\ v5 = [order |-> order, from |-> from, settled |-> settled, failed |-> failed, cursor |-> cursor,
                    cacheOn |-> cacheOn, mark |-> mark, late |-> lateOne, lateAt |-> lateAt, twice |-> twice]
          /\ lateAt >= lateOne /\ Left5x(v5)
    /\ installing = "none" /\ auditFloor = NoTime /\ auditAt = 0 /\ alertMark = <<"id", 0>> /\ coldStart = NoTime
    /\ eventMark = NoTime /\ eventTable = <<>> /\ evalRun = [on |-> FALSE, floor |-> NoTime, after |-> 0]
    /\ sentNow = {} /\ judgedNow = {} /\ clearedAt = -1 /\ cuts = 0

-----------------------------------------------------------------------------
(* read_handover                                                           *)

\* _destination: just before the oldest event still pending, or else the newest sent.
\* Mutation of AuditFloor: the newest sent, whatever is pending behind it.
AuditFloorNewest == Latest(Sent5)
AuditFloor == IF Pending # {} THEN Earliest(Pending) - 1 ELSE Latest(Sent5)

\* _analyzer by its cursor, or state.json's watermark with the cache off.
\* Mutation of AlertFloor: the newest event evaluated.
AlertFloorNewest == Latest(Judged5)
AlertFloor ==
    IF ~v5.cacheOn THEN v5.mark
    ELSE LET rest == InOrder((IF v5.cursor < 0 THEN 0 ELSE v5.cursor) + 1, Len(v5.order))
         IN IF rest # {} THEN Earliest(rest) - 1 ELSE Latest(Judged5)

OrNow(floor) == IF floor = NoTime THEN UpgradedAt ELSE floor
Floors == {AuditFloor, AlertFloor} \ {NoTime}
\* The earliest floor, at most COLD_START_CAP back; the upgrade itself without one.
\* Mutation of ColdStart: where the alerts go on.
ColdStartOfAlerts == OrNow(AlertFloor)
ColdStart ==
    LET earliest == IF Floors = {} THEN UpgradedAt ELSE Earliest(Floors)
    IN IF earliest > UpgradedAt - ColdStartCap THEN earliest ELSE UpgradedAt - ColdStartCap

-----------------------------------------------------------------------------
(* upgrade: nothing is written over an installation, and settings come     *)
(* first: a stop in between leaves one that a second run refuses.          *)

WriteSettings ==
    /\ installing = "none" /\ installing' = "settings"
    /\ UNCHANGED <<v5, auditFloor, auditAt, alertMark, coldStart, eventMark, eventTable, evalRun, sentNow, judgedNow, clearedAt, cuts>>
\* Two 5.x schedules, of a rule's draft and of its active version, become one target: the second is refused.
WriteRuleSchedules ==
    /\ installing = "settings" /\ installing' = IF v5.twice THEN "broken" ELSE "app"
    /\ UNCHANGED <<v5, auditFloor, auditAt, alertMark, coldStart, eventMark, eventTable, evalRun, sentNow, judgedNow, clearedAt, cuts>>
SetFloors ==
    /\ installing = "app" /\ installing' = "floors" /\ auditFloor' = OrNow(AuditFloor)
    /\ UNCHANGED <<v5, auditAt, alertMark, coldStart, eventMark, eventTable, evalRun, sentNow, judgedNow, clearedAt, cuts>>
SetAlertMark ==
    /\ installing = "floors" /\ installing' = "marked" /\ alertMark' = <<"t", OrNow(AlertFloor)>>
    /\ UNCHANGED <<v5, auditFloor, auditAt, coldStart, eventMark, eventTable, evalRun, sentNow, judgedNow, clearedAt, cuts>>
SetColdStart ==
    /\ installing = "marked" /\ installing' = "done" /\ coldStart' = ColdStart
    /\ UNCHANGED <<v5, auditFloor, auditAt, alertMark, eventMark, eventTable, evalRun, sentNow, judgedNow, clearedAt, cuts>>
CutOff ==
    /\ cuts < MaxCuts /\ cuts' = cuts + 1
    /\ \/ installing \in {"settings", "app", "floors", "marked"} /\ installing' = "broken" /\ UNCHANGED evalRun
       \/ evalRun.on /\ evalRun' = [evalRun EXCEPT !.on = FALSE] /\ UNCHANGED installing
    /\ UNCHANGED <<v5, auditFloor, auditAt, alertMark, coldStart, eventMark, eventTable, sentNow, judgedNow, clearedAt>>

-----------------------------------------------------------------------------
(* The first cycles, dispatches and evaluations of v6.                     *)

\* run_events_cycle: from the cold start until one succeeds, in whatever order the PCE answers.
EventsCycle ==
    /\ installing = "done"
    /\ \E at \in CycleTimes :
          /\ at > eventMark /\ eventMark' = at
          /\ LET start == IF eventMark = NoTime THEN coldStart ELSE eventMark - EventOverlap
                 new == {e \in PceEvents : e >= start /\ e <= at /\ VisibleAt(e) <= at} \ Range(eventTable)
             IN \E rows \in {SetToSortSeq(new, <), SetToSortSeq(new, >)} : eventTable' = eventTable \o rows
    /\ UNCHANGED <<v5, installing, auditFloor, auditAt, alertMark, coldStart, evalRun, sentNow, judgedNow, clearedAt, cuts>>

\* _run_source: records up to the floor are passed over; once caught up, the floor goes.
Dispatch ==
    /\ installing = "done"
    /\ LET last == IF auditAt + EventBatch < Len(eventTable) THEN auditAt + EventBatch ELSE Len(eventTable)
       IN \/ /\ last > auditAt /\ auditAt' = last
             /\ sentNow' = sentNow \cup {e \in {eventTable[i] : i \in auditAt + 1 .. last} : auditFloor = NoTime \/ e > auditFloor}
             /\ UNCHANGED <<auditFloor, clearedAt>>
          \/ /\ last = auditAt /\ auditFloor # NoTime /\ auditAt > 0
             /\ auditFloor' = NoTime /\ clearedAt' = auditAt /\ UNCHANGED <<auditAt, sentNow>>
    /\ UNCHANGED <<v5, installing, alertMark, coldStart, eventMark, eventTable, evalRun, judgedNow, cuts>>

\* evaluate_events: a run keeps the floor it began with; the watermark is an id from its first batch on.
EvaluateBegins ==
    /\ installing = "done" /\ ~evalRun.on
    /\ evalRun' = [on |-> TRUE, floor |-> IF alertMark[1] = "t" THEN alertMark[2] ELSE NoTime,
                   after |-> IF alertMark[1] = "t" THEN 0 ELSE alertMark[2]]
    /\ UNCHANGED <<v5, installing, auditFloor, auditAt, alertMark, coldStart, eventMark, eventTable, sentNow, judgedNow, clearedAt, cuts>>
EvaluateBatch ==
    /\ evalRun.on /\ evalRun.after < Len(eventTable)
    /\ LET last == IF evalRun.after + EventBatch < Len(eventTable) THEN evalRun.after + EventBatch ELSE Len(eventTable)
       IN /\ judgedNow' = judgedNow \cup {e \in {eventTable[i] : i \in evalRun.after + 1 .. last} : e > evalRun.floor}
          /\ alertMark' = <<"id", last>> /\ evalRun' = [evalRun EXCEPT !.after = last, !.on = last < Len(eventTable)]
    /\ UNCHANGED <<v5, installing, auditFloor, auditAt, coldStart, eventMark, eventTable, sentNow, clearedAt, cuts>>
EvaluateEnds ==
    /\ evalRun.on /\ evalRun.after = Len(eventTable) /\ evalRun' = [evalRun EXCEPT !.on = FALSE]
    /\ UNCHANGED <<v5, installing, auditFloor, auditAt, alertMark, coldStart, eventMark, eventTable, sentNow, judgedNow, clearedAt, cuts>>

HandoverNext ==
    \/ WriteSettings \/ WriteRuleSchedules \/ SetFloors \/ SetAlertMark \/ SetColdStart \/ CutOff
    \/ EventsCycle \/ Dispatch \/ EvaluateBegins \/ EvaluateBatch \/ EvaluateEnds

-----------------------------------------------------------------------------
\* A VEN that was away: its event is older than what 5.x got to, and came only after 5.x was stopped.
CameLate(e) == VisibleAt(e) > StoppedAt /\ e < VisibleAt(e)
CollectedBy(at) == {e \in PceEvents : VisibleAt(e) <= at}
IdOf(e) == CHOOSE i \in 1 .. Len(eventTable) : eventTable[i] = e

\* "continue where the stopped 5.x got to": once v6 has caught up, an event that was pending, or that 5.x never
\* collected, has been sent; a late one that came with the first cycles is taken for one 5.x sent, a later one is not.
NothingUnsent ==
    eventMark # NoTime /\ auditAt = Len(eventTable) =>
        \A e \in CollectedBy(eventMark) \ (Sent5 \cup Failed5 \cup NeverQueued) :
            \/ e \in sentNow \/ e < UpgradedAt - ColdStartCap
            \/ AuditFloor = NoTime /\ e <= UpgradedAt
            \/ CameLate(e) /\ (e \notin Range(eventTable) \/ clearedAt < 0 \/ IdOf(e) <= clearedAt)

\* "5.x evaluated the events up to that time; ... only the later ones evaluated" (evaluate_events): no event 5.x
\* evaluated, up to its floor, is evaluated again.
EvaluatedOnce == \A e \in Judged5 \cap judgedNow : e > OrNow(AlertFloor)

\* Likewise every event 5.x had not evaluated is evaluated; one it had evaluated is not evaluated again, unless the
\* first run after the upgrade was cut off between two batches or a later cycle's overlap reached before the cold start.
NothingUnjudged ==
    /\ eventMark # NoTime /\ ~evalRun.on /\ alertMark = <<"id", Len(eventTable)>> =>
          \A e \in CollectedBy(eventMark) \ Judged5 :
              \/ e \in judgedNow \/ e < UpgradedAt - ColdStartCap
              \/ AlertFloor = NoTime /\ e <= UpgradedAt
              \/ CameLate(e)
    /\ \A e \in Judged5 \cap judgedNow : e > OrNow(AlertFloor) \/ cuts > 0 \/ e < coldStart

\* The handover loses no event to the SIEM or to the alerts, and alerts on none again needlessly
\* (migrate/v5_handover.py, v5_write.py, dispatch._run_source, evaluate_events).
HandoverIsSeamless == NothingUnsent /\ NothingUnjudged
=============================================================================
