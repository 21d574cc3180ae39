----------------------------- MODULE AlertRules -----------------------------
(***************************************************************************)
(* Lateral-movement alerts: two jobs run the detectors and write           *)
(* detections, each then evaluates the alert rules over what changed since *)
(* the watermark, page by page, and records alerts through the rule's      *)
(* cooldown and throttle.                                                  *)
(*                                                                         *)
(* One rule, with a throttle, that takes every detector; rules share       *)
(* nothing but the watermark.  A detection is known by its fingerprint,    *)
(* which also orders detections of one stamp as their ids do; a            *)
(* fingerprint has one row, so every new finding of it falls into the      *)
(* row's dedup window.  Exclusions, known causes and deliveries of an      *)
(* alert are left out, and so is a switch of the PCE.                      *)
(***************************************************************************)
EXTENDS Integers, Sequences, FiniteSets

CONSTANTS
    NumDetections,  \* fingerprints are 1 .. NumDetections
    MaxSev,         \* severities are 1 .. MaxSev
    MinSev,         \* the rule's min_severity
    Cooldown,       \* cooldown_minutes
    Count, Period,  \* throttle
    Page, Batches,  \* DETECTION_BATCH, DETECTION_BATCHES
    MaxNow,         \* bound: the clock
    MaxRuns,        \* bound: detector runs
    MaxTroubles     \* bound: failures and resets of the rule's state

ASSUME AlertRulesAssumption ==
    /\ NumDetections \in Nat /\ MaxSev \in Nat \ {0} /\ MinSev \in 1 .. MaxSev
    /\ Cooldown \in Nat /\ Count \in Nat \ {0} /\ Period \in Nat \ {0} /\ Page \in Nat \ {0} /\ Batches \in Nat \ {0}
    /\ MaxNow \in Nat /\ MaxRuns \in Nat /\ MaxTroubles \in Nat

Detections == 1 .. NumDetections
Jobs == {"traffic", "backfill"}

VARIABLES
    now,       \* the clock
    rows,      \* detections: fingerprint -> [sev, created, updated] or NoRow
    mark,      \* alert_eval_state of "lateral": <<updated_at, id>> or NoMark
    seen,      \* alert_rule_state.seen_severity, 0 for NULL
    last,      \* alert_rule_state.last_fired_at, NoTime for NULL
    recent,    \* alert_rule_state.recent_json: the alerts, by their place in alerts, whose times it keeps
    alerts,    \* the alerts recorded, per fingerprint: a sequence of [sev, at]
    job,       \* the two jobs
    runs,      \* (bound) detector runs
    troubles,  \* (bound)
    passed,    \* (history) per fingerprint: the severity up to which it counts as history
    restamped, \* (history) fingerprints whose updated_at went back
    era        \* (history) alerts recorded, per fingerprint, when the rule's state was last reset

store == <<mark, seen, last, recent, alerts>>
history == <<passed, restamped, era>>
vars == <<now, rows, store, job, runs, troubles, history>>

NoTime == -1
NoRow == [sev |-> 0, created |-> NoTime, updated |-> NoTime]
NoMark == <<NoTime, NoTime>>
Start == <<NoTime, 0>>   \* max_detection_update of an empty table
Found(d) == rows[d] # NoRow

\* (updated_at, id) comes after the mark.
After(at, d, m) == at > m[1] \/ (at = m[1] /\ d > m[2])

\* detections_changed_since: the row will be in a later page.
Ahead(d, m) == Found(d) /\ After(rows[d].updated, d, m)

IdleJob == [step |-> "idle", at |-> 0, start |-> NoMark, from |-> NoMark, pages |-> 0, page |-> <<>>]
ReadyJob == [IdleJob EXCEPT !.step = "evaluate"]

\* A store without detections, before or after the first evaluation.
Init ==
    /\ now = 0 /\ rows = [d \in Detections |-> NoRow]
    /\ mark \in {NoMark, Start} /\ seen = [d \in Detections |-> 0]
    /\ last = [d \in Detections |-> NoTime] /\ recent = [d \in Detections |-> {}]
    /\ alerts = [d \in Detections |-> <<>>] /\ job = [j \in Jobs |-> IdleJob]
    /\ runs = 0 /\ troubles = 0
    /\ passed = [d \in Detections |-> 0] /\ restamped = {} /\ era = [d \in Detections |-> 0]

Trouble == troubles < MaxTroubles /\ troubles' = troubles + 1

-----------------------------------------------------------------------------
(* run_detection.                                                          *)

\* The time that will stamp what this run finds is taken when it begins.  The backfill job has a
\* run for each day that is owed one before it evaluates.
DetectBegin(j) ==
    /\ job[j].step = "idle" \/ (j = "backfill" /\ job[j].step = "evaluate")
    /\ runs < MaxRuns
    /\ runs' = runs + 1
    /\ job' = [job EXCEPT ![j] = [IdleJob EXCEPT !.step = "detect", !.at = now]]
    /\ UNCHANGED <<now, rows, store, troubles, history>>

\* Mutation of Upsert: the row takes the severity of the latest finding.
UpsertLatest(d, sev, at) ==
    [sev |-> sev, created |-> IF Found(d) THEN rows[d].created ELSE at, updated |-> at]

\* upsert_detections: a row's severity never goes down, its updated_at is the run's stamp.
Upsert(d, sev, at) ==
    [sev |-> IF sev > rows[d].sev THEN sev ELSE rows[d].sev,
     created |-> IF Found(d) THEN rows[d].created ELSE at, updated |-> at]

DetectWrite(j, found) ==
    /\ job[j].step = "detect"
    /\ rows' = [d \in Detections |-> IF d \in DOMAIN found THEN Upsert(d, found[d], job[j].at) ELSE rows[d]]
    /\ LET behind == {d \in DOMAIN found : mark # NoMark /\ seen[d] = 0 /\ ~After(job[j].at, d, mark)}
       IN passed' = [d \in Detections |-> IF d \in behind THEN rows'[d].sev ELSE passed[d]]
    /\ restamped' = restamped \cup {d \in DOMAIN found : job[j].at < rows[d].updated}
    /\ job' = [job EXCEPT ![j] = ReadyJob]
    /\ UNCHANGED <<now, store, runs, troubles, era>>

\* A failed run of the traffic job's detectors does not stop the evaluation after it; the backfill
\* job ends.
DetectFail(j) ==
    /\ job[j].step = "detect" /\ Trouble
    /\ job' = [job EXCEPT ![j] = IF j = "traffic" THEN ReadyJob ELSE IdleJob]
    /\ UNCHANGED <<now, rows, store, runs, history>>

-----------------------------------------------------------------------------
(* evaluate_lateral, one job at a time.                                    *)

Evaluating(j) == job[j].step \in {"page", "commit"}

\* Before the first successful collection there is nothing to start the watermark at.
EvaluateWaits(j) ==
    /\ job[j].step = "evaluate" /\ \A i \in Jobs : ~Evaluating(i)
    /\ mark = NoMark /\ \A d \in Detections : ~Found(d)
    /\ job' = [job EXCEPT ![j] = IdleJob]
    /\ UNCHANGED <<now, rows, store, runs, troubles, history>>

\* The first evaluation only sets the watermark to the newest change.
EvaluateFirst(j) ==
    /\ job[j].step = "evaluate" /\ \A i \in Jobs : ~Evaluating(i) /\ mark = NoMark
    /\ mark' = IF \E d \in Detections : Found(d)
               THEN LET d == CHOOSE d \in Detections : Found(d) /\ \A e \in Detections \ {d} :
                                ~Found(e) \/ After(rows[d].updated, d, <<rows[e].updated, e>>)
                    IN <<rows[d].updated, d>>
               ELSE Start
    /\ passed' = [d \in Detections |-> rows[d].sev]
    /\ job' = [job EXCEPT ![j] = IdleJob]
    /\ UNCHANGED <<now, rows, seen, last, recent, alerts, runs, troubles, restamped, era>>

EvaluateBegin(j) ==
    /\ job[j].step = "evaluate" /\ \A i \in Jobs : ~Evaluating(i) /\ mark # NoMark
    /\ job' = [job EXCEPT ![j] = [IdleJob EXCEPT !.step = "page", !.at = now, !.start = mark, !.from = mark]]
    /\ UNCHANGED <<now, rows, store, runs, troubles, history>>

\* The next Page rows in order of (updated_at, id), as they are now.
EvaluatePage(j) ==
    /\ job[j].step = "page"
    /\ LET changed == {d \in Detections : Ahead(d, job[j].from)}
           before(d) == {e \in changed : After(rows[d].updated, d, <<rows[e].updated, e>>)}
           page == {d \in changed : Cardinality(before(d)) < Page}
       IN job' = [job EXCEPT ![j] = IF page = {} THEN IdleJob
                                    ELSE [@ EXCEPT !.step = "commit", !.page = [d \in page |-> rows[d]]]]
    /\ UNCHANGED <<now, rows, store, runs, troubles, history>>

\* gate: cooldown first, then the throttle.
Recent(d, at) == {i \in recent[d] : alerts[d][i].at > at - Period}
Cool(d, at) == last[d] # NoTime /\ at < last[d] + Cooldown

\* Mutation of Allowed: the throttle lets one more through.
AllowedOneMore(d, at) == ~Cool(d, at) /\ Cardinality(Recent(d, at)) <= Count

Allowed(d, at) == ~Cool(d, at) /\ Cardinality(Recent(d, at)) < Count

\* _previous_severity: as this rule last evaluated it, before that was kept its last alert's.
Previous(d) ==
    IF seen[d] > 0 THEN seen[d]
    ELSE IF alerts[d] = <<>> THEN 0 ELSE alerts[d][Len(alerts[d])].sev

\* _is_new: created after the watermark the run began with.
IsNew(row, d, start) == After(row.created, d, start)
Rose(row, d) == Previous(d) > 0 /\ row.sev > Previous(d)

\* Mutation of Noticed: a detection alerts each time it changes.
NoticedAlways(row, d, start) == row.sev >= MinSev

\* evaluate_lateral_rule.
Noticed(row, d, start) == row.sev >= MinSev /\ (IsNew(row, d, start) \/ Rose(row, d))

\* Mutation of Settled: an evaluated severity is remembered also when its alert was held back.
SettledAlways(page, triggers, at) == DOMAIN page

\* Detections whose severity is remembered: a rise held back stays a rise until it is alerted.
Settled(page, triggers, at) == {d \in DOMAIN page : d \in triggers => Allowed(d, at)}

\* The last row of a page, where the watermark goes.
PageEnd(page) ==
    LET d == CHOOSE d \in DOMAIN page : \A e \in DOMAIN page \ {d} : After(page[d].updated, d, <<page[e].updated, e>>)
    IN <<page[d].updated, d>>

\* _Recorder.commit: alerts, gates, seen severities and watermark in one transaction.
EvaluateCommit(j) ==
    /\ job[j].step = "commit"
    /\ LET page == job[j].page
           at == job[j].at
           triggers == {d \in DOMAIN page : Noticed(page[d], d, job[j].start)}
           fired == {d \in triggers : Allowed(d, at)}
           end == PageEnd(page)
           overlooked == {d \in Detections : Ahead(d, mark) /\ ~After(rows[d].updated, d, end) /\ seen'[d] = 0}
           unknown == {d \in DOMAIN page : d \notin triggers /\ seen[d] = 0 /\ ~IsNew(page[d], d, job[j].start)}
       IN /\ alerts' = [d \in Detections |-> IF d \in fired THEN Append(alerts[d], [sev |-> page[d].sev, at |-> at])
                                             ELSE alerts[d]]
          /\ last' = [d \in Detections |-> IF d \in fired THEN at ELSE last[d]]
          /\ recent' = [d \in Detections |-> IF d \in fired THEN Recent(d, at) \cup {Len(alerts[d]) + 1}
                                             ELSE IF d \in triggers THEN Recent(d, at) ELSE recent[d]]
          /\ seen' = [d \in Detections |-> IF d \in Settled(page, triggers, at) THEN page[d].sev ELSE seen[d]]
          /\ mark' = end
          /\ passed' = [d \in Detections |-> IF d \in overlooked THEN rows[d].sev
                                             ELSE IF d \in unknown THEN page[d].sev ELSE passed[d]]
          /\ job' = [job EXCEPT ![j] = IF Cardinality(DOMAIN page) < Page \/ @.pages + 1 = Batches THEN IdleJob
                                       ELSE [job[j] EXCEPT !.step = "page", !.from = end, !.pages = job[j].pages + 1,
                                                           !.page = <<>>]]
    /\ UNCHANGED <<now, rows, runs, troubles, restamped, era>>

-----------------------------------------------------------------------------

\* An exception ends the job; a stop of the service ends both.
Fail(j) ==
    /\ job[j].step # "idle" /\ Trouble
    /\ job' = [job EXCEPT ![j] = IdleJob]
    /\ UNCHANGED <<now, rows, store, runs, history>>

\* reset_rule_state: cooldown and throttle start over.  Only one that changes something counts
\* towards the bound.
ResetRule ==
    /\ IF \A d \in Detections : last[d] = NoTime THEN UNCHANGED troubles ELSE Trouble
    /\ last' = [d \in Detections |-> NoTime] /\ recent' = [d \in Detections |-> {}]
    /\ era' = [d \in Detections |-> Len(alerts[d])]
    /\ UNCHANGED <<now, rows, mark, seen, alerts, job, runs, passed, restamped>>

Tick ==
    /\ now < MaxNow /\ now' = now + 1
    /\ UNCHANGED <<rows, store, job, runs, troubles, history>>

Findings == UNION {[S -> 1 .. MaxSev] : S \in SUBSET Detections}

Evaluate(j) == EvaluateWaits(j) \/ EvaluateFirst(j) \/ EvaluateBegin(j) \/ EvaluatePage(j) \/ EvaluateCommit(j)

Next ==
    \/ \E j \in Jobs : DetectBegin(j) \/ DetectFail(j) \/ Evaluate(j) \/ Fail(j)
    \/ \E j \in Jobs, found \in Findings : DetectWrite(j, found)
    \/ ResetRule \/ Tick

Spec == Init /\ [][Next]_vars

-----------------------------------------------------------------------------
(* What makes it correct.                                                  *)

\* Stamps are never ahead of the clock, and no rule has evaluated a detection at a higher severity
\* than it has (set_seen_severity, _higher).
TypeOK ==
    /\ now \in 0 .. MaxNow
    /\ \A d \in Detections : Found(d) =>
        rows[d].sev \in 1 .. MaxSev /\ rows[d].created \in 0 .. now /\ rows[d].updated \in 0 .. now
    /\ \A d \in Detections : seen[d] \in 0 .. rows[d].sev /\ last[d] \in {NoTime} \cup 0 .. now

AlertedSevs(d) == {alerts[d][i].sev : i \in DOMAIN alerts[d]}

\* "A rise held back stays a rise until it is alerted" (_Recorder.commit): a severity the rule takes
\* that no alert was about, and that is not history, is in a page to come, or the rule remembers a
\* lower one and the detection's next change alerts.  It takes two jobs, a failure between pages or
\* a cooldown to go wrong.
NoRiseForgotten ==
    \A d \in Detections :
        /\ mark # NoMark /\ rows[d].sev >= MinSev /\ rows[d].sev > passed[d]
        /\ \A s \in AlertedSevs(d) : rows[d].sev > s
        => Ahead(d, mark) \/ seen[d] \in 1 .. rows[d].sev - 1

\* The alerts on one detection since the rule's state was last reset keep the cooldown, and no period
\* has more of them than the throttle lets through (gate), whatever job recorded them.
GateIsKept ==
    \A d \in Detections : \A k \in era[d] + 1 .. Len(alerts[d]) :
        /\ \A i \in era[d] + 1 .. k - 1 : alerts[d][i].at + Cooldown <= alerts[d][k].at
        /\ Cardinality({i \in era[d] + 1 .. k - 1 : alerts[d][i].at > alerts[d][k].at - Period}) < Count

\* "A detection alerts when it is new and again when its severity rises - not on every repeat"
\* (evaluate_lateral_rule): while its stamp moves forward and the rule's state is not reset after an
\* alert, each alert on a detection is about a higher severity than the ones before.  One evaluation of
\* a rule without a cooldown may break this: a new detection that the other job restamps between two of
\* its pages is new in both.
RepeatsDoNotAlert ==
    \A d \in Detections : era[d] = 0 /\ d \notin restamped =>
        \A i, k \in DOMAIN alerts[d] : i < k =>
            \/ alerts[d][i].sev < alerts[d][k].sev
            \/ Cooldown = 0 /\ alerts[d][i].at = alerts[d][k].at

\* A rule alerts on every rise it takes, no more often than its gate lets it, and not on repeats
\* (evaluate_lateral_rule, _Recorder, gate), whatever the two jobs that evaluate it do in between.
RiseAlertsOnce == TypeOK /\ NoRiseForgotten /\ GateIsKept /\ RepeatsDoNotAlert
=============================================================================
