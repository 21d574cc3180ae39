------------------------------ MODULE Detection ------------------------------
(***************************************************************************)
(* The detection pipeline.  After each traffic cycle a live run judges the *)
(* connections last seen since the last run, less the collector's overlap; *)
(* after the daily re-read a late run judges the day it added records to.  *)
(* Both jobs read the flow store, judge outside its lock and then store    *)
(* what they found, extending a detection that is near in time.            *)
(*                                                                         *)
(* The records are those of one source on management ports, and the        *)
(* detector is the fan-out one: the other detectors judge the same window  *)
(* and are stored the same way.                                            *)
(***************************************************************************)
EXTENDS Integers, FiniteSets, FiniteSetsExt, SequencesExt

CONSTANTS
    Never,          \* no watermark yet, no run in progress
    Targets,       \* destinations of the source
    AllowedTargets,       \* those whose connections the policy allows
    Began,         \* how long before its last sighting a target's record began
    Overlap,       \* traffic.OVERLAP
    FanoutWindow, FanoutTargets,
    DayLength,     \* units of time in a day
    Installed,     \* when the service first runs
    Horizon,       \* bound: the last time of the model
    MaxRecords,    \* bound: records the store holds
    MaxHistory,    \* bound: those of them a backfill stores
    MaxRunTroubles    \* bound: runs that fail, re-reads that break off, stops of the service

ASSUME DetectionAssumption ==
    /\ {Overlap, FanoutWindow, FanoutTargets, DayLength, Installed, Horizon, MaxRecords, MaxHistory, MaxRunTroubles} \subseteq Nat
    /\ DayLength > 0 /\ AllowedTargets \subseteq Targets /\ Began \in [Targets -> Nat]

VARIABLES
    records,   \* the stored connections: [target, last, live], live: origin ingest
    time,
    traffic,   \* the traffic watermark
    judgedTo,  \* the detection run's watermark
    passes,       \* job["live"], job["late"]: the run in progress, with what it read
    backfill,  \* the backfill job: [step, day, rows], rows stored by this re-read
    reread,    \* the last day re-read to its end
    owed,      \* the days whose late pass is owed
    table,     \* the stored detections of the source
    judged,    \* records that a successful run judged
    made,      \* every detection a successful run found
    escaped,   \* records no run will judge, with why in the action that says so
    runTroubles

detectionVars == <<records, time, traffic, judgedTo, passes, backfill, reread, owed, table, judged, made, escaped, runTroubles>>
runVars == <<judgedTo, passes, table, judged, made>>

DayStart(d) == d * DayLength
DayWindow(d) == [lo |-> DayStart(d), hi |-> DayStart(d + 1)]
DayRecords(d) == {r \in records : r.last \in DayStart(d) .. DayStart(d + 1)}

-----------------------------------------------------------------------------
(* The fan-out detector.                                                   *)

Evaluable(r, w) == r.live /\ w.lo < r.last /\ r.last <= w.hi

\* The rows in the order of their last sighting, as the detector sorts them.
Sorted(read) == SetToSortSeq(read, LAMBDA a, b : a.last < b.last)

\* Mutation of Slide: a row that has just left the window stays in it.
SlideLate(s, j, i) == Min({k \in j .. i : s[k].last >= s[i].last - FanoutWindow - 1})
\* The left edge of the window that ends at row i, from that of the row before.
Slide(s, j, i) == Min({k \in j .. i : s[k].last >= s[i].last - FanoutWindow})

\* The window of at most FanoutWindow, ending at a row of the run's window, that holds the most targets.
MaxWindow(s, w) ==
    LET Step(acc, i) ==
            LET j == Slide(s, acc.j, i)
                n == Cardinality({s[k].target : k \in j .. i})
            IN [j |-> j, best |-> IF Evaluable(s[i], w) /\ n > acc.best.n THEN [n |-> n, from |-> j, to |-> i] ELSE acc.best]
    IN FoldLeft(Step, [j |-> 1, best |-> [n |-> 0, from |-> 1, to |-> 0]], [i \in 1 .. Len(s) |-> i]).best

\* detect_fanout: at most one detection of a source in a run; severity 2 is high, 1 medium.
Fanout(read, w) ==
    LET s == Sorted({r \in read : r.live})
        best == MaxWindow(s, w)
        inside == {s[k] : k \in best.from .. best.to}
        latest == s[best.to].last
    IN IF best.n < FanoutTargets THEN {}
       ELSE {[first |-> Max({Min({r.last - Began[r.target] : r \in inside}), latest - FanoutWindow}), last |-> latest,
              severity |-> IF \E r \in inside : r.target \in AllowedTargets THEN 2 ELSE 1, targets |-> best.n]}

-----------------------------------------------------------------------------
(* store/flowdb/analysis.py: upsert_detections, with the fan-out window as *)
(* the time within which a repeat extends a row.                           *)

Distance(row, d) == Max({0, d.first - row.last, row.first - d.last})
Near(d) == {row \in table : row.last >= d.first - FanoutWindow /\ row.first <= d.last + FanoutWindow}
Nearest(d) ==
    CHOOSE row \in Near(d) : \A other \in Near(d) \ {row} :
        \/ Distance(row, d) < Distance(other, d)
        \/ Distance(row, d) = Distance(other, d) /\ row.id > other.id
\* Mutation of Extended: the newer detection takes the row over.
ExtendedByLast(row, d, late) == [row EXCEPT !.last = d.last, !.first = Min({row.first, d.first}),
                                            !.severity = Max({row.severity, d.severity}), !.evidence = d.last]
Extended(row, d, late) ==
    [row EXCEPT !.first = Min({row.first, d.first}), !.last = Max({row.last, d.last}),
                !.severity = Max({row.severity, d.severity}),
                !.evidence = IF d.last >= row.last THEN d.last ELSE row.evidence]
UpsertDetections(found, late) ==
    IF found = {} THEN table
    ELSE LET d == CHOOSE x \in found : TRUE
         IN IF Near(d) = {}
            THEN table \cup {[id |-> Cardinality(table) + 1, first |-> d.first, last |-> d.last,
                              severity |-> d.severity, evidence |-> d.last, late |-> late]}
            ELSE (table \ {Nearest(d)}) \cup {Extended(Nearest(d), d, late)}

-----------------------------------------------------------------------------
(* services/analysis/detect.py: run_detection.                             *)

\* Mutation of LiveWindow: the overlap of the collector is not judged again.
LiveWindowBare == [lo |-> IF judgedTo # Never THEN judgedTo ELSE traffic - FanoutWindow - Overlap, hi |-> traffic]
LiveWindow == [lo |-> (IF judgedTo # Never THEN judgedTo ELSE traffic - FanoutWindow) - Overlap, hi |-> traffic]

\* What the run reads: its window and the lookback before it.
ReadFor(w) == {r \in records : r.last >= w.lo - FanoutWindow /\ r.last - Began[r.target] <= w.hi}

LiveBegin ==
    /\ passes["live"] = Never /\ traffic # Never /\ (judgedTo # Never => traffic > judgedTo)
    /\ passes' = [passes EXCEPT !["live"] = [w |-> LiveWindow, rows |-> ReadFor(LiveWindow)]]
    \* The first run of all looks back one window: what is older is not judged.
    /\ escaped' = IF judgedTo = Never THEN escaped \cup {r \in records : r.last <= LiveWindow.lo} ELSE escaped
    /\ UNCHANGED <<records, time, traffic, judgedTo, backfill, reread, owed, table, judged, made, runTroubles>>

\* The detections and the run's watermark, in one write.
Settle(which) ==
    LET run == passes[which]
        found == Fanout(run.rows, run.w)
    IN /\ table' = UpsertDetections(found, which = "late")
       /\ made' = made \cup found
       /\ judged' = judged \cup {r \in run.rows : Evaluable(r, run.w)}
       /\ judgedTo' = IF which = "live" THEN run.w.hi ELSE judgedTo
       /\ passes' = [passes EXCEPT ![which] = Never]

LiveEnd ==
    /\ passes["live"] # Never /\ Settle("live")
    /\ UNCHANGED <<records, time, traffic, backfill, reread, owed, escaped, runTroubles>>

-----------------------------------------------------------------------------
(* jobs/scheduler.py: the traffic job and the backfill job.                *)

\* A live cycle reads from its watermark less the overlap; the run that follows leaves out its very first instant.
TrafficCycle ==
    /\ passes["live"] = Never /\ traffic # time
    /\ traffic' = time
    /\ LET start == IF traffic = Never THEN 0 ELSE Max({traffic - Overlap, 0})
       IN \/ UNCHANGED <<records, escaped>>
          \/ /\ Cardinality(records) < MaxRecords
             /\ \E t \in Targets, l \in start .. time :
                   LET r == [target |-> t, last |-> l, live |-> TRUE]
                   IN /\ records' = records \cup {r}
                      /\ escaped' = IF l = start /\ r \notin records THEN escaped \cup {r} ELSE escaped
    /\ UNCHANGED <<time, runVars, backfill, reread, owed, runTroubles>>

\* A backfill stores history, which is context and never judged.
StoreHistory ==
    /\ Cardinality(records) < MaxRecords /\ Cardinality({r \in records : ~r.live}) < MaxHistory
    /\ \E t \in Targets, l \in 0 .. time :
          /\ [target |-> t, last |-> l, live |-> TRUE] \notin records
          /\ records' = records \cup {[target |-> t, last |-> l, live |-> FALSE]}
    /\ UNCHANGED <<time, traffic, runVars, backfill, reread, owed, escaped, runTroubles>>

Idle == [step |-> "idle", day |-> -1, rows |-> 0]

\* ensure_daily_reread: the last whole day, if it was not re-read yet.
RereadBegin ==
    /\ backfill.step = "idle"
    /\ LET day == (time \div DayLength) - 1
       IN /\ day >= 0 /\ day > reread /\ traffic # Never /\ traffic > DayStart(day)
          /\ backfill' = [step |-> "reading", day |-> day, rows |-> 0]
    /\ UNCHANGED <<records, time, traffic, runVars, reread, owed, escaped, runTroubles>>

\* _read_day: a record that reached the PCE late is live data.  The late pass leaves out midnight itself.
RereadStores ==
    /\ backfill.step = "reading" /\ backfill.rows = 0 /\ Cardinality(records) < MaxRecords
    /\ \E t \in Targets, l \in DayStart(backfill.day) .. DayStart(backfill.day + 1) :
          LET r == [target |-> t, last |-> l, live |-> TRUE]
          IN /\ r \notin records /\ [r EXCEPT !.live = FALSE] \notin records /\ records' = records \cup {r}
             /\ escaped' = IF l = DayStart(backfill.day) THEN escaped \cup {r} ELSE escaped
    /\ backfill' = [backfill EXCEPT !.rows = 1]
    /\ UNCHANGED <<time, traffic, runVars, reread, owed, runTroubles>>

RereadEnds ==
    /\ backfill.step = "reading"
    /\ backfill' = [backfill EXCEPT !.step = "noting"] /\ reread' = backfill.day
    /\ UNCHANGED <<records, time, traffic, runVars, owed, escaped, runTroubles>>

\* The PCE fails while the day is read: the re-read returns what it stored, and goes on another time.
RereadFails ==
    /\ backfill.step = "reading" /\ runTroubles < MaxRunTroubles /\ runTroubles' = runTroubles + 1
    /\ backfill' = [backfill EXCEPT !.step = "noting"]
    /\ UNCHANGED <<records, time, traffic, runVars, reread, owed, escaped>>

\* Mutation of QueueLateDay: only a re-read that ended has its day judged.
QueueLateDayOfFinished ==
    /\ backfill.step = "noting"
    /\ owed' = IF backfill.rows > 0 /\ reread = backfill.day THEN owed \cup {backfill.day} ELSE owed
    /\ backfill' = [backfill EXCEPT !.step = "late"]
    /\ UNCHANGED <<records, time, traffic, runVars, reread, escaped, runTroubles>>
QueueLateDay ==
    /\ backfill.step = "noting"
    /\ owed' = IF backfill.rows > 0 THEN owed \cup {backfill.day} ELSE owed
    /\ backfill' = [backfill EXCEPT !.step = "late"]
    /\ UNCHANGED <<records, time, traffic, runVars, reread, escaped, runTroubles>>

LateBegin ==
    /\ backfill.step = "late" /\ owed # {} /\ passes["late"] = Never
    /\ LET w == DayWindow(Min(owed))
       IN passes' = [passes EXCEPT !["late"] = [w |-> w, rows |-> ReadFor(w)]]
    /\ UNCHANGED <<records, time, traffic, judgedTo, backfill, reread, owed, table, judged, made, escaped, runTroubles>>

LateEnd ==
    /\ passes["late"] # Never /\ Settle("late")
    /\ backfill' = [backfill EXCEPT !.step = "clearing"]
    /\ UNCHANGED <<records, time, traffic, reread, owed, escaped, runTroubles>>

ClearLateDay ==
    /\ backfill.step = "clearing"
    /\ owed' = owed \ {Min(owed)} /\ backfill' = [backfill EXCEPT !.step = "late"]
    /\ UNCHANGED <<records, time, traffic, runVars, reread, escaped, runTroubles>>

BackfillDone ==
    /\ backfill.step = "late" /\ owed = {} /\ backfill' = Idle
    /\ UNCHANGED <<records, time, traffic, runVars, reread, owed, escaped, runTroubles>>

\* Mutation of RunFails: a failed live run counts its window as judged.
RunFailsForward(which) ==
    /\ passes[which] # Never /\ runTroubles < MaxRunTroubles /\ runTroubles' = runTroubles + 1
    /\ passes' = [passes EXCEPT ![which] = Never]
    /\ judgedTo' = IF which = "live" THEN passes[which].w.hi ELSE judgedTo
    /\ backfill' = IF which = "late" THEN Idle ELSE backfill
    /\ UNCHANGED <<records, time, traffic, reread, owed, table, judged, made, escaped>>
\* A run raises: the watermark stays, and the backfill job ends with the day still owed.
RunFails(which) ==
    /\ passes[which] # Never /\ runTroubles < MaxRunTroubles /\ runTroubles' = runTroubles + 1
    /\ passes' = [passes EXCEPT ![which] = Never]
    /\ backfill' = IF which = "late" THEN Idle ELSE backfill
    /\ UNCHANGED <<records, time, traffic, judgedTo, reread, owed, table, judged, made, escaped>>

\* What the re-read stored is forgotten when nothing notes the day: nobody judges it late.
Forgotten == IF backfill.step \in {"reading", "noting"} THEN DayRecords(backfill.day) \ judged ELSE {}

\* A write of the re-read raises, or the service stops, between two steps.
BreaksOff ==
    /\ runTroubles < MaxRunTroubles /\ runTroubles' = runTroubles + 1
    /\ \/ backfill.step = "reading" /\ UNCHANGED passes
       \/ passes' = [j \in {"live", "late"} |-> Never]
    /\ backfill' = Idle /\ escaped' = escaped \cup Forgotten
    /\ UNCHANGED <<records, time, traffic, judgedTo, reread, owed, table, judged, made>>

Passes == time < Horizon /\ time' = time + 1
          /\ UNCHANGED <<records, traffic, runVars, backfill, reread, owed, escaped, runTroubles>>

DetectionInit ==
    /\ records = {} /\ time = Installed /\ traffic = Never /\ judgedTo = Never
    /\ passes = [j \in {"live", "late"} |-> Never] /\ backfill = Idle /\ reread = -1 /\ owed = {}
    /\ table = {} /\ judged = {} /\ made = {} /\ escaped = {} /\ runTroubles = 0

DetectionNext ==
    \/ TrafficCycle \/ LiveBegin \/ LiveEnd \/ StoreHistory
    \/ RereadBegin \/ RereadStores \/ RereadEnds \/ RereadFails \/ QueueLateDay
    \/ LateBegin \/ LateEnd \/ ClearLateDay \/ BackfillDone
    \/ RunFails("live") \/ RunFails("late") \/ BreaksOff \/ Passes

-----------------------------------------------------------------------------
\* Every record collected live, late or not, has been judged by a successful run or a run is due that will
\* judge it: the next live run's window holds it, or its day is owed a late pass, or the backfill job is about
\* to note that.  Runs that fail, re-reads that the PCE fails and cycles that go on meanwhile lose nothing.
UnjudgedIsDue ==
    \A r \in records : r.live /\ r \notin judged \cup escaped =>
        \/ judgedTo = Never \/ r.last > judgedTo - Overlap
        \/ \E d \in owed : r \in DayRecords(d) /\ r.last > DayStart(d)
        \/ backfill.step \in {"reading", "noting"} /\ backfill.rows > 0 /\ r \in DayRecords(backfill.day)

\* Whatever order live and late runs store in, a detection stays within a stored one of at least its severity,
\* whose evidence is that of its newest part (a late pass reaching back does not replace it).
FoundIsKept ==
    /\ \A d \in made : \E row \in table : row.first <= d.first /\ d.last <= row.last /\ d.severity <= row.severity
    /\ \A row \in table : row.evidence = row.last

\* The sliding window finds what its definition asks: a source is reported exactly if some window that ends at
\* a record of the run holds enough targets, with the most any such window holds; history adds nothing.
FanoutIsRight ==
    \A which \in {"live", "late"} : passes[which] # Never =>
        LET run == passes[which]
            ends == {r \in run.rows : Evaluable(r, run.w)}
            CountAt(r) == Cardinality({x.target : x \in {y \in run.rows : y.live /\ y.last \in r.last - FanoutWindow .. r.last}})
            most == Max({0} \cup {CountAt(r) : r \in ends})
        IN {d.targets : d \in Fanout(run.rows, run.w)} = IF most >= FanoutTargets THEN {most} ELSE {}

\* Every record is judged once in time, nothing found is lost, and fan-out is what it says it is (detect.run, scheduler).
DetectionIsComplete == UnjudgedIsDue /\ FoundIsKept /\ FanoutIsRight
=============================================================================
