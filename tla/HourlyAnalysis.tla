--------------------------- MODULE HourlyAnalysis ---------------------------
(***************************************************************************)
(* The hourly analysis: its steps in order, each storing a result, and the *)
(* focus list last, made of what the others stored.  The PCE may be        *)
(* switched, a step may fail and the service may stop at any point.        *)
(*                                                                         *)
(* A switch empties the store, so the generation names the PCE whose data  *)
(* the store holds.  A result is when it was computed, from which PCEs'    *)
(* data, and whether it gives the focus list something to show.            *)
(***************************************************************************)
EXTENDS Integers, Sequences, FiniteSets

CONSTANTS
    MaxHour,      \* bound: hours
    MaxPces,      \* bound: switches of the PCE
    MaxSpoils,    \* bound: failed steps and stops
    StaleAfter,   \* STALE_AFTER, in hours
    TrafficEvery, \* TRAFFIC_EVERY
    Varying,      \* the kinds whose findings come and go
    KeepFocus     \* how long an item that is off the list is remembered

ASSUME HourlyAssumption == {MaxHour, MaxPces, MaxSpoils, StaleAfter, TrafficEvery, KeepFocus} \subseteq Nat

VARIABLES
    hour,         \* the clock
    storeOf,      \* the generation of the flow database
    analysis,     \* the run in progress
    results,      \* analysis_results: kind -> [at, from, has]
    failed,       \* analysis_runs: kinds whose last_error is set
    focusRows,    \* focus_items: fingerprint -> [first, last, active]
    focusList,        \* the stored focus list: [at, from, items: fingerprint -> first, status]
    remembered,   \* history: fingerprint -> [first, last] as the lists showed it
    reset,        \* history: an item's first appearance was forgotten too early
    latest,       \* history: kinds whose latest finished computation failed
    spoils        \* history: failed steps and stops

hourlyVars == <<hour, storeOf, analysis, results, failed, focusRows, focusList, remembered, reset, latest, spoils>>

\* HOURLY_STEPS; a step's result goes into the list under its own name (the blocked history's does not).
HourlySteps == <<"exposure", "ransomware", "tamper", "blocked_history", "focus">>
Sources == {"exposure", "ransomware", "tamper"}
NoneYet == [x \in {} |-> 0]
NoRun == [step |-> 0, pc |-> "idle", at |-> 0, gen |-> 0, inner |-> 0, from |-> {}, items |-> {}, status |-> NoneYet, on |-> FALSE]
NoList == [at |-> -1, from |-> {}, items |-> NoneYet, status |-> NoneYet]

HourlyInit ==
    /\ hour = 0 /\ storeOf = 1 /\ analysis = NoRun /\ results = NoneYet /\ failed = {}
    /\ focusRows = NoneYet /\ focusList = NoList /\ remembered = NoneYet /\ reset = FALSE /\ latest = {} /\ spoils = 0

Overlaid(f, g) == [x \in DOMAIN f \cup DOMAIN g |-> IF x \in DOMAIN f THEN f[x] ELSE g[x]]
Entry(k, v) == [x \in {k} |-> v]
Running(k) == analysis.step > 0 /\ HourlySteps[analysis.step] = k
Storing == <<results, failed, focusRows, focusList, remembered, reset, latest>>

-----------------------------------------------------------------------------
(* run_hourly_analysis                                                     *)

\* At some later hour: hours without a run are passed over.
HourlyRunBegins ==
    /\ analysis.pc = "idle" /\ \E h \in hour + 1 .. MaxHour : hour' = h /\ analysis' = [NoRun EXCEPT !.step = 1, !.pc = "note", !.at = h]
    /\ UNCHANGED <<storeOf, spoils, Storing>>
\* gen = fdb.generation, and set_run(started_at)
StepStarts ==
    /\ analysis.pc = "note" /\ analysis' = [analysis EXCEPT !.gen = storeOf, !.pc = "read"]
    /\ UNCHANGED <<hour, storeOf, spoils, Storing>>
\* StaleGeneration, at any write: the run stops.
StopsAsStale ==
    /\ analysis.pc \in {"write", "ok"}
    /\ storeOf # (IF analysis.pc = "write" THEN analysis.inner ELSE analysis.gen)
    /\ analysis' = NoRun /\ UNCHANGED <<hour, storeOf, spoils, Storing>>
\* An exception of the step is recorded, and the next step runs.
AfterStep == IF analysis.step = Len(HourlySteps) THEN NoRun ELSE [NoRun EXCEPT !.step = analysis.step + 1, !.pc = "note", !.at = analysis.at]
StepFails ==
    /\ analysis.pc \in {"read", "more"} /\ spoils < MaxSpoils /\ spoils' = spoils + 1
    /\ IF storeOf = analysis.gen
       THEN /\ failed' = failed \cup {HourlySteps[analysis.step]} /\ latest' = latest \cup {HourlySteps[analysis.step]} /\ analysis' = AfterStep
       ELSE analysis' = NoRun /\ UNCHANGED <<failed, latest>>
    /\ UNCHANGED <<hour, storeOf, results, focusRows, focusList, remembered, reset>>
\* set_run(ok_at): a success clears the last error.
StepOk ==
    /\ analysis.pc = "ok" /\ storeOf = analysis.gen /\ analysis' = AfterStep
    /\ failed' = failed \ {HourlySteps[analysis.step]} /\ latest' = latest \ {HourlySteps[analysis.step]}
    /\ UNCHANGED <<hour, storeOf, spoils, results, focusRows, focusList, remembered, reset>>

-----------------------------------------------------------------------------
(* The steps: the generation is noted before anything is read.  run_exposure*)
(* stores nothing when the settings say that traffic is not collected.     *)

\* Mutation of NotedFor: what is current when the reading ends.
NotedAtTheEnd(noted) == storeOf
NotedFor(noted) == noted
StepReads ==
    /\ analysis.pc = "read" /\ ~Running("focus")
    /\ \E collected \in (IF Running("exposure") THEN BOOLEAN ELSE {TRUE}) :
          analysis' = [analysis EXCEPT !.inner = storeOf, !.from = {storeOf}, !.on = collected, !.pc = IF collected THEN "more" ELSE "ok"]
    /\ UNCHANGED <<hour, storeOf, spoils, Storing>>
StepReadsMore ==
    /\ analysis.pc = "more" /\ ~Running("focus")
    /\ \E has \in (IF HourlySteps[analysis.step] \in Varying THEN BOOLEAN ELSE {TRUE}) :
          analysis' = [analysis EXCEPT !.from = @ \cup {storeOf}, !.inner = NotedFor(@), !.pc = "write",
                                       !.items = IF has THEN {HourlySteps[analysis.step]} ELSE {}]
    /\ UNCHANGED <<hour, storeOf, spoils, Storing>>
StepWrites ==
    /\ analysis.pc = "write" /\ ~Running("focus") /\ storeOf = analysis.inner
    /\ LET k == HourlySteps[analysis.step]
       IN results' = Overlaid(Entry(k, [at |-> analysis.at, from |-> analysis.from, has |-> analysis.items # {}]), results)
    /\ analysis' = [analysis EXCEPT !.pc = "ok"]
    /\ UNCHANGED <<hour, storeOf, spoils, failed, focusRows, focusList, remembered, reset, latest>>

-----------------------------------------------------------------------------
(* build_focus                                                             *)

\* Mutation of SourceStatus: by the result alone.
SourceStatusOfResult(k) == IF k \notin DOMAIN results THEN "missing" ELSE IF results[k].at < analysis.at - StaleAfter THEN "stale" ELSE "ok"
SourceStatus(k) ==
    IF k \in failed THEN "error"
    ELSE IF k \notin DOMAIN results THEN "missing"
    ELSE IF results[k].at < analysis.at - StaleAfter THEN "stale" ELSE "ok"
HasItem(k) == k \in DOMAIN results /\ results[k].has
FocusReads ==
    /\ analysis.pc = "read" /\ Running("focus")
    /\ \E collected \in BOOLEAN :
          analysis' = [analysis EXCEPT
             !.inner = storeOf, !.on = collected, !.pc = "more",
             !.from = {storeOf} \cup UNION {results[k].from : k \in DOMAIN results \cap Sources},
             !.items = IF collected THEN {k \in Sources : HasItem(k)} ELSE {k \in {"tamper"} : HasItem(k)} \cup {"lightweight"},
             !.status = [k \in Sources |-> SourceStatus(k)]]
    /\ UNCHANGED <<hour, storeOf, spoils, Storing>>
TrafficIsFresh == "traffic" \in DOMAIN results /\ results["traffic"].at > analysis.at - TrafficEvery
\* The traffic items come from a result kept for a day, or are read and stored; if that fails, there are none.
FocusTraffic ==
    /\ analysis.pc = "more" /\ Running("focus")
    /\ \/ /\ ~analysis.on /\ analysis' = [analysis EXCEPT !.pc = "write", !.inner = NotedFor(@)] /\ UNCHANGED <<results, spoils>>
       \/ /\ analysis.on /\ TrafficIsFresh
          /\ analysis' = [analysis EXCEPT !.pc = "write", !.inner = NotedFor(@), !.from = @ \cup results["traffic"].from, !.status = Overlaid(Entry("traffic", "ok"), @),
                                          !.items = @ \cup (IF results["traffic"].has THEN {"traffic"} ELSE {})]
          /\ UNCHANGED <<results, spoils>>
       \/ /\ analysis.on /\ ~TrafficIsFresh /\ storeOf = analysis.inner
          /\ \E has \in (IF "traffic" \in Varying THEN BOOLEAN ELSE {TRUE}) :
                /\ results' = Overlaid(Entry("traffic", [at |-> analysis.at, from |-> {storeOf}, has |-> has]), results)
                /\ analysis' = [analysis EXCEPT !.pc = "write", !.status = Overlaid(Entry("traffic", "ok"), @),
                                                !.items = @ \cup (IF has THEN {"traffic"} ELSE {})]
          /\ UNCHANGED spoils
       \/ /\ analysis.on /\ ~TrafficIsFresh /\ spoils < MaxSpoils /\ spoils' = spoils + 1
          /\ analysis' = [analysis EXCEPT !.pc = "write", !.status = Overlaid(Entry("traffic", "error"), @)] /\ UNCHANGED results
    /\ UNCHANGED <<hour, storeOf, failed, focusRows, focusList, remembered, reset, latest>>
\* A switch while the traffic was read: the write of it is refused.
FocusTrafficStale ==
    /\ analysis.pc = "more" /\ Running("focus") /\ analysis.on /\ ~TrafficIsFresh /\ storeOf # analysis.inner
    /\ analysis' = NoRun /\ UNCHANGED <<hour, storeOf, spoils, Storing>>

\* upsert_focus: first_seen is kept, also of an item that was inactive; every other item becomes inactive.
\* Mutation of FirstSeen: that of an item that was inactive is not.
FirstSeenOfActive(fp, at) == IF fp \in DOMAIN focusRows /\ focusRows[fp].active THEN focusRows[fp].first ELSE at
FirstSeen(fp, at) == IF fp \in DOMAIN focusRows THEN focusRows[fp].first ELSE at
UpsertFocus(items, at) ==
    [fp \in DOMAIN focusRows \cup items |->
        IF fp \in items THEN [first |-> FirstSeen(fp, at), last |-> at, active |-> TRUE] ELSE [focusRows[fp] EXCEPT !.active = FALSE]]
FocusWrites ==
    /\ analysis.pc = "write" /\ Running("focus") /\ storeOf = analysis.inner
    /\ LET at == analysis.at
           first == [fp \in analysis.items |-> FirstSeen(fp, at)]
       IN /\ focusRows' = UpsertFocus(analysis.items, at)
          /\ focusList' = [at |-> at, from |-> analysis.from, items |-> first, status |-> analysis.status]
          /\ remembered' = Overlaid([fp \in analysis.items |-> [first |-> first[fp], last |-> at]], remembered)
          /\ reset' = (reset \/ \E fp \in analysis.items \cap DOMAIN remembered :
                          remembered[fp].first # first[fp] /\ (fp \in DOMAIN focusList.items \/ hour - remembered[fp].last <= KeepFocus))
    /\ analysis' = [analysis EXCEPT !.pc = "ok"]
    /\ UNCHANGED <<hour, storeOf, spoils, results, failed, latest>>

-----------------------------------------------------------------------------
\* delete_expired: inactive items that were last seen too long ago.
\* Mutation of Expired: active or not.
ExpiredAnyway(fp) == focusRows[fp].last < hour - KeepFocus
Expired(fp) == ~focusRows[fp].active /\ focusRows[fp].last < hour - KeepFocus
DeleteExpired ==
    /\ \E fp \in DOMAIN focusRows : Expired(fp)
    /\ focusRows' = [fp \in {fp \in DOMAIN focusRows : ~Expired(fp)} |-> focusRows[fp]]
    /\ UNCHANGED <<hour, storeOf, analysis, results, failed, focusList, remembered, reset, latest, spoils>>
\* A reset of the store for another PCE: a new file.
SwitchStore ==
    /\ storeOf < MaxPces /\ storeOf' = storeOf + 1
    /\ results' = NoneYet /\ failed' = {} /\ focusRows' = NoneYet /\ focusList' = NoList /\ remembered' = NoneYet /\ latest' = {}
    /\ UNCHANGED <<hour, analysis, reset, spoils>>
ServiceStops ==
    /\ analysis.pc # "idle" /\ spoils < MaxSpoils /\ spoils' = spoils + 1 /\ analysis' = NoRun
    /\ UNCHANGED <<hour, storeOf, Storing>>

HourlyNext ==
    \/ HourlyRunBegins \/ StopsAsStale \/ StepStarts \/ StepFails \/ StepOk
    \/ StepReads \/ StepReadsMore \/ StepWrites \/ FocusReads \/ FocusTraffic \/ FocusTrafficStale \/ FocusWrites
    \/ DeleteExpired \/ SwitchStore \/ ServiceStops

-----------------------------------------------------------------------------
\* "nothing more is written for the previous PCE": everything stored, the list too, comes from this PCE's data.
AnalysisIsOfThisPce == (\A k \in DOMAIN results : results[k].from = {storeOf}) /\ focusList.from \subseteq {storeOf}
\* A source the list calls ok was computed lately, and its latest computation before the list did not fail.
ListSaysWhatFailed ==
    analysis.pc = "ok" /\ Running("focus") /\ storeOf = analysis.gen =>
       \A k \in Sources : focusList.status[k] = "ok" => k \notin latest /\ results[k].at >= focusList.at - StaleAfter
\* An item keeps the time it first appeared while it is on the list, and for a while after.
FocusIsSound == AnalysisIsOfThisPce /\ ListSaysWhatFailed /\ ~reset
=============================================================================
