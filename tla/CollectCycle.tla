---------------------------- MODULE CollectCycle ----------------------------
(***************************************************************************)
(* What the collectors claim to have read: the traffic and events cycles   *)
(* with their watermarks and cold starts, the initial and hand-started     *)
(* backfills, the daily re-read, and the coverage and gaps they record,    *)
(* with failed PCE queries, mode changes and stops.                        *)
(*                                                                         *)
(* Time is counted in slots: slot t is [t, t + 1).  A range of coverage is *)
(* the set of its slots (ranges that touch are joined in the code too).    *)
(* PCE switches, which empty all of this, are in FlowStore; what is stored *)
(* is abstracted to the slots read and to one record that reaches          *)
(* the PCE late.  A fetch and the write of its rows are one step: between  *)
(* the two no other job changes what the write changes.                    *)
(***************************************************************************)
EXTENDS Integers

CONSTANTS
    DayLen,        \* slots of a UTC day
    Slice,         \* SLICE: the most one traffic query reads
    Overlap,       \* OVERLAP: what a cycle reads again
    Cold,          \* COLD_START
    BackfillLen,   \* settings.collection.backfill_days
    FlowLen,       \* settings.collection.retention.flow_days
    RereadFrom,    \* REREAD_LOCAL_HOUR (the display time zone is UTC here)
    Settle,        \* SETTLE
    MaxAttempts,   \* MAX_ATTEMPTS
    Now0,          \* the first start of the service
    Mode0,         \* the collection mode chosen then
    MaxNow,        \* bound: the clock
    ManualDays,    \* the days an operator may ask a backfill for
    MaxTroubles,   \* bound: failed queries, hand-started backfills, mode changes and stops
    LateAt,        \* the slot of a traffic record that reaches the PCE late
    LateSeen       \* the slot in which it does: queries after it see the record

Sources == {"traffic", "events"}
Modes == {"full", "alert", "lightweight"}

ASSUME CollectCycleAssumption ==
    /\ DayLen \in Nat \ {0} /\ Slice \in Nat \ {0} /\ Overlap \in Nat \ {0} /\ Cold \in Nat \ {0}
    /\ BackfillLen \in Nat \ {0} /\ FlowLen \in Nat /\ RereadFrom \in Nat /\ Settle \in Nat
    /\ MaxAttempts \in Nat \ {0} /\ Mode0 \in Modes /\ Now0 \in Nat /\ MaxNow \in Nat /\ LateAt \in Nat /\ LateSeen \in Nat
    /\ ManualDays \subseteq Nat /\ MaxTroubles \in Nat
    /\ Overlap <= Slice                        \* 5 minutes, an hour
    /\ Cold + BackfillLen + Overlap <= Now0    \* slot 0 lies before anything the service reads

None == -1         \* no watermark, no bound: slots are never negative

VARIABLES
    now,        \* the clock
    mode,       \* settings.collection.mode
    watermark,  \* per source: ingest_state.watermark
    cold,       \* per source: the remembered cold-start bound (COLD_START_KEY)
    cover,      \* per source: ingest_coverage
    gaps,       \* per source: open failed windows <<from, to>> of ingest_gaps
    cycle,      \* per source: the running cycle
    plans,      \* the backfill source's progress: the initial and the manual plan
    done,       \* its initial_done
    reread,     \* its re-read plan
    long,       \* the holder of BACKFILL_LOCK: a backfill or a re-read
    bound,      \* (history) per source: where its first cycle began
    read,       \* (history) per source: slots asked for by queries that answered
    failed,     \* (history) per source: slots of windows that failed
    found,      \* (history) the late record is stored
    troubles    \* (bound) how often something out of the ordinary happened

state == <<watermark, cold, cover, gaps>>
progress == <<plans, done, reread>>
history == <<bound, read, failed, found>>
vars == <<now, mode, state, cycle, progress, long, history, troubles>>

Smaller(a, b) == IF a < b THEN a ELSE b
Larger(a, b) == IF a < b THEN b ELSE a
Least(S) == CHOOSE x \in S : \A y \in S : x <= y

Span(a, b) == a .. (b - 1)
Day(t) == t \div DayLen
Midnight(t) == Day(t) * DayLen

\* collects(settings, s), and what an initial or a hand-started backfill reads.
Collects(s) == s = "traffic" => mode # "lightweight"
InitialSources == IF mode = "full" THEN Sources ELSE {"events"}
ManualSources == IF mode = "lightweight" THEN {"events"} ELSE Sources

IdleCycle == [step |-> "idle", pos |-> 0, from |-> 0, at |-> 0]
IdleLong == [step |-> "idle", plan |-> "manual", reads |-> {}, from |-> 0, pos |-> 0, end |-> 0,
             begins |-> [s \in Sources |-> 0]]
NoPlan == [start |-> None, end |-> None, through |-> None, finished |-> FALSE, sources |-> {}]
NoReread == [day |-> None, date |-> None, through |-> None, finished |-> FALSE, attempts |-> 0, sources |-> {}]

\* A new installation: nothing collected yet.
Init ==
    /\ now = Now0 /\ mode = Mode0
    /\ watermark = [s \in Sources |-> None] /\ cold = [s \in Sources |-> None]
    /\ cover = [s \in Sources |-> {}] /\ gaps = [s \in Sources |-> {}]
    /\ cycle = [s \in Sources |-> IdleCycle]
    /\ plans = [initial |-> NoPlan, manual |-> NoPlan] /\ done = {} /\ reread = NoReread
    /\ long = IdleLong
    /\ bound = [s \in Sources |-> None]
    /\ read = [s \in Sources |-> {}] /\ failed = [s \in Sources |-> {}]
    /\ found = FALSE
    /\ troubles = 0

Trouble == troubles < MaxTroubles /\ troubles' = troubles + 1

-----------------------------------------------------------------------------
(* What every read does to the store.                                      *)

\* add_coverage for what each source claims.
AddCoverage(claims) == cover' = [s \in Sources |-> cover[s] \cup claims[s]]

\* Mutation of StillOpen: a window is done with as soon as any part of it is covered.
StillOpenIfUntouched(s, g) == Span(g[1], g[2]) \cap cover'[s] = {}

\* A failed window that the coverage does not hold completely yet (resolve_covered_gaps).
StillOpen(s, g) == ~(Span(g[1], g[2]) \subseteq cover'[s])

ResolveCoveredGaps(S) ==
    gaps' = [s \in Sources |-> IF s \in S THEN {g \in gaps[s] : StillOpen(s, g)} ELSE gaps[s]]

RecordGap(S, a, b) == gaps' = [s \in Sources |-> IF s \in S THEN gaps[s] \cup {<<a, b>>} ELSE gaps[s]]

\* The PCE answers: these slots were read (harvest splits a window the PCE cuts at its limit; what
\* is still cut at the smallest window is recorded as truncated, which changes nothing else).
Answer(slots) ==
    /\ read' = [s \in Sources |-> read[s] \cup slots[s]]
    /\ found' = (found \/ (LateSeen < now /\ LateAt \in slots["traffic"]))

Only(s, S) == [q \in Sources |-> IF q = s THEN S ELSE {}]

-----------------------------------------------------------------------------
(* run_traffic_cycle, run_events_cycle.                                    *)

\* Mutation of CycleBegin: the bound of a first cycle that failed is not remembered.
CycleBeginSliding(s) ==
    /\ cycle[s].step = "idle" /\ Collects(s) /\ watermark[s] < now
    /\ LET start == IF watermark[s] # None THEN watermark[s] - Overlap ELSE now - Cold
       IN /\ cycle' = [cycle EXCEPT ![s] = [step |-> "read", pos |-> start, from |-> start, at |-> now]]
          /\ cold' = IF watermark[s] # None THEN cold ELSE [cold EXCEPT ![s] = start]
          /\ bound' = IF bound[s] = None THEN [bound EXCEPT ![s] = start] ELSE bound
    /\ UNCHANGED <<now, mode, watermark, cover, gaps, progress, long, read, failed, found, troubles>>

\* begin: from the watermark less the overlap, or from the first cold-start bound, remembered
\* until a cycle succeeds.  Jobs run on their intervals: not again in the slot they have read to.
CycleBegin(s) ==
    /\ cycle[s].step = "idle" /\ Collects(s) /\ watermark[s] < now
    /\ LET start == IF watermark[s] # None THEN watermark[s] - Overlap
                    ELSE IF cold[s] # None THEN cold[s] ELSE now - Cold
       IN /\ cycle' = [cycle EXCEPT ![s] = [step |-> "read", pos |-> start, from |-> start, at |-> now]]
          /\ cold' = IF watermark[s] # None THEN cold ELSE [cold EXCEPT ![s] = start]
          /\ bound' = IF bound[s] = None THEN [bound EXCEPT ![s] = start] ELSE bound
    /\ UNCHANGED <<now, mode, watermark, cover, gaps, progress, long, read, failed, found, troubles>>

\* The end of the next piece: traffic is read a slice at a time, events in one query.
PieceEnd(s) == IF s = "traffic" THEN Smaller(cycle[s].pos + Slice, cycle[s].at) ELSE cycle[s].at

\* A piece is read and written: records, gaps, coverage and the watermark move together.
CycleRead(s) ==
    /\ cycle[s].step = "read"
    /\ LET c == cycle[s]  b == PieceEnd(s)  slots == Only(s, Span(c.pos, b)) IN
       /\ Answer(slots)
       /\ AddCoverage(slots)
       /\ IF s = "traffic" THEN ResolveCoveredGaps({s})
          ELSE gaps' = [gaps EXCEPT ![s] = {g \in gaps[s] : ~(c.from <= g[1] /\ g[2] <= c.at)}]
       /\ watermark' = [watermark EXCEPT ![s] = b]
       /\ cold' = [cold EXCEPT ![s] = None]
       /\ cycle' = [cycle EXCEPT ![s] = IF b = c.at THEN IdleCycle ELSE [c EXCEPT !.pos = b]]
    /\ UNCHANGED <<now, mode, progress, long, bound, failed, troubles>>

\* fail: nothing from the piece on was read; the watermark stays.
CycleFail(s) ==
    /\ cycle[s].step = "read" /\ Trouble
    /\ RecordGap({s}, cycle[s].pos, cycle[s].at)
    /\ failed' = [failed EXCEPT ![s] = @ \cup Span(cycle[s].pos, cycle[s].at)]
    /\ cycle' = [cycle EXCEPT ![s] = IdleCycle]
    /\ UNCHANGED <<now, mode, watermark, cold, cover, progress, long, bound, read, found>>

-----------------------------------------------------------------------------
(* run_backfill.                                                           *)

\* The plan is taken up where it stopped if it is the same one, else written anew before the first
\* query; a day past the raw cutoff is read again from its midnight.
StartBackfill(plan, start, end, reads) ==
    LET mine == plans[plan]
        same == mine # NoPlan /\ ~mine.finished /\ mine.start = start /\ mine.end = end /\ mine.sources = reads
        from == IF same THEN mine.through ELSE start
        resume == IF Day(from) <= Day(now - FlowLen) THEN Larger(start, Midnight(from)) ELSE from
    IN /\ long.step = "idle"
       /\ plans' = IF same THEN plans
                   ELSE [plans EXCEPT ![plan] = [start |-> start, end |-> end, through |-> start,
                                                 finished |-> FALSE, sources |-> reads]]
       /\ long' = [IdleLong EXCEPT !.step = "backfill", !.plan = plan, !.reads = reads,
                                   !.from = resume, !.pos = resume, !.end = end]
       /\ UNCHANGED <<now, mode, state, cycle, done, reread, history>>

\* Where live collection of s began, or will begin.
LiveStart(s) == IF watermark[s] # None THEN watermark[s] ELSE cold[s]

\* ensure_initial_backfill: resume an unfinished plan with what the mode still backfills, or read
\* what no initial backfill has read yet, up to the earliest place where live collection began.
EnsureInitial ==
    /\ LET mine == plans.initial
           resumed == mine.sources \cap InitialSources
           missing == InitialSources \ done
           starts == {LiveStart(s) : s \in missing} \ {None}
           end == IF starts = {} THEN now ELSE Least(starts)
       IN IF mine # NoPlan /\ ~mine.finished
          THEN StartBackfill("initial", mine.start, mine.end, IF resumed = {} THEN InitialSources ELSE resumed)
          ELSE missing # {} /\ StartBackfill("initial", end - BackfillLen, end, missing)
    /\ UNCHANGED troubles

\* Mutation of StartManual: a day that has not come yet is taken.
StartManualAhead(first, last, reads) ==
    /\ Trouble
    /\ first <= last /\ first * DayLen >= Midnight(now - FlowLen)
    /\ reads \subseteq ManualSources
    /\ StartBackfill("manual", first * DayLen, Smaller((last + 1) * DayLen, now), reads)

\* The collection page: whole days up to now, not older than retention keeps.
StartManual(first, last, reads) ==
    /\ Trouble
    /\ first <= last /\ last <= Day(now) /\ first * DayLen >= Midnight(now - FlowLen)
    /\ reads \subseteq ManualSources
    /\ StartBackfill("manual", first * DayLen, Smaller((last + 1) * DayLen, now), reads)

\* The day being read and the end of its next piece: traffic a slice at a time, the day's events
\* in one query with the first.
DayEnd == Smaller(Midnight(long.from) + DayLen, long.end)
PartEnd == IF "traffic" \in long.reads THEN Smaller(long.pos + Slice, DayEnd) ELSE DayEnd
First == long.pos = long.from
PartReads == IF First THEN long.reads ELSE {"traffic"}

\* Mutation of DayClaims: a day taken up in its middle is claimed from its midnight.
DayClaimsWhole == [s \in Sources |-> IF s \notin PartReads THEN {}
                                     ELSE Span(Midnight(long.from), IF s = "traffic" THEN PartEnd ELSE DayEnd)]

\* What a piece claims: from where this run began the day to where each source is read.
DayClaims == [s \in Sources |-> IF s \notin PartReads THEN {}
                                ELSE Span(long.from, IF s = "traffic" THEN PartEnd ELSE DayEnd)]

\* One piece lands completely or not at all.
BackfillRead ==
    /\ long.step = "backfill" /\ long.pos < long.end
    /\ Answer([s \in Sources |-> IF s \notin PartReads THEN {}
                                 ELSE IF s = "traffic" THEN Span(long.pos, PartEnd) ELSE Span(long.from, DayEnd)])
    /\ AddCoverage(DayClaims)
    /\ ResolveCoveredGaps(PartReads)
    /\ plans' = [plans EXCEPT ![long.plan].through = PartEnd]
    /\ long' = [long EXCEPT !.pos = PartEnd, !.from = IF PartEnd = DayEnd THEN DayEnd ELSE long.from]
    /\ UNCHANGED <<now, mode, watermark, cold, cycle, done, reread, bound, failed, troubles>>

\* Mutation of BackfillFail: the progress goes past the day that failed.
BackfillFailSkips ==
    /\ long.step = "backfill" /\ long.pos < long.end /\ Trouble
    /\ RecordGap(PartReads, long.pos, DayEnd)
    /\ failed' = [s \in Sources |-> IF s \in PartReads THEN failed[s] \cup Span(long.pos, DayEnd) ELSE failed[s]]
    /\ plans' = [plans EXCEPT ![long.plan].through = DayEnd]
    /\ long' = IdleLong
    /\ UNCHANGED <<now, mode, watermark, cold, cover, cycle, done, reread, bound, read, found>>

\* _record_failure: the rest of the day, for every source the piece was to read.
BackfillFail ==
    /\ long.step = "backfill" /\ long.pos < long.end /\ Trouble
    /\ RecordGap(PartReads, long.pos, DayEnd)
    /\ failed' = [s \in Sources |-> IF s \in PartReads THEN failed[s] \cup Span(long.pos, DayEnd) ELSE failed[s]]
    /\ long' = IdleLong
    /\ UNCHANGED <<now, mode, watermark, cold, cover, cycle, progress, bound, read, found>>

BackfillFinish ==
    /\ long.step = "backfill" /\ long.pos >= long.end
    /\ plans' = [plans EXCEPT ![long.plan].through = long.end, ![long.plan].finished = TRUE]
    /\ done' = IF long.plan = "initial" THEN done \cup long.reads ELSE done
    /\ long' = IdleLong
    /\ UNCHANGED <<now, mode, state, cycle, reread, history, troubles>>

-----------------------------------------------------------------------------
(* ensure_daily_reread.                                                    *)

\* Mutation of Target: yesterday, whether or not it has settled.
TargetUnsettled == Midnight(now) - DayLen

\* The latest UTC day that ended at least Settle ago.
Target == Midnight(now - Settle) - DayLen

\* Once a day, in the night: the last settled day again, from where the coverage of each source
\* begins; a source added since the last attempt starts it over.
RereadBegin ==
    /\ long.step = "idle" /\ now % DayLen >= RereadFrom
    /\ plans.initial = NoPlan \/ plans.initial.finished
    /\ LET tonight == reread.date = Day(now)
           start == IF tonight THEN reread.day ELSE Target
           end == start + DayLen
           sources == {s \in Sources : Collects(s) /\ cover[s] \cap Span(start, end) # {}}
           begins == [s \in Sources |-> IF s \in sources THEN Larger(start, Least(cover[s])) ELSE end]
           mine == IF tonight /\ reread.sources = sources THEN reread
                   ELSE [day |-> start, date |-> Day(now), through |-> start, finished |-> FALSE,
                         attempts |-> IF tonight THEN reread.attempts ELSE 0, sources |-> sources]
       IN /\ tonight => ~reread.finished /\ reread.attempts < MaxAttempts
          /\ sources # {}
          /\ reread' = mine
          /\ long' = [IdleLong EXCEPT !.step = "reread", !.reads = sources, !.begins = begins, !.end = end,
                                      !.pos = Larger(mine.through, Least({begins[s] : s \in sources}))]
    /\ UNCHANGED <<now, mode, state, cycle, plans, done, history, troubles>>

\* The slots of the next slice, per source from where it begins.
SliceEnd == Smaller(long.pos + Slice, long.end)
SliceSlots == [s \in Sources |-> IF s \in long.reads THEN Span(Larger(long.pos, long.begins[s]), SliceEnd) ELSE {}]

RereadRead ==
    /\ long.step = "reread" /\ long.pos < long.end
    /\ Answer(SliceSlots)
    /\ AddCoverage(SliceSlots)
    /\ ResolveCoveredGaps({s \in long.reads : long.begins[s] < SliceEnd})
    /\ reread' = [reread EXCEPT !.through = SliceEnd]
    /\ long' = [long EXCEPT !.pos = SliceEnd]
    /\ UNCHANGED <<now, mode, watermark, cold, cycle, plans, done, bound, failed, troubles>>

\* It never records a gap: these windows were collected.
RereadFail ==
    /\ long.step = "reread" /\ long.pos < long.end /\ Trouble
    /\ reread' = [reread EXCEPT !.attempts = @ + 1]
    /\ long' = IdleLong
    /\ UNCHANGED <<now, mode, state, cycle, plans, done, history>>

RereadFinish ==
    /\ long.step = "reread" /\ long.pos >= long.end
    /\ reread' = [reread EXCEPT !.finished = TRUE]
    /\ long' = IdleLong
    /\ UNCHANGED <<now, mode, state, cycle, plans, done, history, troubles>>

-----------------------------------------------------------------------------
(* Around the jobs.                                                        *)

Tick ==
    /\ now < MaxNow /\ now' = now + 1
    /\ UNCHANGED <<mode, state, cycle, progress, long, history, troubles>>

ChangeMode(m) ==
    /\ Trouble /\ m # mode
    /\ mode' = m
    /\ UNCHANGED <<now, state, cycle, progress, long, history>>

Crash ==
    /\ Trouble
    /\ cycle' = [s \in Sources |-> IdleCycle] /\ long' = IdleLong
    /\ UNCHANGED <<now, mode, state, progress, history>>

Cycle(s) == CycleBegin(s) \/ CycleRead(s) \/ CycleFail(s)

Backfill == EnsureInitial \/ BackfillRead \/ BackfillFail \/ BackfillFinish

Reread == RereadBegin \/ RereadRead \/ RereadFail \/ RereadFinish

Next ==
    \/ \E s \in Sources : Cycle(s)
    \/ Backfill \/ Reread
    \/ \E first, last \in ManualDays, reads \in (SUBSET Sources) \ {{}} : StartManual(first, last, reads)
    \/ Tick \/ Crash
    \/ \E m \in Modes : ChangeMode(m)

Spec == Init /\ [][Next]_vars

-----------------------------------------------------------------------------
(* What makes it correct.                                                  *)

Plans == [start : Nat, end : Nat, through : Nat, finished : BOOLEAN, sources : (SUBSET Sources) \ {{}}]

\* The types; a range to read is never upside down, a cycle has something left to read and never
\* reads ahead of the clock, and a re-read is not tried more than MaxAttempts times a night.
TypeOK ==
    /\ now \in Nat /\ mode \in Modes
    /\ watermark \in [Sources -> Nat \cup {None}] /\ cold \in [Sources -> Nat \cup {None}]
    /\ cover \in [Sources -> SUBSET Nat] /\ gaps \in [Sources -> SUBSET (Nat \X Nat)]
    /\ cycle \in [Sources -> [step : {"idle", "read"}, pos : Nat, from : Nat, at : Nat]]
    /\ done \subseteq Sources
    /\ plans \in [{"initial", "manual"} -> Plans \cup {NoPlan}]
    /\ \A p \in {"initial", "manual"} : plans[p].start <= plans[p].end
    /\ reread \in [day : Int, date : Int, through : Int, finished : BOOLEAN, attempts : 0 .. MaxAttempts,
                    sources : SUBSET Sources]
    /\ long \in [step : {"idle", "backfill", "reread"}, plan : {"initial", "manual"}, reads : SUBSET Sources,
                  from : Nat, pos : Nat, end : Nat, begins : [Sources -> Int]]
    /\ \A s \in Sources : cycle[s].step = "read" => cycle[s].pos < cycle[s].at /\ cycle[s].at <= now
    /\ bound \in [Sources -> Nat \cup {None}]
    /\ read \in [Sources -> SUBSET Nat] /\ failed \in [Sources -> SUBSET Nat]

\* Coverage says what was read: every slot of ingest_coverage was asked for by a query that
\* answered and whose rows were stored.
CoverageIsRead == \A s \in Sources : cover[s] \subseteq read[s]

\* A watermark leaves nothing behind: from where the first cycle of the source began, everything
\* before the watermark is covered, however often cycles failed, were cut short or started over.
WatermarkLeavesNothing ==
    \A s \in Sources : watermark[s] # None => Span(bound[s], watermark[s]) \subseteq cover[s]

\* What a failed window left unread is in an open gap until later reads have covered it.
UnreadHasGap ==
    \A s \in Sources : failed[s] \subseteq cover[s] \cup UNION {Span(g[1], g[2]) : g \in gaps[s]}

\* A source that counts as backfilled was read over the whole range of the plan that says so: a
\* hand-started backfill, a mode change or a stop never makes an unfinished initial one look done.
BackfilledIsRead ==
    \A s \in done \cap plans.initial.sources :
        plans.initial.finished => Span(plans.initial.start, plans.initial.end) \subseteq cover[s]

\* Plans and progress are in order: their types hold, and what counts as backfilled was read (run_backfill,
\* ensure_initial_backfill).
PlansAreInOrder == TypeOK /\ BackfilledIsRead

\* "Every record of the day had at least this long to reach the PCE": a record that came within
\* Settle of the end of its day is stored once the re-read of that day has finished, if the store
\* claims its slot at all.
RereadFindsLate ==
    (/\ reread.finished /\ "traffic" \in reread.sources /\ LateAt \in Span(reread.day, reread.day + DayLen)
     /\ LateAt \in cover["traffic"]
     /\ LateSeen < reread.day + DayLen + Settle)
    => found
=============================================================================
