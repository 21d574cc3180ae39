---------------------------- MODULE ReportQueue ----------------------------
(***************************************************************************)
(* Reports: rows in the app database, a directory of files per row id, the *)
(* job that makes the oldest queued one, the pages and the retention that  *)
(* remove them, and a switch of the PCE under all of these.                *)
(*                                                                         *)
(* Every report ever asked for has a serial number here, which the program *)
(* does not have: the row id is SQLite's, one above the largest present,   *)
(* so the id of a removed newest report is given again.                    *)
(***************************************************************************)
EXTENDS Integers, FiniteSets, FiniteSetsExt

CONSTANTS
    NumReportIds,   \* bound: reports present at a time
    MaxReports,     \* bound: reports ever asked for
    NumReads,       \* bound: times a report reads the flow database while it is built
    MaxSwitches,    \* bound: changes of the PCE
    MaxStops        \* bound: stops of the service

ASSUME ReportQueueAssumption ==
    /\ NumReportIds \in Nat \ {0} /\ MaxReports \in Nat /\ NumReads \in Nat \ {0}
    /\ MaxSwitches \in Nat /\ MaxStops \in Nat

ReportIds == 1 .. NumReportIds
Serials == 1 .. MaxReports
Pces == {1, 2}
Removers == {"page", "retention"}

VARIABLES
    reports,    \* reports: id -> [status, serial, target, email] or NoReport
    files,      \* the reports directory: id -> [serial whose files are there, shows: the PCEs whose data they show]
    target,     \* pce_target of the settings
    bound,      \* the PCE the flow database holds data of
    clearing,   \* saves of the PCE page whose clearing of the flow database is outstanding
    generation, \* the flow database's generation
    making,     \* the job: the report it makes and what it noted
    recovered,  \* the job's flag of the same name, FALSE in a new process
    remover,    \* what is being removed: [step, ids] for the page and for retention
    asked,      \* (bound, history) serials given so far
    switches, stops, \* (bound)
    overlapped, \* (history) the PCE was changed again while a clearing was outstanding
    reused,     \* (history) serials whose row has an id that another report had before
    orphaned,   \* (history) ids whose files a stop may have left behind
    mails       \* (history) serial -> mails sent

reportHistory == <<asked, overlapped, reused, orphaned, mails>>
pceState == <<target, bound, clearing, generation, switches>>
reportVars == <<reports, files, pceState, making, recovered, remover, stops, reportHistory>>

NoReport == [status |-> "none", serial |-> 0, target |-> 0, email |-> "none"]
NoFiles == [serial |-> 0, shows |-> {}]
\* A row with its status and the state of its mail set.
RowWith(row, status, email) == [status |-> status, serial |-> row.serial, target |-> row.target, email |-> email]
NotMaking == [step |-> "idle", id |-> 0, serial |-> 0, target |-> 0, generation |-> 0, reads |-> 0, read |-> {}]
NotRemoving == [step |-> "idle", ids |-> {}]

\* One type invariant: the rows, the directory and the actors stay within their types, and only the
\* row the job works on is running, except right after a start.
ReportTypeOK ==
    /\ reports \in [ReportIds -> [status : {"none", "queued", "running", "done", "failed"}, serial : 0 .. MaxReports,
                                  target : 0 .. 2, email : {"none", "sending", "sent", "failed", "skipped"}]]
    /\ files \in [ReportIds -> [serial : 0 .. MaxReports, shows : SUBSET Pces]]
    /\ \A i \in ReportIds : reports[i].status = "running" => making.id = i \/ ~recovered
    /\ making.step \in {"idle", "claimed", "build", "write", "done", "mail", "fail"}
    /\ \A r \in Removers : remover[r].ids \subseteq ReportIds

ReportInit ==
    /\ reports = [i \in ReportIds |-> NoReport] /\ files = [i \in ReportIds |-> NoFiles]
    /\ target = 1 /\ bound = 1 /\ clearing = 0 /\ generation = 0 /\ overlapped = FALSE
    /\ making = NotMaking /\ recovered = FALSE /\ remover = [r \in Removers |-> NotRemoving]
    /\ asked = 0 /\ switches = 0 /\ stops = 0 /\ reused = {} /\ orphaned = {} /\ mails = [s \in Serials |-> 0]

Present == {i \in ReportIds : reports[i] # NoReport}
NextId == IF Present = {} THEN 1 ELSE Max(Present) + 1

\* enqueue: a queued row, or at once a failed one (not available, refused).
Enqueue(refused) ==
    /\ asked < MaxReports /\ NextId \in ReportIds
    /\ asked' = asked + 1
    /\ reports' = [reports EXCEPT ![NextId] =
          [status |-> IF refused THEN "failed" ELSE "queued", serial |-> asked + 1, target |-> target, email |-> "none"]]
    /\ reused' = IF files[NextId] # NoFiles \/ (making.id = NextId) \/ (\E r \in Removers : NextId \in remover[r].ids)
                 THEN reused \cup {asked + 1} ELSE reused
    /\ UNCHANGED <<files, pceState, making, recovered, remover, stops, overlapped, orphaned, mails>>

-----------------------------------------------------------------------------
(* A switch of the PCE: the settings are saved first, the flow database is *)
(* cleared when its write lock is free.                                    *)

SwitchSettings ==
    /\ switches < MaxSwitches /\ switches' = switches + 1
    /\ target' = 3 - target /\ clearing' = clearing + 1
    /\ overlapped' = (overlapped \/ clearing > 0)
    /\ UNCHANGED <<reports, files, bound, generation, making, recovered, remover, stops, asked, reused, orphaned, mails>>

SwitchDatabase ==
    /\ clearing > 0 /\ clearing' = clearing - 1
    /\ bound' = target /\ generation' = generation + 1
    /\ UNCHANGED <<reports, files, target, switches, making, recovered, remover, stops, reportHistory>>

-----------------------------------------------------------------------------
(* reports_run: recover_running once per process, then run_queued.         *)

\* Mutation of RecoverRunning: what an earlier process was making is left as it is.
RecoverNothing ==
    /\ making.step = "idle" /\ ~recovered
    /\ recovered' = TRUE
    /\ UNCHANGED <<reports, files, pceState, making, remover, stops, reportHistory>>
\* recover_running: what an earlier process was making is queued again.
RecoverRunning ==
    /\ making.step = "idle" /\ ~recovered
    /\ recovered' = TRUE
    /\ reports' = [i \in ReportIds |-> IF reports[i].status = "running" THEN RowWith(reports[i], "queued", reports[i].email)
                                        ELSE reports[i]]
    /\ UNCHANGED <<files, pceState, making, remover, stops, reportHistory>>

Queued == {i \in ReportIds : reports[i].status = "queued"}

\* claim_next: the oldest queued row becomes running in one statement.
ClaimNext ==
    /\ making.step = "idle" /\ recovered /\ Queued # {}
    /\ LET i == Min(Queued)
       IN /\ reports' = [reports EXCEPT ![i] = RowWith(@, "running", @.email)]
          /\ making' = [step |-> "claimed", id |-> i, serial |-> reports[i].serial, target |-> reports[i].target,
                        generation |-> generation, reads |-> 0, read |-> {}]
    /\ UNCHANGED <<files, pceState, recovered, remover, stops, reportHistory>>

\* The generation was noted; the settings read now must name the PCE the report was queued for.
StartBuild ==
    /\ making.step = "claimed"
    /\ making' = [making EXCEPT !.step = IF target = making.target THEN "build" ELSE "fail"]
    /\ UNCHANGED <<reports, files, pceState, recovered, remover, stops, reportHistory>>

\* One read of the flow database: require_same_pce refuses data of another PCE than the settings name.
BuildRead ==
    /\ making.step = "build" /\ making.reads < NumReads
    /\ making' = IF bound = target
                 THEN LET reads == [making EXCEPT !.read = @ \cup {bound}] IN [reads EXCEPT !.reads = @ + 1]
                 ELSE [making EXCEPT !.step = "fail"]
    /\ UNCHANGED <<reports, files, pceState, recovered, remover, stops, reportHistory>>

BuildFails ==
    /\ making.step \in {"build", "write"}
    /\ making' = [making EXCEPT !.step = "fail"]
    /\ UNCHANGED <<reports, files, pceState, recovered, remover, stops, reportHistory>>

\* Mutation of SameDatabase: the generation is not compared again.
AnyDatabase == TRUE

\* The flow database is still the one the report began with.
SameDatabase == generation = making.generation

BuildEnds ==
    /\ making.step = "build" /\ making.reads = NumReads
    /\ making' = [making EXCEPT !.step = IF SameDatabase THEN "write" ELSE "fail"]
    /\ UNCHANGED <<reports, files, pceState, recovered, remover, stops, reportHistory>>

\* _write: every file is written beside its name and then renamed.
WriteFiles ==
    /\ making.step = "write"
    /\ files' = [files EXCEPT ![making.id] = [serial |-> making.serial, shows |-> making.read]]
    /\ making' = [making EXCEPT !.step = "done"]
    /\ UNCHANGED <<reports, pceState, recovered, remover, stops, reportHistory>>

\* finish: by id; a row that is gone is not written.
Finished(status, email) ==
    [reports EXCEPT ![making.id] = IF @ = NoReport THEN @ ELSE RowWith(@, status, email)]

\* Mutation of FinishDone: the mail goes out before the report is recorded as done.
MailThenFinish(mail) ==
    /\ making.step = "done"
    /\ IF mail THEN /\ mails' = [mails EXCEPT ![making.serial] = @ + 1]
                    /\ making' = making /\ reports' = reports
               ELSE /\ reports' = Finished("done", "sent") /\ making' = NotMaking /\ mails' = mails
    /\ mails[making.serial] < 2
    /\ UNCHANGED <<files, pceState, recovered, remover, stops, overlapped, asked, reused, orphaned>>
\* The report is done, in one commit; that its mail is going out in another.
FinishDone(mail) ==
    /\ making.step = "done"
    /\ reports' = Finished("done", IF mail THEN "sending" ELSE "none")
    /\ making' = IF mail THEN [making EXCEPT !.step = "mail"] ELSE NotMaking
    /\ UNCHANGED <<files, pceState, recovered, remover, stops, reportHistory>>

\* deliver: skipped without SMTP; files that were removed in the meantime fail the job, not the report.
Deliver(outcome) ==
    /\ making.step = "mail"
    /\ outcome = "sent" => files[making.id] # NoFiles
    /\ mails' = IF outcome = "sent" THEN [mails EXCEPT ![making.serial] = @ + 1] ELSE mails
    /\ reports' = [reports EXCEPT ![making.id] = IF @ = NoReport \/ outcome = "raised" THEN @
                                                 ELSE RowWith(@, @.status, outcome)]
    /\ making' = NotMaking
    /\ UNCHANGED <<files, pceState, recovered, remover, stops, overlapped, asked, reused, orphaned>>

\* Mutation of ReportFails: the directory stays.
ReportFailsKeeps ==
    /\ making.step = "fail"
    /\ reports' = Finished("failed", reports[making.id].email)
    /\ making' = NotMaking
    /\ UNCHANGED <<files, pceState, recovered, remover, stops, reportHistory>>
\* The report's own failure: its directory goes, then the row says why.
ReportFails ==
    /\ making.step = "fail"
    /\ files' = [files EXCEPT ![making.id] = NoFiles]
    /\ reports' = Finished("failed", reports[making.id].email)
    /\ making' = NotMaking
    /\ UNCHANGED <<pceState, recovered, remover, stops, reportHistory>>

-----------------------------------------------------------------------------
(* remove_report and run_report_retention: choose, delete the rows, remove *)
(* the directories.                                                        *)

ChooseToRemove(r, these) ==
    /\ remover[r].step = "idle" /\ these # {} /\ these \subseteq {i \in Present : reports[i].status # "running"}
    /\ r = "page" => Cardinality(these) = 1
    /\ remover' = [remover EXCEPT ![r] = [step |-> "delete", ids |-> these]]
    /\ UNCHANGED <<reports, files, pceState, making, recovered, stops, reportHistory>>

\* Mutation of Deletable: the status is not asked for again.
DeletableAny(these) == {i \in these : reports[i] # NoReport}
\* delete: the rows of these ids that are not running; only they are gone.
Deletable(these) == {i \in these : reports[i] # NoReport /\ reports[i].status # "running"}

\* Mutation of DeleteRows: the files of every chosen report are removed, deleted or not.
DeleteRowsAll(r) ==
    /\ remover[r].step = "delete"
    /\ reports' = [i \in ReportIds |-> IF i \in Deletable(remover[r].ids) THEN NoReport ELSE reports[i]]
    /\ remover' = [remover EXCEPT ![r].step = "files"]
    /\ UNCHANGED <<files, pceState, making, recovered, stops, reportHistory>>
\* delete in one statement; only the ids it returns go on to _remove_files.
DeleteRows(r) ==
    /\ remover[r].step = "delete"
    /\ LET gone == Deletable(remover[r].ids)
       IN /\ reports' = [i \in ReportIds |-> IF i \in gone THEN NoReport ELSE reports[i]]
          /\ remover' = [remover EXCEPT ![r] = IF gone = {} THEN NotRemoving ELSE [step |-> "files", ids |-> gone]]
    /\ UNCHANGED <<files, pceState, making, recovered, stops, reportHistory>>

RemoveFiles(r) ==
    /\ remover[r].step = "files"
    /\ files' = [i \in ReportIds |-> IF i \in remover[r].ids THEN NoFiles ELSE files[i]]
    /\ remover' = [remover EXCEPT ![r] = NotRemoving]
    /\ UNCHANGED <<reports, pceState, making, recovered, stops, reportHistory>>

-----------------------------------------------------------------------------

\* The service stops; the next process has made and removes nothing.
ReportStop ==
    /\ stops < MaxStops /\ stops' = stops + 1
    /\ making.step # "idle" \/ \E r \in Removers : remover[r].step # "idle"
    /\ orphaned' = orphaned \cup {i \in UNION {remover[r].ids : r \in Removers} : files[i] # NoFiles}
    /\ making' = NotMaking /\ recovered' = FALSE /\ remover' = [r \in Removers |-> NotRemoving]
    /\ UNCHANGED <<reports, files, pceState, asked, overlapped, reused, mails>>

ReportJob ==
    \/ RecoverRunning \/ ClaimNext \/ StartBuild \/ BuildRead \/ BuildEnds \/ WriteFiles \/ ReportFails
    \/ \E mail \in BOOLEAN : FinishDone(mail)
    \/ \E outcome \in {"sent", "failed", "skipped", "raised"} : Deliver(outcome)

ReportNext ==
    \/ ReportJob \/ SwitchSettings \/ SwitchDatabase \/ BuildFails \/ ReportStop
    \/ \E refused \in BOOLEAN : Enqueue(refused)
    \/ \E r \in Removers : DeleteRows(r) \/ RemoveFiles(r) \/ \E these \in SUBSET ReportIds : ChooseToRemove(r, these)

ReportSpec == ReportInit /\ [][ReportNext]_reportVars /\ WF_reportVars(ReportJob)

-----------------------------------------------------------------------------
(* Properties.                                                             *)

\* A finished report can be opened: its own files are in its directory, whatever is removed at the
\* same time, unless it was given the id of a report whose removal had not ended (retention.py:
\* delete, then _remove_files by id).
DoneHasFiles ==
    \A i \in ReportIds : reports[i].status = "done" =>
        files[i].serial = reports[i].serial \/ reports[i].serial \in reused

\* Files are only kept for reports that are done, being made or being removed: a failed report, or
\* one deleted by the page or by retention, leaves none, unless the service stopped in between.
FilesHaveAReport ==
    \A i \in ReportIds : files[i] # NoFiles =>
        \/ reports[i].status = "done" \/ making.id = i \/ (\E r \in Removers : i \in remover[r].ids)
        \/ stops > 0 /\ (reports[i].status \in {"queued", "running"} \/ i \in orphaned)
        \/ reports[i].serial \in reused

\* A finished report shows the data of the PCE it names and of no other, however the PCE is switched
\* and switched back while it is queued or built ("a switch in between fails the report"), unless it
\* was switched back before the first switch had cleared the flow database.
ReportShowsItsPce ==
    ~overlapped => \A i \in ReportIds : reports[i].status = "done" => files[i].shows \subseteq {reports[i].target}

\* A report is mailed at most once, also when the service stops and the report is made again.
MailedAtMostOnce == \A s \in Serials : mails[s] <= 1

\* No report is queued or being made.
NoReportWaits == \A i \in ReportIds : reports[i].status \notin {"queued", "running"}
\* Every queued report is made, fails or is removed in the end (there are MaxReports of them).
QueuedReportEnds == <>[]NoReportWaits

\* A finished report is whole, of its own PCE, mailed once, and nothing else is left behind
\* (services/reports/generate.py).
ReportsAreSound == ReportTypeOK /\ DoneHasFiles /\ FilesHaveAReport /\ ReportShowsItsPce /\ MailedAtMostOnce
-----------------------------------------------------------------------------
(***************************************************************************)
(* A report schedule: the tick of the reports job enqueues its report when *)
(* it came due since it last did.  The clock counts half days; a schedule  *)
(* is due at the times DueTimes gives for its hour, and the pages add it,  *)
(* change its hour, switch it off and on, remove it or run it now.         *)
(***************************************************************************)

CONSTANTS
    MaxClock,        \* bound: the clock
    MatchingDays,    \* the days _day_matches takes, by weekday or by day of the month
    MaxScheduleEdits,\* bound: changes on the page
    MaxTickStops     \* bound: stops of the service in the middle of a tick

\* A weekday or a day of the month always comes again: a run time lies after every time.
ASSUME ReportSchedulesAssumption ==
    /\ MaxClock \in Nat /\ MatchingDays \subseteq Nat /\ MaxScheduleEdits \in Nat /\ MaxTickStops \in Nat
    /\ \A t \in 0 .. MaxClock : \E d \in MatchingDays : 2 * d > t

Hours == {0, 1}
NoDue == -1

VARIABLES
    clock,
    schedule,  \* settings.reports.schedules: the one schedule, [there, enabled, hour]
    lastDue,   \* report_schedule_state.last_due, NoDue without a row
    tick,      \* tick_schedules: the settings and last_due it read, the time it reckons with
    scheduleEdits, tickStops,  \* (bound)
    counting,  \* (history) the time the schedule has been counting from, NoDue while it does not
    enqueued,  \* (history) the due times whose report the tick enqueued
    again,     \* (history) a due time was enqueued twice
    lost       \* (history) due times a stop lost between the two commits

scheduleHistory == <<counting, enqueued, again, lost>>
scheduleVars == <<clock, schedule, lastDue, tick, scheduleEdits, tickStops, scheduleHistory>>

NoSchedule == [there |-> FALSE, enabled |-> FALSE, hour |-> 0]
NoTick == [step |-> "idle", at |-> 0, schedule |-> NoSchedule, last |-> NoDue, latest |-> NoDue]

\* One type invariant: last_due and what was enqueued are due times or moments that have come.
ScheduleTypeOK ==
    /\ clock \in 0 .. MaxClock /\ schedule \in [there : BOOLEAN, enabled : BOOLEAN, hour : Hours]
    /\ lastDue \in NoDue .. clock /\ enqueued \subseteq 0 .. clock /\ lost \subseteq 0 .. clock
    /\ tick.step \in {"idle", "forget", "due", "enqueue"} /\ tick.at \in 0 .. clock

ScheduleInit ==
    /\ clock = 0 /\ schedule = NoSchedule /\ lastDue = NoDue /\ tick = NoTick /\ scheduleEdits = 0 /\ tickStops = 0
    /\ counting = NoDue /\ enqueued = {} /\ again = FALSE /\ lost = {}

\* _at, _day_matches: the schedule's hour on the days it takes.
DueTimes(hour) == {2 * d + hour : d \in MatchingDays}

\* due_time: the first run time strictly after a time.
DueTime(hour, after) == Min({t \in DueTimes(hour) : t > after})

\* The last of the run times after `after` that have come: missed ones are made up for by one report.
LatestDue(hour, after, at) == Max({t \in DueTimes(hour) : t > after /\ t <= at})

-----------------------------------------------------------------------------
(* The page.  A schedule that is added has an id of its own, so nothing is *)
(* stored for it yet.                                                      *)

SaveSchedule(s) ==
    /\ scheduleEdits < MaxScheduleEdits /\ scheduleEdits' = scheduleEdits + 1
    /\ s # schedule /\ schedule' = s
    /\ counting' = IF s.there /\ schedule.there /\ s.hour = schedule.hour THEN counting ELSE NoDue
    /\ UNCHANGED <<clock, tick, tickStops, enqueued, again, lost>>
    /\ lastDue' = IF schedule.there THEN lastDue ELSE NoDue

-----------------------------------------------------------------------------
(* tick_schedules.                                                         *)

TickBegin ==
    /\ tick.step = "idle"
    /\ tick' = [step |-> "forget", at |-> clock, schedule |-> schedule, last |-> lastDue, latest |-> NoDue]
    /\ UNCHANGED <<clock, schedule, lastDue, scheduleEdits, tickStops, scheduleHistory>>

\* forget_schedules_except.
TickForget ==
    /\ tick.step = "forget"
    /\ lastDue' = IF tick.schedule.there THEN lastDue ELSE NoDue
    /\ tick' = [tick EXCEPT !.step = IF tick.schedule.enabled THEN "due" ELSE "idle"]
    /\ UNCHANGED <<clock, schedule, scheduleEdits, tickStops, scheduleHistory>>

\* Mutation of TickFirst: the next run time is stored as if it had come.
TickFirstAhead ==
    /\ tick.step = "due" /\ tick.last = NoDue
    /\ lastDue' = DueTime(tick.schedule.hour, tick.at) /\ counting' = IF schedule = tick.schedule THEN tick.at ELSE counting
    /\ tick' = NoTick
    /\ UNCHANGED <<clock, schedule, scheduleEdits, tickStops, enqueued, again, lost>>
\* Seen for the first time: it counts from now.
TickFirst ==
    /\ tick.step = "due" /\ tick.last = NoDue
    /\ lastDue' = tick.at /\ counting' = IF schedule = tick.schedule THEN tick.at ELSE counting
    /\ tick' = NoTick
    /\ UNCHANGED <<clock, schedule, scheduleEdits, tickStops, enqueued, again, lost>>

IsDue == DueTime(tick.schedule.hour, tick.last) <= tick.at
ToEnqueue(latest) == LET due == [tick EXCEPT !.latest = latest] IN [due EXCEPT !.step = "enqueue"]

TickNotDue ==
    /\ tick.step = "due" /\ tick.last # NoDue /\ ~IsDue
    /\ tick' = NoTick
    /\ UNCHANGED <<clock, schedule, lastDue, scheduleEdits, tickStops, scheduleHistory>>

\* Mutation of TickDue: the time of the commit is stored, not the run time that was found.
TickDueNow ==
    /\ tick.step = "due" /\ tick.last # NoDue /\ IsDue
    /\ tick' = ToEnqueue(LatestDue(tick.schedule.hour, tick.last, tick.at))
    /\ lastDue' = clock
    /\ UNCHANGED <<clock, schedule, scheduleEdits, tickStops, scheduleHistory>>
\* Mutation of TickDue: only the next run time is stored, and the others come due again.
TickDueFirst ==
    /\ tick.step = "due" /\ tick.last # NoDue /\ IsDue
    /\ tick' = ToEnqueue(LatestDue(tick.schedule.hour, tick.last, tick.at))
    /\ lastDue' = DueTime(tick.schedule.hour, tick.last)
    /\ UNCHANGED <<clock, schedule, scheduleEdits, tickStops, scheduleHistory>>
\* Due: that it ran is stored first, in a commit of its own.
TickDue ==
    /\ tick.step = "due" /\ tick.last # NoDue /\ IsDue
    /\ LET latest == LatestDue(tick.schedule.hour, tick.last, tick.at)
       IN /\ lastDue' = latest
          /\ tick' = ToEnqueue(latest)
    /\ UNCHANGED <<clock, schedule, scheduleEdits, tickStops, scheduleHistory>>

TickEnqueue ==
    /\ tick.step = "enqueue"
    /\ enqueued' = enqueued \cup {tick.latest}
    /\ again' = (again \/ tick.latest \in enqueued)
    /\ tick' = NoTick
    /\ UNCHANGED <<clock, schedule, lastDue, scheduleEdits, tickStops, counting, lost>>

TickStops ==
    /\ tick.step # "idle" /\ tickStops < MaxTickStops /\ tickStops' = tickStops + 1
    /\ lost' = IF tick.step = "enqueue" THEN lost \cup {tick.latest} ELSE lost
    /\ tick' = NoTick
    /\ UNCHANGED <<clock, schedule, lastDue, scheduleEdits, counting, enqueued, again>>

ClockTicks ==
    /\ clock < MaxClock /\ clock' = clock + 1
    /\ UNCHANGED <<schedule, lastDue, tick, scheduleEdits, tickStops, scheduleHistory>>

TickStep == TickForget \/ TickFirst \/ TickNotDue \/ TickDue \/ TickEnqueue

ScheduleNext ==
    \/ TickBegin \/ TickStep \/ TickStops \/ ClockTicks
    \/ \E s \in [there : {TRUE}, enabled : BOOLEAN, hour : Hours] \cup {NoSchedule} : SaveSchedule(s)

-----------------------------------------------------------------------------
(* Properties.                                                             *)

\* No run time makes two reports: not when ticks come late, not when the schedule is switched off and
\* on or its hour changed to and fro, not after a stop (schedules.py: last_due is stored before the
\* report is enqueued).
NoRunTwice == ~again

\* Once a schedule counts, every run time it passed while it stood unchanged is made up for: a report
\* was enqueued for it or for a later one, unless a stop fell between the two commits.
MissedRunsAreMadeUp ==
    (tick.step = "idle" /\ counting # NoDue /\ lastDue # NoDue) =>
        \A t \in DueTimes(schedule.hour) : counting < t /\ t <= lastDue =>
            \E u \in enqueued \cup lost : u >= t

\* Every run time makes one report, also the missed ones (services/reports/schedules.py).
SchedulesAreKept == ScheduleTypeOK /\ NoRunTwice /\ MissedRunsAreMadeUp
=============================================================================
