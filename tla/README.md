# illumio-ops: TLA+ models and proofs

illumio-ops collects the events, the traffic flows and the inventory of an Illumio PCE into a
local SQLite store, and works from that store: alerts, analyses, reports, rule schedules and
forwarding to SIEM destinations. It is one process: a Flask application whose requests run on a
thread pool, and an APScheduler instance whose jobs run on threads of the same process. Two SQLite
files hold the state, `data/app.sqlite` (settings-like and operational tables) and
`data/flows.sqlite` (everything collected from one PCE), and there is one settings file,
`settings.json`. There is no transaction that spans two of the three.

The modules model the parts where several threads, two databases and a restart meet, the writes that
leave the process (to the PCE, to channels, to SIEM destinations), and the pure algorithms whose
answers people act on. TLC checks every part on small instances; TLAPS proves the core parts for all
values of their constants. Line references are to `src/illumio_ops/`; PROJECT.json maps the
definitions to the lines they model and lists the hazards with the properties that would catch them. A helper whose lines
are part of those of a definition that uses it has no entry of its own there.

## 1. Inventory

| Part | State it keeps | Operations | What is hard, and what makes it correct |
|---|---|---|---|
| Flow database (`store/flowdb/db.py`, `binding.py`) | `flows.sqlite`; in memory the write lock, `generation`, the reset gate and the set of open connections | `connect`, `writing(generation)`, `reset`, `checkpoint` | a reset deletes a file that other threads have open; a cycle begun before a reset ends after it. The file belongs to one PCE, is deleted only when nobody has it open, and late writers are dropped |
| PCE page and switch (`web/routes/system_pce.py`, `services/collect/reset.py`, `same_pce.py`, `guard.py`) | `settings.pce`, the `pce_binding` row, tables of `app.sqlite` derived from a PCE | save, keep (same PCE at a new address), clear, `finish_pending_switch` | settings, file and derived tables change at different moments; crashes and busy stores in between. An unfinished switch is always noticed and finished |
| Settings store (`settings/store.py`, `upgrade.py`) | the settings and their revision, in memory and on disk | `update` with optimistic revision, reload of hand edits, upgrade of older schemas | two pages submit over one another, people edit the file, a write fails. Nothing is overwritten unseen or defaulted |
| Collectors (`services/collect/{cycle,events,traffic,inventory,windows}.py`) | watermark per source, gaps, coverage, records | one cycle per source: windows since the watermark, fetch, write, record gaps | failed windows, cold starts, late records. No window is claimed that was not read, and an unread one has an open gap |
| Backfill, daily re-read (`backfill.py`, `reread.py`) | plan and progress rows | initial and manual backfill by day, resume after a stop | the same store is written by the traffic cycle; progress must survive a stop |
| Rows of flows (`store/flowdb/flows.py`, `services/coverage.py`, `services/flowsource.py`) | `flows`, `rollup_state` | upsert, pairing of the two ends' records, rollups, deletion by connection, reading with gaps filled from the PCE | records come in any order and grow; what is stored and what is read live must look the same, and an answer says what it lacks |
| Archive (`services/collect/archive.py`, `store/flowdb/archive.py`) | one file per day, `archive_days` | write closed days, rewrite days that changed, expire | the file is written without the lock while rows change; retention deletes what is archived |
| Retention (`services/collect/retention.py`, `services/siem/guard.py`) | nothing of its own | delete by age, count what a SIEM destination had not sent | counts go to the other database |
| SIEM dispatch (`services/siem/dispatch.py`, `sources.py`, `store/siem.py`) | a cursor per destination and source: last id, head and its failures, floor, dropped | one run per tick: batches after the cursor, head retries, probes, quarantine | at least once, in order; an outage must not be taken for bad records, nor a bad record for an outage |
| SIEM dead-letter queue (`services/siem/dlq.py`) | `siem_dlq` | quarantine, resend, purge, retention | its limit, against a run and resends without a common lock |
| SIEM page (`services/siem/cursors.py`, `web/routes/siem.py`) | destinations in the settings | save, place new cursors, forget old ones | reads the settings, the store and the cursors at different moments |
| Alert evaluation (`services/alerts/{evaluate,rules,...}.py`) | rules, evaluation state per rule, alert instances | evaluate per tick, cooldown, throttle, known causes, preview, rule test | two jobs share a watermark and gate state; a rise is neither lost nor alerted twice, and the pages foretell what the evaluation does |
| Alert dispatch (`services/alerts/dispatch.py`) | deliveries, channel strikes and rests | one message per channel a minute, attempts, back-off | a delivery is neither lost nor sent twice over failures, rests and restarts |
| Reports (`services/reports/*`, `store/reports.py`) | report rows, a directory per row, schedules | queue, generate, recover, remove, schedules | one worker, stops and PCE switches in the middle, missed due times |
| Rule schedules (`services/rule_schedules.py`, `domain/rule_schedule.py`) | schedule rows | tick and page: write the draft, provision, revert | other people's drafts are neither shipped nor discarded; refused and lost answers |
| Quarantine, fleet writes, Rule Hit Count (`services/quarantine.py`, `fleet_write.py`, `rhc.py`) | action rows | label, workload and firewall settings writes at the PCE with a record | what was confirmed on a preview is what is written; the PCE took a write whose answer was lost |
| On-demand pulls (`services/ondemand.py`, `workbench_store.py`, `lateral_view.py`, `analysis/predicted_block.py`) | throw-away stores in memory | pull a period, keep it for later clicks, expire | a switch, a newer pull or another reader retires the store a request still reads |
| Analysis (`services/analysis/*`, `domain/anomaly.py`, `detectors.py`, ...) | detections, results, focus list | detection runs and late passes, hourly steps, findings | late records, stale results, one thing reported once |
| Domain algorithms (`domain/filter.py`, `policy_resolver.py`, `policy_diff.py`, `exposure.py`) | none | the filter in three forms, rule resolution, exposure graphs | pure: several renderings of one question must agree |
| PCE client (`pce/*`) | rate budget | calls, asynchronous queries, collections | polling, time-outs, retries after 429; a short answer must not pass for a whole one |
| Web front (`web/auth.py`, `security.py`, `ipallow.py`, `tls.py`) | sessions, sign-in attempts, certificate files | sign in, sign out, password change, renewal, import | limits and sessions over restarts; a key and its certificate are two files |
| Scheduler and health (`jobs/*`) | last outcome per job | one instance per job, intervals | a job that never runs again |
| Startup, migration, rescue (`runtime.py`, `migrate/*`, `rescue.py`) | service lock, one-off conversions | start, convert 5.x data | a stop in the middle of a conversion; 6.x goes on where 5.x stopped |

How they interact: the jobs and the pages call the services; all of them share the two databases
and the settings snapshot `ctx.settings.current`. The only locks are FlowDb's write lock, SQLite's
own transactions, "one instance per job" and a handful of per-service locks (BACKFILL_LOCK, the
alert evaluation lock, INTERACTIVE_PULL, `_PROGRESSION`, `_ENABLE_LOCK`). What one part read may have
been changed by another before it uses it, and section 6 lists where that matters.

## 2. Modules

The modules of the system share no variables; a part that several of them touch (the flow database's
generation, the configured PCE) is modelled in each as far as that module needs it, and `FlowStore` is
the lower layer: `SiemSwitch`, `Archive`, `ReportQueue`, `HourlyAnalysis` and `Interactive` take from it
that a step under the write lock is one step and that a late writer is dropped by its generation.

| Group | Modules | Instance TLC checks |
|---|---|---|
| Store and PCE switch | `FlowStore` | `MCFlowStore` |
| SIEM | `SiemForward`; `SiemSwitch` | `SiemForward` itself; `MCPages` |
| Collection | `CollectCycle` | itself |
| What the store keeps | `Archive`, `Connections`, `Coverage` | `MCStore` |
| What leaves the service | `AlertDispatch`, `ReportQueue`, `RuleSchedules`, `FleetWrites`, `Quarantine`, `RuleHitCount` | `MCOutgoing` |
| What pages show | `Interactive` (implements `PceAnswers`), `OnDemand`, `Exposure`, `HourlyAnalysis`, `HostFindings`, `AlertMatching` | `MCPages` |
| What is worked out of the traffic | `AlertRules`, `FlowFilter`, `PolicyRules`, `RuleUsage`, `Detection`, `Anomalies` | `MCAnalysis` |
| What the service stands on | `PceClient`, `BlockedHistory`, `SettingsFile`, `SignIn`, `Tls`, `Migration`, `Handover` | `MCAccess` |
| Proofs | those of `SiemSwitch` at its end; `FlowStoreProofs`, `SiemForwardProofs`, `CollectCycleProofs`, `AlertRulesProofs`, `InteractiveProofs`, `ArchiveProofs`, `OutgoingProofs` (of `MCOutgoing` and its parts) | |

An MC module of several parts checks them side by side: its variable `part` says which part a behaviour
is of, and the variables of the others keep their initial value. The parts of one MC module keep their
state in different tables and do not call each other, so the product of their states would show nothing
more.

### FlowStore

State: `saved` and `rev` are the settings (`settings/store.py`), `binding` and `rows` the file,
`generation`, `lock`, `resetting` and `conn` the members of `FlowDb` (`store/flowdb/db.py:99-118`),
`stale` the tables of `app.sqlite` that `_reset` has yet to clear. `pc`, `seen`, `old`, `new`,
`gen` are the locals of a job or a request. An address is a model value after `normalize_target`;
`Ident` tells which PCE answers there, so "the same PCE at another address" and "another PCE" are
both in the model. Records are abstracted to the PCE they came from.

Actions: `Opening`, `Opened`, `Close` are a lock-free reader (GUI, detection, SIEM run,
checkpoint) with or without `require_same_pce`; `ResetBegin`, `ResetBusy`, `ResetUnlink`,
`ResetEnd` are `FlowDb.reset` cut at the places another thread can come between, `Clearer` the
loop over the application tables; `FinishPendingSwitch`, `NoteGeneration`, `SnapshotSettings`,
`Fetch`, `WriteCycle` are a collector job; `LoadPage`, `Submit`, `Save`, `Verify`, `NoteKeep`,
`KeepSave`, `KeepRebind`, `ClearCollected` are the pages. `fresh`, `overtaken` and `interrupted`
are history: they name the two ways a property can be lost.

### SiemForward and SiemSwitch

`SiemForward`: a record is its id; `Unformattable`, `Refused`, `Poison` and `SentBefore` say what a send
of it does, `up` whether the destination answers. `last`, `head`, `attempts`, `floor`, `dropped` are the
`siem_cursor` row, `dlq` the `siem_dlq` rows. `ReadBatch` to `PassHead` are `_run_source`
(`services/siem/dispatch.py:229-349`), cut at every database write and every send. Retention
(`RetentionDelete`, `RecordDropped`) deletes any set of records, because it goes by the records'
own time and ids are in order of storage. `HourPasses` ends `_recently_up`. The clock is otherwise
absent: shares of a tick run out at any point (`EndBatch`).

`SiemSwitch`: record ids start again at 1 when the file is made again, so the model numbers the files
(`epoch`). `RunBegin` to `RunAdvance` are `run_siem` for every destination with its settings snapshot;
`SwitchPce`, `ClearCollected`, `ResetFile`, `RestartCursors` what the switch does to it (its inner
steps are FlowStore's); `SaveSiem` to `PageForget` the SIEM page. Every send works here.

### CollectCycle

Time is counted in slots, several to a UTC day. `cover` is the set of slots `ingest_coverage` claims
for a source (the merging of adjacent ranges changes nothing), `gaps` the open rows of
`ingest_gaps` as ranges, `watermark` and `cold` the `ingest_state` row of a live cycle with the
remembered bound of its first window, and `plans`, `done`, `reread` the progress of backfill and
re-read. `cycle` and `long` are the locals of a running cycle and of the one long reader:
BACKFILL_LOCK lets a single backfill or re-read run. What really happened is history: `bound`, `read`
and `failed` say where a source began and what queries answered or failed for, `found` whether a
record is stored that reached the PCE after the live cycle had read its slot.

`CycleBegin`, `CycleRead`, `CycleFail` are `begin`, one slice and `fail` of
`services/collect/cycle.py` for both sources (fetch and write of a slice are one step: what falls
between them is FlowStore's subject). `EnsureInitial`, `StartManual`, `BackfillRead`, `BackfillFail`
and `BackfillFinish` are `services/collect/backfill.py` day by day and piece by piece, `RereadBegin`
to `RereadFinish` the nightly re-read with its attempts. `ChangeMode` adds and removes sources
between any two steps. `Init` is a new installation; the bound an upgrade from 5.x leaves is in
`Handover`. `FlowLen` stands for both retention ages.

### What the store keeps: Archive, Connections, Coverage

`Archive`: `rows` is the flows table: a record key has a time and the number of the write that made it,
so that a line of a file tells which version it holds. `log`, `stale` are `archive_log`, `file` the files
in `data/archive`, `aside` what resets moved away. `ResetBegin` to `ResetDone` are a reset cut where a stop or a failing
rename can leave it: the listing of the files (`services/collect/reset.py:150`), each rename (`:156`), and the unlink of the database
(`store/flowdb/db.py:232`); `toMove` holds the files listed and not yet moved. `ArchiveList` to `ArchiveExpire` are `_archive`
(`services/collect/archive.py:104-158`), cut at each hold of the write lock and each file operation;
`RetentionPage` and `RetentionDelete` are `_expire_flows`. `Upsert` is any of the writers of flows.
History: `owed` is the version retention deleted last of each record, `raised` and `withdrawn` name the
two ways a promise about it is lost, `displaced` the days whose file an unfinished reset moved. Archiving is switched on.

`Connections` takes the rows of one (source, destination, port, protocol): `UpsertFlows` merges a batch
and pairs the two ends' records (`store/flowdb/flows.py`), `RefreshRollups` rebuilds dirty days,
`DeleteConnectionsBefore` is retention by whole connections; a live read builds its rows without storing
them. `passed` is the latest day that now - flow_days has been on: a job freezes the days up to the one it works out from its
clock (`services/collect/traffic.py:131-132`), whether or not retention has been there, and the last piece of a
backfilled day rebuilds it past that (`EndsPastDay`, `services/collect/backfill.py:137-141`). `Coverage` asks one question a state: a window, what the store knows of it (coverage, gaps, floor,
mode) and what `store_coverage` and `query_flows` answer.

### What leaves the service

- `AlertDispatch` (`services/alerts/dispatch.py`, `store/alerts.py`): `InsertAlert` queues a delivery per
  enabled channel, `DispatchRuns` is one message of the minute's run with its outcome (taken, refused, taken
  with the answer or its record lost), strikes and rests; `DispatchTick` the clock, `ToggleChannel` the
  settings, `DeleteDelivery` retention, `DispatchStops` a stop. Times are relative to the clock.
- `ReportQueue` (`services/reports/generate.py`, `store/reports.py`): `Enqueue`, the job (`ReportJob`: recover,
  claim, build, files, row, mail), `ChooseToRemove`, `DeleteRows`, `RemoveFiles` by page and retention,
  `SwitchSettings` and `SwitchDatabase`, `ReportStop`. Row ids are SQLite's and come again; serials do not.
  Its second half are the report schedules (`services/reports/schedules.py`): a tick in its steps, edits of the one
  schedule, the clock.
- `RuleSchedules` (`services/rule_schedules.py`): the tick and "check now" (`Check`) and the page (`Page`) with every
  call to the PCE a step of its own, people editing, provisioning and reverting the same rule set, stops.
- `FleetWrites` (`services/fleet_write.py`), `Quarantine` (`services/quarantine.py`), `RuleHitCount`
  (`services/rhc.py`): what two people confirmed, read and written host by host under the service's lock where
  it has one, with the console, a PCE switch, refused and lost answers and, for the first two, stops. A confirmation has
  a number, and the rows of the log and the history of writes carry it: it stands for the rows' ids, without which a
  row could answer for a write of another confirmation by the same person.

### What pages show

- `Interactive` (`services/workbench_store.py`, `lateral_view.py`, `analysis/predicted_block.py`): a request notes the key
  (PCE and generation), waits for INTERACTIVE_PULL, opens a throw-away store, seeds it with the inventory, reads a
  period, computes and answers; `stores` are the throw-away stores with their readers, `kept` and `shown` the
  two caches. `SavePce`, `ClearForPce`, `CollectorBinds` are the switch. `Answers` maps it to
  `PceAnswers`: what is answered is of the PCE configured at that moment, or nothing is.
- `OnDemand` (`services/ondemand.py`): `open_period` with its windows, halving and limits.
- `HourlyAnalysis` (`services/analysis/hourly.py`, `services/analysis/focus.py`): the steps of a run, the focus list made
  of their results, expiry, a switch and stops. `HostFindings`, `Exposure` and `AlertMatching` (`domain/{ransomware,tamper,focus,exposure,alerting,alertpack}.py`, `services/alerts/*`) ask one
  question a state (a host's gaps and events, a graph, a rule with its events) and hold the program's answer; the pivots of a
  graph are found by the code's iterative search, one step an action.

### What is worked out of the traffic

- `AlertRules`: `rows` is the `detections` table with one row per fingerprint: its severity, `created_at` and
  `updated_at`; the ids order rows of one stamp. `mark` is the `lateral` row of `alert_eval_state`,
  `last`, `recent` and `seen` are `alert_rule_state` of the rule, `alerts` what it recorded. `job` holds
  the locals of the traffic and of the backfill job. `DetectBegin` takes the stamp of a detection run and
  `DetectWrite` writes any findings with it, minutes later; `EvaluateWaits` to `EvaluateCommit` are
  `evaluate_lateral` (`services/alerts/evaluate.py:406-455`) under its lock, cut between the read of a
  page and the transaction that records it. `ResetRule` is the button of the alert rules page. History:
  `passed` is the severity up to which a detection counts as one older than alerting, `restamped` the
  detections whose `updated_at` went back, `era` the alerts before the last reset. The rule has a
  throttle and takes every detector; its exclusions, known causes and deliveries are left out (they are
  `AlertMatching`'s and `AlertDispatch`'s), and the PCE does not change.
- `Detection` (`services/analysis/detect.py`, `jobs/scheduler.py`): live runs after traffic cycles and late runs after
  re-reads, with the watermark, the overlap, the queue of late days and the merging of near detections.
  The service is first run at `Installed`, after midnight of a day, so that a backfill has a day before it to read.
  `Anomalies` (`domain/anomaly.py`, `domain/detectors.py`) asks what the detectors report of one run's connections, one
  host's hours or one set of findings.
- `FlowFilter` (`domain/filter.py`), `PolicyRules` (`domain/policy_resolver.py`, `policy_diff.py`) and `RuleUsage`
  (`services/analysis/rule_usage.py`) are operators against reference definitions, one question a state. Left out: the dates of the window in
  `FlowFilter`'s PCE query (the residual keeps them), the subnets that `use_workload_subnets` adds to a side of a rule
  (`domain/policy_resolver.py:150-152`).

### What the service stands on

- `PceClient` (`pce/*`): the rate budget, a query's submit, polls, download and deletion, a paged collection. A submit that
  is throttled waits and is sent again in the same call, with the budget's time-out of the first attempt and no second look
  at the deadline (`SubmitThrottled`, `SubmitsAgain`: `pce/client.py:202-211`); the session repeats the other methods by
  itself, without a token (`SessionRepeats`: `:119-130`).
- `BlockedHistory` (`services/analysis/blocked_history.py`): the hourly cache against reading all seven days.
- `SettingsFile` (`settings/store.py`, `runtime.py`, `rescue.py`) and, at its end, the upgrades of older schemas
  (`settings/upgrade.py`).
- `SignIn` (`web/auth.py`, `security.py`): sessions, the attempt counter and the address list over restarts and changes; the
  code counts attempts for each route and address (`web/app.py:103`), the model has the counter of one.
  `Tls` (`web/tls.py`): certificate and key files written by pages, the renewal job and the start.
- `Migration`, `Handover` (`migrate/*`): what 5.x settings become, and the floors by which 6.x goes on.

## 3. Runs

The properties of a run of several parts are conjunctions over its parts, each a named property of its module
(in brackets); TLC evaluates them on the behaviours of that part only.

| Run | Bounds | Shows |
|---|---|---|
| `FlowStore_switch` | one collector, one page, one reader; two addresses of one PCE and one of another; 2 saves, 1 clear, 1 crash, 1 FlowDbBusy | `StoreIsInOrder`: the file is deleted only when nobody has it open, a cycle past its settings check has a PCE; `OnePceUnlessOvertaken`; `MismatchIsOwed`; `ReadersSeeOnePce`; `CollectorsKeepCurrentData` |
| `FlowStore_live` | the same without clears | `SwitchCompletes`: a file of another PCE than the configured one does not stay |
| `FlowStore_clearers` (violation) | 1 save, 1 crash | `SwitchIsFinished` fails: the application tables of the old PCE stay |
| `SiemForward_dlq` | 5 records: one unformattable, one refused, one that always fails; batches of 2, a DLQ of 2; 2 outages, 2 resends or purges, 1 crash | `NothingPassedOver`; `QueueIsInOrder`; `OutageBlamesNoRecord`; `SentInOrder` |
| `SiemForward_live` | 4 records: one unformattable, two that always fail, one sent by 5.x; 1 outage, 1 retention, no crash | `DropsAreCounted`; `EveryRecordIsForwarded` |
| `CollectCycle_jobs` | days of 2 slots, slices of one, the clock goes from a midnight into the day; a record of the last slot before it arrives late; hand-started backfills of 2 or 4 days; any 2 of failed queries, hand-started backfills, mode changes and stops | `CoverageIsRead`; `WatermarkLeavesNothing`; `UnreadHasGap`; `PlansAreInOrder`; `RereadFindsLate` |
| `Outgoing` | 2 channels, 3 deliveries; 2 reports of 2 ids; a schedule over 6 half days; 1 schedule of a rule; 2 hosts and 2 people for each kind of write; 1 or 2 of each trouble | `DeliveriesAreSound`: a delivery repeats only if the record of a taken one was lost, and is given up only after its attempts; `ReportsKeepTheirPromise` [`ReportsAreSound`, `SchedulesAreKept`]; `SchedulesDoNoHarm`: nobody's draft is shipped or discarded, an expiry is dropped only with the rule off; `WritesAreAsConfirmed` [`MovesAreSound`, `QuarantineIsSound`, `EnablingIsSound`]; `WorkComesToItsEnd` |
| `Pages` | SIEM page: 1 destination, 2 PCEs, 2 records per file, 1 switch, 1 clear, 1 save; questions: 2 requests, 2 PCEs, 2 lengths, 2 switches; a pull of 8 slots with 0, 1 or 3 rows each; graphs of 3 hosts (5 for pivots); 3 hours of analysis; up to 6 gaps between tamper events | `SkipsOnlyWhenOvertaken`; `PullsAreSound` [`PulledStoresAreSound`, `PeriodIsAccountedFor`]; `AnswersAreCurrent`: `Interactive` implements `PceAnswers`; `PredictedIsCurrent`; `PagesTellTheTruth` [`ExposureIsTrue`, `FindingsAreTrue`, `FocusIsSound`]; `RulesDoAsShown` |
| `AlertMatching_own` (violation) | one immediate rule, two hosts, 1 gap | `HeldBackForItsOwn` fails: an alert about one host is held back for another host's tampering |
| `Analysis` | 2 detections of 3 severities, a rule that takes the upper two, pages of one row, a clock of 3; filters, rules and scopes of a few values; detection runs over 3 records: days of 2 units, live runs at 1, 2 and 3, an overlap of 1, a re-read of day 0 and 1 failed run, broken re-read or stop | `RiseAlertsOnce`; `OneFilter` [`SqlAgrees`, `PceAndResidual`]; `PolicyIsShownAsItIs` [`PolicyReportsAreTrue`, `UnusedIsUnused`]; `DetectionsAreTrue` [`DetectionIsComplete`, `AnomaliesAreReal`] |
| `Access` | one caller, rates 1 and 2, 4 instants, caps of 2; 3 blocked connections; 2 pages and the rescue command, 3 saves, 2 hand edits, 2 stops; 2 browsers, 3 attempts; 2 TLS workers, 3 keys; 4 events of the PCE around the upgrade | `WhatIsReadIsWhole` [`PceIsReadWhole`, `CachedAsLive`]; `SettingsAreKept`; `DoorIsSound` [`SignInIsSound`, `CertificateIsUsable`]; `UpgradesAreFaithful` [`UpgradeKeepsWhatWasChosen`, `UpgradeIsFaithful`, `HandoverIsSeamless`] |
| `Store` | days of 2 instants, the clock goes over one midnight; 2 records of one connection, 2 writes, pages of one row; flow_days 1 or 2; 1 settings change, reset or stop, each reset stopping or failing at any of its steps; batches of a few sightings for the pairing, over 2 days, with every order of the cutoff's moves; requests over a whole period of 3 instants and over the middle one | `ArchiveIsComplete`; `ConnectionsStaySound`; `AnswerSaysWhatIsMissing` [`MissingIsListed`, `FilledIsRead`]; `ExpiredRowsGo` |

Why the bounds are enough. In FlowStore every property is about one writer against one switch: two
saves give "a switch interrupted, then another one", a clear and a crash give a reset from either
side, and one process of each kind gives every order of their steps; the theorems of section 5
cover any number of processes. The crash, busy and clear counters are there only to keep the graph
finite. In SiemForward the thresholds are 1, 2, 3, so that "tried again", "stuck" and "given up"
are three different counts; the DLQ is smaller than the number of bad records, so that it fills,
holds and is emptied; batches are smaller than the store, so that there is a next one. In
SiemSwitch two records and batches of one make "past the end of the new file" and "in the middle
of it" different; `Pages` looks at no successor of a state in which the exception it names has
happened (`MCNotOvertaken`), because the property says nothing more there.

In CollectCycle a day of two slots is the least in which "the middle of a day" and "its end" are
different places for a failure or a stop, and two troubles give "a failure, then a stop or another
mode". The re-read may begin right after midnight there, so that only its settling time keeps it
from reading a day whose records are still arriving. In Archive the instants are the last of a
day, the first of the next one, which a raw cutoff can cut, and one of the day that is still open;
one connection with two records on different days is the least for "every row of it lies on an
archived day". In AlertRules a severity below the rule's floor and two above it give "not taken", "new"
and "risen"; two detections and pages of one make a page boundary fall between rows of one stamp, and
the second detection run changes what an evaluation between two pages has yet to read. In Interactive
two requests are the least for "another reader's end retires the store I read", two switches let a
PCE come back under a new generation, and a longer and a shorter period tell "covered by the kept
store" from "not"; the theorems cover any number of them. In the write models two people and two
hosts give every interleaving of one host's read and write with the other person's, the console's and
a switch's; as the two who quarantine are alike, the first batch is ann's and the second either's (`AnnFirst`).
`MatchingDays` must have a day after every time of the clock: a weekday or a day of the month always comes again, and
without it `DueTime` would ask for the least of nothing.

The operators that are asked one question a state (`FlowFilter`, `PolicyRules`, `RuleUsage`, `Exposure`,
`HostFindings`, `AlertMatching`, `Anomalies`, `Coverage`, `Migration`, the upgrades of `SettingsFile`) take every input
built from the small sets of their cfg or their module; the sets are chosen so that each branch of the code
has inputs on both sides (values missing and present, at, above and below each threshold).

CHECK_DEADLOCK FALSE stands where a part ends with its clock or its troubles used up, or once its one
question was answered. `MCView` of `MCFlowStore` leaves out what an idle process noted before: every
action assigns it before it reads it. Symmetry permutes processes, requests, destinations and PCEs whose names no action compares,
and no run with symmetry has a liveness property.

Each property of a passing run has a mutant in PROJECT.json: a plausible bug in the mapped code (a dropped
guard, a missing reset, a swapped order) under which TLC finds the property violated.

## 4. Fairness

`FlowStore!Fairness`: jobs run on their intervals, one instance each (`jobs/scheduler.py`), and a
started request or reset goes on; readers finish their read (`Opened`, `Close`): their queries
have time limits. Nobody has to open a page or a connection. FlowDbBusy happens a bounded number
of times: a store that is busy at every try is never cleared, and the code says so itself.

`SiemForward!Fairness`: the tick runs on its interval; `SendNext` is strongly fair because a
tick's time share is not always used up before its first record (each tick starts with a new
share, `EndBatch` ends it); a destination that went down comes back; resends and retention that
started go on. Outages are bounded in number, not in length.

`StoreFairness` of `MCStore`: the archive job and retention run daily (`jobs/scheduler.py:82-83`) and a
started one goes on; a reset waits for open connections for a bounded time. Collectors and the clock
owe nothing.

`OutgoingFairness` of `MCOutgoing`: the minute's dispatch runs and goes on (`DispatchTick`, `DispatchRuns`); the
report job runs and finishes what it claimed (`ReportJob`); the five-minute tick of the rule schedules begins
and every check goes on (`CheckBegin("tick")`, `Check`), and so does a request that a person made
(`Page`, `FleetWorks`). Failures of the PCE and of channels are bounded in number: no fairness makes
a destination answer.

## 5. Proofs

Every theorem is checked by TLAPS for any values of the constants that meet the module's assumption,
which says no more than that the constants have their types and the orderings the settings' schema and
the code's constants give them.

`FlowStoreProofs`, for any sets of collectors, pages, readers and addresses:

- `StoreInOrder` (`StoreIsInOrder`): the types, and the file is deleted only with no connection on it;
- `StoreOfOnePce`, `ReadersOfOnePce` from `StoreInv`. "The file holds one PCE's
  records" is not inductive: a keep rebinds the file by what it verified some steps ago
  (`FreshInv`: until a reset overtakes it, a record of that PCE is still there, so the bound PCE
  is the new address's PCE), a reset relies on being the only one under the lock with the gate
  closed (`LockInv`), and a reader on its PCE staying the store's while it holds a connection
  (`ViewInv`);
- `NoMismatchLeftBehind` from `SwitchInv`: a request submitted against the current revision still
  knows the current address (`RequestInv`), a cycle that could bind an unbound store to an address
  the settings have left exists only while a reset is owed (`CycleInv`), and so does a save
  between a keep's save and its rebind (`KeepInv`). `CycleInv` is where the generation earns its
  place;
- `CurrentDataKept` (`CollectorsKeepCurrentData`), an action property, from `KeepCurrentInv` on top of these: a store
  that stays bound while no PCE is configured has a clearing due or left unfinished (`LeftInv`), so what a
  collector decided to delete can become the configured PCE's again only by way of that clearing
  (`DeleteInv`). The attempt to prove it without its exception found the second half of note 3 of section 6.

`SiemForwardProofs`, for every number of records, batch size, retry limit, DLQ limit and kinds of
record:

- `QueueInOrder` (`QueueIsInOrder`): the types, the cursor never runs ahead of the newest id, and only the run
  fills the queue (`QueueInv`), so that it keeps its limit;
- `AtLeastOnce` (`NothingPassedOver`) from `ForwardInv`: what the cursor is about to pass is done
  (`AdvanceInv`), because the batch holds every stored record between the cursor and its last
  record (`PrefixInv`), what was tried of it comes before what was not (`BatchInv`), and the
  record it stopped at has only finished records before it (`FailureInv`). Retention may delete
  records of the batch at any point;
- `OutageIsNotBlamed` from `OutageInv`: a probe that went through or a recent send is evidence
  that the destination took something;
- `InOrder` (`SentInOrder`), an action property, from the two invariants above;
- `UninterruptedDropsAreCounted` (`DropsAreCounted` while `crashes = 0`) from `CountInv`: the records that left
  the store without an outcome (`Lost`) are at most the counter and the count retention still has in hand. A
  run may deliver a record that retention has counted meanwhile, so the count may be too high, never
  too low: the invariant is an inequality of cardinalities, and each step has to show which side
  moves. The hypothesis is needed, note 4 of section 6.

The lemmas about `FirstN` (`ORDER BY id LIMIT n` returns a prefix) are stated once and cited.

`SiemSwitch`, at the end of the module, for any destinations, PCEs, batch size and number of records, switches, clears
and saves: `NothingIsSkipped` (`SkipsOnlyWhenOvertaken`) from `SkipInv`. "What the cursor has passed was sent or is history"
speaks of one moment between resets; the step that could break it writes what it read several steps, and
perhaps several files, ago. So the invariant carries the file's number along: while it is still the same file, a
place about to be given is not after the newest record and what is before it was stored when it was chosen
(`PlaceInv`), a batch is stored and was sent before the cursor moves over it (`BatchInv`); and between
resets a cursor is absent or the configured PCE's (`CursorInv`), which is why a run gives a new place
only to a destination that has none. Together with `AtLeastOnce`, which is about one file, it says that switches,
clears and the SIEM page cost no record except in the ways note 11 lists.

`CollectCycleProofs`, for every length of days, slices, overlaps and backfills and any number of
troubles:

- `PlansInOrder` (`PlansAreInOrder`): the types, no plan's range is upside down, and an unfinished plan has read
  everything before its progress for each of its sources (`PlanInv`), over resumes, mode changes and hand-started
  backfills;
- `CoverageHonest` (`CoverageIsRead`). What a backfill claims at the end of a day is what it read of
  it since this run began it (`DayInv`), a re-read claims slice by slice (`RereadInv`);
- `NothingBehindWatermark` (`WatermarkLeavesNothing`): a cycle starts at its watermark or at the
  bound its first try left (`CycleInv`), and the clock is never behind either (`ClockInv`);
- `FailuresStayVisible` (`UnreadHasGap`): a gap is resolved only by coverage that holds all of it;
- `LateIsFound` (`RereadFindsLate`) from `NightlyInv`: the day of a night's re-read ended at least its settling time
  ago (`NightInv`), so every query of the re-read comes after the late record did; a backfill has claimed what it
  read of the day it is in (`ClaimInv`), so a slot that counts as covered was not read unclaimed; and while the
  re-read owes the record it has neither finished nor passed its slot, nor will it resume behind it (`LateInv`).

All but the last are one inductive invariant, `CollectInv`: the watermark's part needs the coverage's, and
both need that the running cycle, plan and re-read agree with what was read. `NightlyInv` stands on it.

`AlertRulesProofs`, for any detections, severities, pages, cooldowns and throttles: `RisesAlertOnce`
(`RiseAlertsOnce`: no rise is forgotten, alerts keep to the gate, and a repeat does not alert). None of the
three is inductive. What is needed besides: no stamp and no run is ahead of the clock (`Stamps`); a page that was read stays a lower bound of the rows it was read from, and one evaluation at a time
goes on from the watermark (`Pagewise`), which is where "read, then commit later" becomes provable; what the gate keeps of an alert's times is what the
alerts say (`GateState`); a severity the rule remembers was alerted on or is history (`Remembers`); and the
watermark is past what was alerted on, so that a run does not take for new what an earlier one
alerted on (`PastAlerts`). That the last holds in the middle of an evaluation, while the other job restamps
rows behind it, is the heart of the proof (`CommitRemembers` and the lemmas about `After` and `PageEnd`).

`InteractiveProofs`, for any requests, PCEs, lengths and switches:

- `PulledAreSound` (`PulledStoresAreSound`): a pulled store is open as long as a request reads it and no longer,
  flows and inventory of an answer are of one PCE, and the pull lock is held only by a request at work;
- `AnswersOfConfiguredPce`: `InteractiveSpec => AnswersAreCurrent`, that is, `Interactive` implements `PceAnswers` under
  the mapping of `Answers`. Each action is an answer of the configured PCE, a switch, or a stutter;
- `PredictionsAreCurrent` (`PredictedIsCurrent`): a predicted-block answer is of the configured PCE unless a switch is
  being cleared.

Their inductive invariant `IInv` says of a key that was noted (PCE and generation) that it is either still
right or a clearing is due: within one generation the PCE changes once at most (`NotedOk`); of data read
after the key was noted, that it is of the configured PCE while the key is current (`SourceOk`, for a
request in `ClickOk`, a store in `StoreOk`, the kept result in `ResultOk`); and of a store, that its reference
count is the number of requests that read it and that an open one is kept, read or being filled
(`StoreOk`, `HoldOk`, `KeptOk`). `SourceOk` is where the program's comparison of the key before it
answers earns its place: without the generation, a switch away and back would pass it.

`ArchiveProofs`, for any days, records, connections, retention times and any number of writes, settings changes,
resets and stops: `ArchiveComplete` (`ArchiveIsComplete`) from `ArchiveInv`. The job reads a day, writes its file for
minutes without the lock, and then says that the day is archived. So a row that was read must still be what the
store holds unless the day became stale (`ReadIsWhole`), and the days before a run are not archived, which keeps
retention from their rows (`DaysAreOpen`). What retention deleted lies before its floor (`OwedIsOld`), so that a
later run counts the day as thinned and takes the old file's lines along (`OwedIsKept`): this is where note 8's
exceptions come from, a raised flow_days breaks the first, a reset that gives up the second. A reset is several steps,
with stops and failures between them: a day whose file it moved has its lines aside until the database goes or the day is written
again (`displaced`), and what it has listed and not moved is still there.

`OutgoingProofs`, for any channels, deliveries, reports, schedules, people, hosts and bounds; each part has an invariant of
its own, and a step of `OutgoingNext` is a step of one part and a stutter of the others (`PartsStep`):

- `DeliveriesStaySound` (`DeliveriesAreSound`) from `DispatchInv`: a delivery the run has not come to has no copy at the
  receiver, one in hand has one exactly if the answer was good (`CopiesFit`), and attempts are counted no faster than
  messages go out (`SendsFit`);
- `ReportsStayWhole` (`ReportsKeepTheirPromise`) from `ReportInv` and `ScheduleInv`. Until it is finished, the report the
  job works on is the row's, which nobody deletes because it is running (`JobHasItsRow`); what it read is of its own PCE as
  long as the generation is the one it noted (`ReadsFit`), for which the store must be of the configured PCE or owe a
  clearing (`ClearedInTime`); a directory is removed under a row only if the row has an id that was given again
  (`RemovedRowIsGone`); and a mail was the last thing done for its report (`MailIsLast`). Of a schedule, that every run
  time that made a report lies at or before `last_due` and before the one in hand (`DuesGoUp`), and that a schedule that
  counts has its row (`CountsFromItsRow`);
- `SchedulesStayHarmless` (`SchedulesDoNoHarm`) from `RuleInv`: a writer that may provision or discard the draft, now or
  later, saw it without a foreign change (`ForeignCameLate`), and a check that nobody crossed finds the rule as it left it
  (`UncrossedAreOff`);
- `WritesStayAsConfirmed` (`WritesAreAsConfirmed`) from `FleetInv`, `QuarantineInv` and `RhcInv`. A person within the lock
  knows the mode of the host in hand, unless the console changed it, and has written none of the hosts ahead
  (`BatchFits`); a batch's level has its label on the PCE, and the other labels it read are still the host's, unless the
  console changed them (`QBatchFits`): no lock keeps two batches apart, and what the one relies on is that
  the other's writes keep every label but Quarantine; a run of `enable_rhc` knows what it has written and, while nobody edits the
  firewall settings, what they are (`RunHolds`, `RunKnows`); and after the one late write nobody is about to write
  (`LateIsLast`). The attempt to prove that every write is on record found that rows were told apart by person and host
  only; they carry the confirmation's number since.

Only model-checked, and why:

- `SwitchCompletes`, `EveryRecordIsForwarded`, `ExpiredRowsGo`, `WorkComesToItsEnd`: liveness under fairness is out of
  the prover's reach;
- what an operator over data computes for every input (`OneFilter`, `PolicyIsShownAsItIs`, `PagesTellTheTruth`,
  `RulesDoAsShown`, `ConnectionsStaySound`, `AnswerSaysWhatIsMissing`, `PeriodIsAccountedFor` of `PullsAreSound`): folds and
  recursion over the data need induction theorems with an operator parameter, which the installed provers
  cannot instantiate;
- `DetectionsAreTrue`, `SettingsAreKept`, `DoorIsSound`, `WhatIsReadIsWhole`, `UpgradesAreFaithful`: their parts that have
  steps (`Detection`, `SettingsFile`, `SignIn`, `Tls`, `PceClient`, `Handover`) are not proved, section 8; the others ask
  one question a state and are of the kind above. `PulledAreSound` proves the part of `PullsAreSound` that has steps;
- `DropsAreCounted` after a stop: it does not hold, note 4.

## 6. What the models show beyond the properties that hold

Two runs show a disagreement of the code with its own words:

1. A stop between the deletion of the file and the clearing of the application tables leaves
   nothing by which `finish_pending_switch` could see that the switch is unfinished
   (`FlowStore_clearers`): `services/collect/reset.py:164` deletes first, `:170-172` promises that the next
   collector run finishes it.
2. `_tamper` takes the trigger's own events or, when none of them is tampering, every tampering event of the
   batch (`services/alerts/evaluate.py:233`, `own or tampering`): an immediate rule's alert about one host is
   held back under the known cause of another host's tampering (`AlertMatching_own`), against the comment at `:231`.

The rest came up while modelling. Where a property would be false because of it, the property names it as an
exception, and the history variables of the module say when it applies.

Store and switch:

3. A keep is verified without the lock, and the generation it is bound to is read after the
   verification (`web/routes/system_pce.py:206`). If an earlier switch was interrupted, a
   collector can finish it, and the next cycle can fill the new store, between the two: the keep
   then rebinds the configured PCE's records to another PCE's address.
   `OnePceUnlessOvertaken`, proved, says that there is no other way. A keep that is interrupted between its save and
   its rebind (`:207`) is afterwards taken for a switch, and the kept data is cleared.
   A page that saves a PCE where none was configured clears nothing (`web/routes/system_pce.py:161`, `saved.url and`), and
   `still_wanted` is asked before the wait for open readers (`services/collect/reset.py:162`): after A, B (its clearing
   unfinished), no PCE and A again, a collector that began to finish the switch to B deletes the records of A, which is
   configured again. `CurrentDataKept` says that it takes an unfinished clearing of them.
4. A crash between retention's delete and its count loses the count
   (`services/collect/retention.py:83`): `DropsAreCounted` is checked and proved for uninterrupted service only.
5. `synchronous=NORMAL` (`store/flowdb/db.py:146`): a power cut can roll `flows.sqlite` back while the cursors in
   `app.sqlite` stay ahead. Crashes of the models are stops of the process, which lose no commit.
6. The initial backfill ends at the earliest live start of the sources it reads
   (`services/collect/backfill.py:197-208`). A source whose own cold-start bound is later keeps a
   stretch between the two that neither its cycle nor the backfill reads; no gap says so, and the
   daily re-read reads it only if its day is the last settled one.
7. The archive reader shows a covered day without a finished file as one without traffic
   (`services/archive_read.py:199`), also while the day is stale or being rewritten. If the only stored row of such
   a day moves to another day, the day has no rows left to be listed by (`services/collect/archive.py:119`), is
   never written again and stays so.
8. A reset moves the archive's files aside before it unlinks the database (`store/flowdb/db.py:229-232`), and nothing but the
   PCE's binding makes anyone finish it. A clear of the same PCE that stops, or fails at a rename, in between leaves
   rows and log as they are with the files in `previous-<time>`: days that count as written have no file in the archive, and
   the reader does not look into that folder. `ArchiveIsComplete` then asks for the lines there (`displaced`) until the
   day is written again. It has two other exceptions. Raising flow_days takes thinned days out of `thinned`
   (`services/collect/archive.py:111`), so a rewrite keeps none of the lines whose rows are gone. A
   job that finds the generation moved unlinks the day's path (`:137`): if the reset has not moved
   the archive aside yet, or gives up with FlowDbBusy, that was the day's previous good file.
9. Connections: live rows beside stored ones are filtered with a residual without decisions; `query_flows` cuts at
   `limit + 1` before superseded rows are removed and can under-report that the limit was hit; a refresh keeps the
   first process of a connection, a later merge the later one; growth of a connection that is paired anew can be
   counted too low, never too high; raising flow_days unfreezes rollup days that have lost rows. The frozen days
   are reckoned from the clock (`services/collect/traffic.py:131-132`, `backfill.py:104`, `reread.py:146`), so from UTC midnight
   until the daily retention has run the rows of the newest of them are still stored: late records of such a day, once
   built, are stored, and `refresh_rollups` marks the day clean without them. A day that a backfill read
   whole is rebuilt (`backfill.py:141`). `CleanRollupAddsUp` therefore speaks of the days after the cutoff's and of those read whole. `ingest_gaps` ids
   start again at 1 once retention has emptied the table, and `data_loss` then misses gaps up to its old watermark.

SIEM:

10. "Clear collected data" restarts the SIEM cursors for the same PCE, and `advance` compares only
    the PCE (`store/siem.py:79`): a batch that is out at that moment moves the cursor to an id of the deleted file,
    and the records of the new file up to there are not sent. The same happens to
    a run that starts a cursor between the save of another PCE and the restart of the cursors
    (`services/siem/dispatch.py:240`). `SkipsOnlyWhenOvertaken` names these as the only ways.
11. `run_siem` reads the settings before the generation (`services/siem/dispatch.py:124`, `128`): a
    switch in between goes unnoticed and the run sends under the previous PCE's name. A cursor the
    SIEM page forgot can be written again by a run with an older settings snapshot.

Alerts and detections:

12. A detection run stamps its rows with the time it began (`services/analysis/detect.py:106`), and the
    evaluation reads rows after the watermark's stamp (`store/flowdb/analysis.py:151`). A late pass of the
    backfill job that writes after the traffic job's evaluation moved the watermark past that time is not
    evaluated, although "late detections alert too" (`jobs/scheduler.py:181`). An evaluation that is
    stopped between two pages has the same effect on a detection it had yet to read and that changes
    before the next one. `NoRiseForgotten` counts both as history (`passed`) and shows that nothing else is forgotten.
13. A detection that changes during the evaluation that alerted it is in a later page of that run, where
    it is still new: `_is_new` compares with the watermark the run began with (`services/alerts/evaluate.py:347`,
    `427`). The cooldown holds the second alert back; with a cooldown of 0 (`domain/alertrules.py:60` allows it), or when
    the rule's state is reset in between, it alerts twice at the same severity, although `domain/alerting.py` says
    "not on every repeat". `RepeatsDoNotAlert` has the two exceptions.
14. `evaluate_bandwidth_rule` has no check that there are new rows; `evaluate_system`'s first run reads `max_gap_id`
    twice; `_hold` reports the cooldown's end though the throttle may hold an alert longer; the rule test ignores known
    causes; a count or per-host alert that mixes tampering with other events is held back whole; the immediate
    threshold is per batch of 500 events.
15. Detection: a record exactly at the watermark less OVERLAP, or at midnight, is not judged; a late pass misses records
    that end the next day; fan-out reports one detection per source and run; a late detection between two rows may
    leave two within the dedup gap; a stop between the re-read's end and `queue_late_day` (`jobs/scheduler.py:173-176`)
    means the late pass is never owed (`escaped` names these). The evidence of a blocked surge is the window of the last
    row only; a blocked record stored late makes the hourly cache differ from reading the seven days until it is rebuilt
    (`passed` in `BlockedHistory`). The focus fingerprint `rw|host|port` has no protocol; six tamper events at one moment
    are a regular cycle of 0 minutes.

Writes to the PCE, reports:

16. Rule schedules: nothing keeps the tick, "check now" and the page apart; an expiry that races another writer can drop
    its row with the rule enabled (`early = "crossed"`), against `services/rule_schedules.py:6-7`; a lost answer of
    `set_fields` leaves our own change pending in the draft; an update of the plan during an expiry's check is lost.
17. Quarantine has no lock and no second check of the PCE before it writes; the label's POST is outside its `try`; with
    labels known by href only, two Quarantine labels may be sent. Its preview's pull has no check after it
    (`services/quarantine.py:221`). `increase_rate` takes neither the lock nor the check that progressions take.
18. `enable_rhc` ships an edit of the draft made between its comparison and its provisioning; a run that fails after the
    draft's PUT leaves its own draft, and every later enabling is refused until someone provisions or reverts it.
19. Reports: a removed newest report's id is given again, and a page open on the old one shows the new one; a stop
    leaves an e-mail "sending" and directories behind; two saves of the PCE during one build can mislabel a report.
20. Interactive: a second switch saved while the first one's clearing is pending is left out of the model's properties
    (the generation moves once); `predicted` checks the binding before it waits for the lock; `drop` of both caches has no
    caller. The workbench's keep to a new address (`move_to_new_address`) is in `FlowStore` only.

The filter, policy and exposure:

21. `domain/filter.py:10` says of `to_sql` and `matches` that they "must agree on every spec". Two label conditions of one
    key are ANDed in SQL (`:352-361`) and merged in memory (`:471-481`), and non-ASCII domain accounts are lowered by
    different rules (`:226-234`). `SqlAgrees` excludes both; `SqlAgreesOnEverySpec` is the sentence as it stands, and fails.
22. `policy_diff`: removing an exclusion widens a rule and is not graded as such, adding one is (`domain/policy_diff.py:20`);
    nested groups are not counted, scopes of rule sets not compared. The resolver intersects address sets.
    Exposure: ties between paths follow the order of the search; removing a protocol does not remove an any-protocol entry.
23. Rule usage: a connection whose two ends' records begin in different windows can be counted twice or with one end only.

Access and upgrades:

24. Settings: a hand edit between `update`'s check and the rename is overwritten; one that keeps or rewinds the revision
    can be overwritten after one refused save (`rewound`); a failed write leaves the digest of a body that was never
    saved; an installation that only rescue configured returns to defaults if the file is removed.
25. A sign-in that is being checked while the password changes yields a live session (`late`); two changes ending out of
    order can leave nobody signed in.
26. TLS: the page's renewal and the renewal job share no lock, a stop between key and certificate leaves a pair that does
    not match, `ensure_self_signed` never looks at the key; a request made during an import moves the wrong key.
27. PCE client: `update_rules` takes an absent "rules" for completed; retries inside the session (every method but POST)
    take no token of the budget and do not look at the deadline. Nor does the second POST after a 429 (`pce/client.py:202-210`): after up to 30 s
    of sleep it waits for the budget by the time-out reckoned before the first one and is sent even past the deadline,
    so a query can be submitted by a caller that has run out of time. `DeadlineIsKept` says only that a request goes out in time
    the first time, and that nothing but the deletion follows one that was late; a query that failed leaves its job at the PCE; `probe_pce` does not catch `PceBudgetExhausted`.
28. Upgrade: v12 to v13 adds rules that exclude public addresses even where the operator had switched that off. From 5.x: a
    stop after `settings.create` cannot be resumed and leaves no floors; two schedules for a rule's draft and active
    versions violate a UNIQUE constraint; an event that comes late before the floor is cleared is taken for one 5.x sent;
    ports that do not parse are not among the narrowings reported as lost; destinations with no known source send audit;
    report schedules beyond 100 are cut, and reported as carried. A second events cycle's overlap re-evaluates events 5.x
    had evaluated, against `evaluate.py:266-267` (`EvaluatedOnce` is the sentence as it stands; `NothingUnjudged` has the
    exception).

## 7. Not modelled, and why

- Presentation and wording: rendering of reports, pages' layout, text formats, sockets, SMTP and webhook protocols. They
  are I/O and have no control of their own that a property is about.
- The field-by-field schema of the settings beyond what an upgrade or a save changes; masking and validation of
  credentials, the PCE page's and the SIEM page's connection tests.
- Statistics over real numbers in the detectors; the data-staging, non-admin-group and cross-environment detectors.
- Traffic, bandwidth, volume and system alert rules; the aggregate queries of the reports (SQL over the rows of
  `Connections`); Rule Hit Count's status cache and the polling of the PCE's report.
- Inventory's own tables, the splitting of capped query windows in the collectors (`services/collect/windows.py`), snapshots
  and gaps in retention, loading archived lines into a throw-away store.
- Intervals and the health record of the scheduler, the service lock, the PCE's health probes and the TLS options of its
  session.

PROJECT.json "components" says of each part whether all its operations are modelled.

## 8. Plan

What is left to prove, in the order of its worth:

1. `SettingsFile`: `SettingsAreKept`, from the file, the copy in memory and the forms over hand edits and stops.
2. `Detection`: `DetectionIsComplete`, from the watermark, the overlap and the late days that are owed.
3. `SignIn`, `Tls`, `Handover` and `PceClient`, whose invariants are mostly exceptions named by history.

An abstract specification of forwarding ("at least once, in order") that `SiemForward` implements would say `NothingPassedOver`
and `SentInOrder` in one.
