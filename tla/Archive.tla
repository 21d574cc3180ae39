------------------------------ MODULE Archive ------------------------------
(***************************************************************************)
(* Daily archive files against retention: the archive job writes the rows  *)
(* of each closed day to a file without the write lock, retention deletes  *)
(* rows of archived days, and collectors keep changing rows of past days.  *)
(* With settings changes, resets for another PCE and stops.                *)
(*                                                                         *)
(* Flows stand for both kinds (events are the same without connections).   *)
(* Time is counted in instants, DayLen to a UTC day.  A row's content is   *)
(* the number of the write that made it, so a line of a file says which    *)
(* version it holds.  FlowDb's inner steps are FlowStore's; a step under   *)
(* the write lock is one step here, and none happens during a reset.       *)
(***************************************************************************)
EXTENDS Integers, FiniteSets

CONSTANTS
    DayLen,        \* instants of a UTC day
    NumRows,       \* record keys are 1 .. NumRows
    Conn,          \* record key -> its connection
    Batch,         \* FLOW_BATCH
    FlowDays,      \* the values settings.collection.retention.flow_days may take
    ArchiveDays,   \* settings.collection.archive.retention_days (0: files are kept)
    Now0, MaxNow,  \* bound: the clock
    Seen,          \* bound: the last_detected instants that records come with
    MaxWrites,     \* bound: writes of collectors
    MaxTroubles    \* bound: settings changes, resets and stops

Rows == 1 .. NumRows
Instants == 0 .. MaxNow

ASSUME ArchiveAssumption ==
    /\ DayLen \in Nat \ {0} /\ NumRows \in Nat /\ Batch \in Nat \ {0} /\ ArchiveDays \in Nat
    /\ FlowDays \subseteq Nat \ {0} /\ FlowDays # {} /\ DOMAIN Conn = Rows
    /\ ArchiveDays > 0 => \A n \in FlowDays : n <= ArchiveDays
    /\ Now0 \in Nat /\ MaxNow \in Nat /\ Now0 <= MaxNow /\ Seen \subseteq Nat /\ MaxWrites \in Nat /\ MaxTroubles \in Nat

VARIABLES
    now,         \* the clock
    flowDays,    \* settings.collection.retention.flow_days
    rows,        \* the flows table: record key -> [last, ver] or NoRow
    log,         \* archive_log: day -> "none", "writing" or "written"
    stale,       \* the days of archive_log marked stale
    file,        \* data/archive: day -> the lines of its file
    aside,       \* lines of files moved aside by resets
    generation,  \* FlowDb.generation
    resetting,   \* a reset holds the write lock
    toMove,      \* days whose files it listed and has not moved aside yet
    job,         \* the archive job
    ret,         \* the retention job
    writes,      \* (bound) writes so far; the version of the last one
    troubles,    \* (bound)
    owed,        \* (history) record key -> the version retention deleted last, if not stored again
    raised,      \* (history) flow_days was raised
    withdrawn,   \* (history) days whose file the job unlinked when the generation had moved
    displaced    \* (history) days whose file a reset moved aside, while the database stays and the day is not written again

store == <<rows, log, stale, file, aside>>
history == <<owed, raised, withdrawn, displaced>>
vars == <<now, flowDays, store, generation, resetting, toMove, job, ret, writes, troubles, history>>

Day(t) == t \div DayLen
Days == 0 .. Day(MaxNow)
NoRow == [last |-> -1, ver |-> 0]
Stored(r) == rows[r] # NoRow
Line(r, v) == [row |-> r, last |-> v.last, ver |-> v.ver]
RowsOf(d) == {r \in Rows : Stored(r) /\ Day(rows[r].last) = d}

\* Mutation of LinesOf: the range of a day's rows takes in the midnight that ends it.
LinesOfClosed(d) == {Line(r, rows[r]) : r \in {r \in Rows : Stored(r) /\ rows[r].last \in d * DayLen .. (d + 1) * DayLen}}

LinesOf(d) == {Line(r, rows[r]) : r \in RowsOf(d)}

IdleJob == [step |-> "idle", gen |-> 0, at |-> 0, thinned |-> 0, todo |-> {}, day |-> 0, lines |-> {}]
IdleRet == [step |-> "idle", gen |-> 0, cutoff |-> 0, after |-> <<-1, 0>>, conns |-> {}]

\* A store without rows or archive.
Init ==
    /\ now = Now0 /\ flowDays \in FlowDays
    /\ rows = [r \in Rows |-> NoRow]
    /\ log = [d \in Days |-> "none"] /\ stale = {} /\ file = [d \in Days |-> {}] /\ aside = {}
    /\ generation = 0 /\ resetting = FALSE /\ toMove = {}
    /\ job = IdleJob /\ ret = IdleRet
    /\ writes = 0 /\ troubles = 0
    /\ owed = [r \in Rows |-> NoRow] /\ raised = FALSE /\ withdrawn = {} /\ displaced = {}

Trouble == troubles < MaxTroubles /\ troubles' = troubles + 1

\* archived_days: days whose file holds every row the store has for them.
Archived == {d \in Days : log[d] = "written" /\ d \notin stale}

-----------------------------------------------------------------------------
(* upsert_flows.                                                           *)

\* A record of the PCE is stored or refreshed: its last_detected never goes back, every row of its
\* connection may change, and the days these rows were or are on are marked stale.
Upsert(r, t) ==
    /\ ~resetting /\ writes < MaxWrites /\ t <= now
    /\ writes' = writes + 1
    /\ LET touched == {r} \cup {q \in Rows : Stored(q) /\ Conn[q] = Conn[r]}
           last == IF t > rows[r].last THEN t ELSE rows[r].last
           before == {Day(rows[q].last) : q \in {p \in touched : Stored(p)}}
       IN /\ rows' = [q \in Rows |-> IF q = r THEN [last |-> last, ver |-> writes']
                                     ELSE IF q \in touched THEN [rows[q] EXCEPT !.ver = writes'] ELSE rows[q]]
          /\ stale' = stale \cup {d \in before \cup {Day(last)} : log[d] # "none"}
    /\ owed' = [owed EXCEPT ![r] = NoRow]
    /\ UNCHANGED <<now, flowDays, log, file, aside, generation, resetting, toMove, job, ret, troubles, raised, withdrawn, displaced>>

-----------------------------------------------------------------------------
(* run_archive.                                                            *)

\* The settings, the days that have rows and the days that are done, read once.
ArchiveList ==
    /\ job.step = "idle" /\ ~resetting
    /\ job' = [IdleJob EXCEPT !.step = "next", !.gen = generation, !.at = now,
                              !.thinned = Day(now - flowDays * DayLen),
                              !.todo = {d \in Days \ Archived : RowsOf(d) # {} /\ d < Day(now)}]
    /\ UNCHANGED <<now, flowDays, store, generation, resetting, toMove, ret, writes, troubles, history>>

\* begin: until finish the day is not archived.  After a reset, writing() ends the run.
ArchiveBegin ==
    /\ job.step = "next" /\ job.todo # {} /\ ~resetting
    /\ IF job.gen # generation THEN job' = IdleJob /\ UNCHANGED <<log, stale, displaced>>
       ELSE LET d == CHOOSE d \in job.todo : \A e \in job.todo : d <= e IN
            /\ log' = [log EXCEPT ![d] = "writing"] /\ stale' = stale \ {d} /\ displaced' = displaced \ {d}
            /\ job' = [job EXCEPT !.step = "read", !.day = d, !.todo = @ \ {d}]
    /\ UNCHANGED <<now, flowDays, rows, file, aside, generation, resetting, toMove, ret, writes, troubles, owed, raised, withdrawn>>

\* Mutation of KeptLines: a rewrite holds what the store holds.
KeptLinesNone == {}

\* Lines of the day's present file whose rows retention may have dropped.
KeptLines == IF job.day <= job.thinned THEN {l \in file[job.day] : ~Stored(l.row)} ELSE {}

\* _day_lines: one read snapshot on a connection of its own.
ArchiveRead ==
    /\ job.step = "read" /\ ~resetting
    /\ job' = IF job.gen # generation THEN [job EXCEPT !.step = "unlink"]
              ELSE [job EXCEPT !.step = "write", !.lines = KeptLines \cup LinesOf(job.day)]
    /\ UNCHANGED <<now, flowDays, store, generation, resetting, toMove, ret, writes, troubles, history>>

\* A read that finds the generation moved stops (StaleGeneration); otherwise _write_atomic replaces
\* the file, also when the generation moves after the last look.  Then the connection closes.
ArchiveReplace ==
    /\ job.step = "write"
    /\ \/ job.gen # generation /\ job' = [job EXCEPT !.step = "unlink", !.lines = {}] /\ file' = file
       \/ /\ file' = [file EXCEPT ![job.day] = job.lines]
          /\ job' = [job EXCEPT !.step = "finish", !.lines = {}]
    /\ UNCHANGED <<now, flowDays, rows, log, stale, aside, generation, resetting, toMove, ret, writes, troubles, history>>

\* Mutation of ArchiveFinish: the day counts as archived though rows changed meanwhile.
ArchiveFinishAnyway ==
    /\ job.step = "finish" /\ ~resetting
    /\ IF job.gen # generation THEN job' = [job EXCEPT !.step = "unlink"] /\ UNCHANGED <<log, stale>>
       ELSE /\ log' = [log EXCEPT ![job.day] = "written"] /\ stale' = stale \ {job.day}
            /\ job' = [job EXCEPT !.step = "next"]
    /\ UNCHANGED <<now, flowDays, rows, file, aside, generation, resetting, toMove, ret, writes, troubles, history>>

\* finish: a day whose rows changed since begin stays to be written again.
ArchiveFinish ==
    /\ job.step = "finish" /\ ~resetting
    /\ IF job.gen # generation THEN job' = [job EXCEPT !.step = "unlink"] /\ log' = log
       ELSE /\ log' = IF log[job.day] = "writing" /\ job.day \notin stale
                      THEN [log EXCEPT ![job.day] = "written"] ELSE log
            /\ job' = [job EXCEPT !.step = "next"]
    /\ UNCHANGED <<now, flowDays, rows, stale, file, aside, generation, resetting, toMove, ret, writes, troubles, history>>

\* After StaleGeneration the day's path is unlinked, whatever is there now.
ArchiveUnlink ==
    /\ job.step = "unlink"
    /\ withdrawn' = IF file[job.day] = {} THEN withdrawn ELSE withdrawn \cup {job.day}
    /\ file' = [file EXCEPT ![job.day] = {}]
    /\ job' = IdleJob
    /\ UNCHANGED <<now, flowDays, rows, log, stale, aside, generation, resetting, toMove, ret, writes, troubles, owed, raised, displaced>>

\* Mutation of Expiring: files expire whether or not their day has rows.
ExpiringAll == {d \in Days : log[d] # "none" /\ d < Day(job.at - ArchiveDays * DayLen)}

\* Days older than the archive keeps that have no rows left.
Expiring == {d \in Days : log[d] # "none" /\ d < Day(job.at - ArchiveDays * DayLen) /\ RowsOf(d) = {}}

ArchiveExpire ==
    /\ job.step = "next" /\ job.todo = {} /\ ~resetting
    /\ LET gone == IF ArchiveDays = 0 \/ job.gen # generation THEN {} ELSE Expiring IN
       /\ file' = [d \in Days |-> IF d \in gone THEN {} ELSE file[d]]
       /\ log' = [d \in Days |-> IF d \in gone THEN "none" ELSE log[d]]
       /\ stale' = stale \ gone
       /\ owed' = [r \in Rows |-> IF owed[r] # NoRow /\ Day(owed[r].last) \in gone THEN NoRow ELSE owed[r]]
    /\ job' = IdleJob
    /\ UNCHANGED <<now, flowDays, rows, aside, generation, resetting, toMove, ret, writes, troubles, raised, withdrawn, displaced>>

-----------------------------------------------------------------------------
(* run_retention, for flows.                                               *)

RetentionBegin ==
    /\ ret.step = "idle"
    /\ ret' = [IdleRet EXCEPT !.step = "page", !.gen = generation, !.cutoff = now - flowDays * DayLen]
    /\ UNCHANGED <<now, flowDays, store, generation, resetting, toMove, job, writes, troubles, history>>

Before(a, b) == a[1] < b[1] \/ (a[1] = b[1] /\ a[2] < b[2])

Place(r) == <<rows[r].last, r>>

\* expired_page: the next Batch rows before the cutoff, by time and id, read without the lock.
RetentionPage ==
    /\ ret.step = "page" /\ ~resetting
    /\ LET expired == {r \in Rows : Stored(r) /\ rows[r].last < ret.cutoff /\ Before(ret.after, Place(r))}
           page == {r \in expired : Cardinality({q \in expired : Before(Place(q), Place(r))}) < Batch}
       IN ret' = IF page = {} THEN IdleRet
                 ELSE [ret EXCEPT !.step = "delete", !.conns = {Conn[r] : r \in page},
                                  !.after = Place(CHOOSE r \in page : \A q \in page \ {r} : Before(Place(q), Place(r)))]
    /\ UNCHANGED <<now, flowDays, store, generation, resetting, toMove, job, writes, troubles, history>>

\* delete_connections_before: a connection goes when all its rows are older than the cutoff and lie
\* on archived days, asked again under the lock.
Doomed == {r \in Rows : /\ Stored(r) /\ Conn[r] \in ret.conns
                        /\ \A q \in Rows : Stored(q) /\ Conn[q] = Conn[r] =>
                              rows[q].last < ret.cutoff /\ Day(rows[q].last) \in Archived}

RetentionDelete ==
    /\ ret.step = "delete" /\ ~resetting
    /\ IF ret.gen # generation THEN ret' = IdleRet /\ UNCHANGED <<rows, owed>>
       ELSE /\ rows' = [r \in Rows |-> IF r \in Doomed THEN NoRow ELSE rows[r]]
            /\ owed' = [r \in Rows |-> IF r \in Doomed THEN rows[r] ELSE owed[r]]
            /\ ret' = [ret EXCEPT !.step = "page", !.conns = {}]
    /\ UNCHANGED <<now, flowDays, log, stale, file, aside, generation, resetting, toMove, job, writes, troubles, raised, withdrawn, displaced>>

-----------------------------------------------------------------------------
(* Around the jobs.                                                        *)

Tick ==
    /\ now < MaxNow /\ now' = now + 1
    /\ UNCHANGED <<flowDays, store, generation, resetting, toMove, job, ret, writes, troubles, history>>

ChangeSettings(n) ==
    /\ Trouble /\ n # flowDays
    /\ flowDays' = n /\ raised' = (raised \/ n > flowDays)
    /\ UNCHANGED <<now, store, generation, resetting, toMove, job, ret, writes, owed, withdrawn, displaced>>

\* FlowDb.reset, for another PCE or to clear what was collected: the generation moves first, so that long reads stop.
ResetBegin ==
    /\ Trouble /\ ~resetting
    /\ generation' = generation + 1 /\ resetting' = TRUE /\ toMove' = toMove
    /\ UNCHANGED <<now, flowDays, store, job, ret, writes, history>>

\* FlowDbBusy, or an OSError of a rename or an unlink (a listed file that the archive job has unlinked
\* meanwhile): the rows stay, and what was moved stays moved.
ResetGivesUp ==
    /\ resetting
    /\ resetting' = FALSE /\ toMove' = {}
    /\ UNCHANGED <<now, flowDays, store, generation, job, ret, writes, troubles, history>>

\* No connection is open: the archive's files are listed.
ResetList ==
    /\ resetting /\ job.step # "write" /\ toMove = {} /\ \E d \in Days : file[d] # {}
    /\ toMove' = {d \in Days : file[d] # {}}
    /\ UNCHANGED <<now, flowDays, store, generation, resetting, job, ret, writes, troubles, history>>

\* They are renamed into previous-<time>, one after the other.
ResetMove(d) ==
    /\ resetting /\ d \in toMove /\ file[d] # {}
    /\ toMove' = toMove \ {d} /\ displaced' = displaced \cup ({d} \cap Archived)
    /\ aside' = aside \cup file[d] /\ file' = [file EXCEPT ![d] = {}]
    /\ UNCHANGED <<now, flowDays, rows, log, stale, generation, resetting, job, ret, writes, troubles, owed, raised, withdrawn>>

\* Then the database is unlinked and made again.
ResetDone ==
    /\ resetting /\ job.step # "write" /\ toMove = {} /\ \A d \in Days : file[d] = {}
    /\ rows' = [r \in Rows |-> NoRow] /\ log' = [d \in Days |-> "none"] /\ stale' = {}
    /\ resetting' = FALSE /\ displaced' = {}
    /\ UNCHANGED <<now, flowDays, file, aside, generation, toMove, job, ret, writes, troubles, owed, raised, withdrawn>>

\* The process stops: files and tables stay, jobs and an unfinished reset do not.
Crash ==
    /\ Trouble
    /\ job' = IdleJob /\ ret' = IdleRet /\ resetting' = FALSE /\ toMove' = {}
    /\ UNCHANGED <<now, flowDays, store, generation, writes, history>>

ArchiveJob == ArchiveList \/ ArchiveBegin \/ ArchiveRead \/ ArchiveReplace \/ ArchiveFinish
              \/ ArchiveUnlink \/ ArchiveExpire

Retention == RetentionBegin \/ RetentionPage \/ RetentionDelete

\* What a reset that has the lock does next.
ResetGoesOn == ResetGivesUp \/ ResetList \/ (\E d \in Days : ResetMove(d)) \/ ResetDone

Next ==
    \/ \E r \in Rows, t \in Seen : Upsert(r, t)
    \/ ArchiveJob \/ Retention \/ ResetBegin \/ ResetGoesOn
    \/ Tick \/ Crash
    \/ \E n \in FlowDays : ChangeSettings(n)

\* Both jobs run daily and a started one goes on; a reset waits for a bounded time.
Fairness == WF_vars(ArchiveJob) /\ WF_vars(Retention) /\ WF_vars(ResetGoesOn)

Spec == Init /\ [][Next]_vars /\ Fairness

-----------------------------------------------------------------------------
(* archive_read.                                                           *)

Floor == now - flowDays * DayLen

\* archive_files: finished days whose file is there.
Files == {d \in Archived : file[d] # {}}

\* The instants of the day that the reader takes from the archive.
Window(d) == {t \in d * DayLen .. (d + 1) * DayLen - 1 : t < Floor}

\* archive_period shows the day as covered and without traffic: it has no file, comes after the
\* first file, and collection covered it.
ShownEmpty(d) == Window(d) # {} /\ d \notin Files /\ \E e \in Files : e < d

-----------------------------------------------------------------------------
(* What makes it correct.                                                  *)

\* Types; besides, only logged days are stale and a day's file has lines of that day only, so a row
\* that moved to another day is read from there.
TypeOK ==
    /\ now \in Instants /\ flowDays \in FlowDays
    /\ \A r \in Rows : rows[r] = NoRow \/ (rows[r].last \in Instants /\ rows[r].last <= now /\ rows[r].ver \in 1 .. writes)
    /\ log \in [Days -> {"none", "writing", "written"}] /\ stale \subseteq Days
    /\ \A d \in stale : log[d] # "none"
    /\ \A d \in Days : \A l \in file[d] : Day(l.last) = d
    /\ resetting \in BOOLEAN /\ toMove \subseteq Days
    /\ job.step \in {"idle", "next", "read", "write", "finish", "unlink"} /\ job.day \in Days
    /\ ret.step \in {"idle", "page", "delete"}

\* "Days whose file holds every row the database has for them": the present version of each.  The exception: a
\* reset moved the file aside and stopped before the database went, so the log still says written; then the rows
\* are in the folder it moved to.
ArchivedIsWhole == \A d \in Archived : LinesOf(d) \subseteq IF d \in displaced THEN aside ELSE file[d]

\* What retention deleted is in the archive, until its day expires there or the record is stored
\* again: rewriting the day later keeps it.  The exceptions: flow_days was raised (a day thinned
\* under the old value is rewritten from the store alone), or the day's file was unlinked by a job
\* that found the generation moved.
OwedIsArchived ==
    \A r \in Rows :
        owed[r] # NoRow /\ ~raised /\ Day(owed[r].last) \notin withdrawn =>
            Line(r, owed[r]) \in file[Day(owed[r].last)] \cup aside

Expired(r) == Stored(r) /\ \A q \in Rows : Stored(q) /\ Conn[q] = Conn[r] => rows[q].last < Floor

\* A connection past the raw cutoff does not stay in the store: its days are archived and kept
\* archived until retention has been there.
ExpiredRowsGo == \A r \in Rows : []<>(~Expired(r))

\* What the archive is for: a finished day's file has every row of the store, and what retention deleted is in it
\* (archive_days, delete_connections_before), through rewrites, crashes, resets and resets that stop half-way; where
\* one of these moved the day's file aside, the folder it moved to has them.
ArchiveIsComplete == TypeOK /\ ArchivedIsWhole /\ OwedIsArchived

\* "What neither holds stays uncovered ... never shown as no traffic": a day the reader shows as
\* empty had no traffic there that retention deleted relying on the archive.
NeverShownAsNoTraffic ==
    \A d \in Days : ShownEmpty(d) => \A r \in Rows : owed[r].last \notin Window(d)
=============================================================================
