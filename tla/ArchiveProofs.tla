--------------------------- MODULE ArchiveProofs ---------------------------
(***************************************************************************)
(* What the archive holds, for any lengths of days, retention times and    *)
(* batches, any number of records, writes, settings changes, resets and    *)
(* stops, of resets half-way too: a finished day's file has every row of   *)
(* the store, and what retention deleted is in the archive; where a reset  *)
(* moved the file aside, the folder it moved to has them.                  *)
(***************************************************************************)
EXTENDS Archive, WellFoundedInduction, TLAPS

RowType == [last : {-1} \cup Instants, ver : Nat]
LineType == [row : Rows, last : Instants, ver : Nat]
JobType == [step : {"idle", "next", "read", "write", "finish", "unlink"}, gen : Nat, at : Int, thinned : Int,
            todo : SUBSET Days, day : Days, lines : SUBSET LineType]

\* Retention's record, but for what its page says.
RetShape ==
    /\ ret = [step |-> ret.step, gen |-> ret.gen, cutoff |-> ret.cutoff, after |-> ret.after, conns |-> ret.conns]
    /\ ret.step \in {"idle", "page", "delete"} /\ ret.cutoff \in Int

\* What the steps need of the types beside TypeOK.
Types ==
    /\ rows \in [Rows -> RowType] /\ owed \in [Rows -> RowType]
    /\ file \in [Days -> SUBSET LineType] /\ aside \subseteq LineType
    /\ job \in JobType /\ RetShape
    /\ writes \in Nat /\ generation \in Nat /\ raised \in BOOLEAN /\ withdrawn \subseteq Days /\ displaced \subseteq Days

\* A run began under the present generation or an earlier one; while a reset goes on, under an earlier one.
RunsAreOlder == job.gen <= generation /\ (resetting /\ job.step # "idle" => job.gen < generation)

\* The days a run has before it, and the one it is at, are not archived: retention leaves their rows alone.
AtWork == {"read", "write", "finish", "unlink"}
DaysAreOpen ==
    /\ job.todo \cap Archived = {}
    /\ job.step \in AtWork => log[job.day] # "written" /\ job.day \notin job.todo /\ job.day \notin displaced
    /\ job.step = "write" => \A l \in job.lines : Day(l.last) = job.day

\* Unless a row of the day changed since begin, what the job read has all its rows, and then the file has, unless a
\* reset has begun, which may move it aside.
Unchanged == log[job.day] = "writing" /\ job.day \notin stale
ReadIsWhole ==
    /\ job.step = "write" /\ Unchanged => LinesOf(job.day) \subseteq job.lines
    /\ job.step = "finish" /\ Unchanged /\ job.gen = generation => LinesOf(job.day) \subseteq file[job.day]

\* A row that retention deleted lies before the floor, as long as flow_days was only lowered; so a run that
\* began later counts its day among those that may have been thinned, and keeps its line.
OwedDay(r) == Day(owed[r].last)
Owes(r) == owed[r] # NoRow
OwedIsOld ==
    /\ \A r \in Rows : Owes(r) => rows[r] = NoRow /\ owed[r].last \in Instants
    /\ ~raised => \A r \in Rows : Owes(r) => owed[r].last < Floor
    /\ ~raised /\ ret.step # "idle" => ret.cutoff <= Floor
OwedIsKept ==
    /\ ~raised => \A r \in Rows : Owes(r) =>
         (OwedDay(r) \in job.todo \/ (job.step = "read" /\ OwedDay(r) = job.day) => OwedDay(r) <= job.thinned)
    /\ ~raised /\ job.step = "write" => \A r \in Rows :
         Owes(r) /\ OwedDay(r) = job.day /\ job.day \notin withdrawn => Line(r, owed[r]) \in job.lines \cup aside

FilesInv ==
    /\ TypeOK /\ Types /\ DaysAreOpen /\ ReadIsWhole /\ OwedIsOld /\ OwedIsKept
    /\ ArchivedIsWhole /\ OwedIsArchived
ArchiveInv == FilesInv /\ RunsAreOlder

-----------------------------------------------------------------------------
(* Days, lines and what a step that leaves them alone keeps.               *)

\* A whole day is not later than that of a later instant.
LEMMA DayInOrder ==
    ASSUME NEW a \in Int, NEW b \in Int, a <= b
    PROVE  Day(a) \in Int /\ Day(b) \in Int /\ Day(a) <= Day(b)
<1> DEFINE p == a \div DayLen  q == b \div DayLen
<1>1. DayLen \in Nat /\ DayLen > 0
  BY ArchiveAssumption
<1>2. /\ p \in Int /\ q \in Int
      /\ a = DayLen * p + (a % DayLen) /\ a % DayLen >= 0 /\ a % DayLen \in Int
      /\ b = DayLen * q + (b % DayLen) /\ b % DayLen < DayLen /\ b % DayLen \in Int
  BY <1>1
<1>3. DayLen * p <= b /\ b < DayLen * q + DayLen
  BY <1>1, <1>2
<1> HIDE DEF p, q
<1>4. p <= q
  <2> SUFFICES ASSUME p >= q + 1 PROVE FALSE
    BY <1>2
  <2>1. DayLen * p >= DayLen * (q + 1)
    BY <1>1, <1>2
  <2>2. DayLen * (q + 1) = DayLen * q + DayLen
    BY <1>1, <1>2
  <2> QED BY <1>1, <1>2, <1>3, <2>1, <2>2
<1> QED BY <1>2, <1>4 DEF Day, p, q

LEMMA ProductsInOrder ==
    ASSUME NEW a \in Nat, NEW b \in Nat, NEW n \in Nat, a <= b
    PROVE  a * n <= b * n
OBVIOUS

LEMMA InstantHasDay ==
    ASSUME NEW t \in Instants
    PROVE  Day(t) \in Days
<1>1. MaxNow \in Nat /\ t \in Int /\ 0 <= t /\ t <= MaxNow /\ 0 \in Int /\ MaxNow \in Int
  BY ArchiveAssumption DEF Instants
<1>2. Day(0) = 0
  BY ArchiveAssumption DEF Day
<1>3. Day(0) <= Day(t) /\ Day(t) <= Day(MaxNow) /\ Day(t) \in Int /\ Day(MaxNow) \in Int
  BY <1>1, DayInOrder
<1> QED BY <1>2, <1>3 DEF Days

\* The lines of a day are lines of its rows.
LEMMA LinesAreOfTheDay ==
    ASSUME TypeOK, Types, NEW d \in Days
    PROVE  /\ LinesOf(d) \subseteq LineType
           /\ \A l \in LinesOf(d) : Day(l.last) = d /\ Stored(l.row) /\ l = Line(l.row, rows[l.row])
<1> SUFFICES ASSUME NEW l \in LinesOf(d)
             PROVE  l \in LineType /\ Day(l.last) = d /\ Stored(l.row) /\ l = Line(l.row, rows[l.row])
  OBVIOUS
<1>1. PICK r \in Rows : Stored(r) /\ Day(rows[r].last) = d /\ l = Line(r, rows[r])
  BY DEF LinesOf, RowsOf
<1>2. l.row = r /\ l.last = rows[r].last /\ l.ver = rows[r].ver
  BY <1>1 DEF Line
<1>3. rows[r] \in RowType /\ rows[r].last \in Instants /\ rows[r].ver \in Nat
  BY <1>1 DEF Types, RowType, TypeOK, Stored
<1> QED BY <1>1, <1>2, <1>3 DEF LineType, Line

LEMMA InitArchive == Init => ArchiveInv
<1> SUFFICES ASSUME Init PROVE ArchiveInv
  OBVIOUS
<1>1. 0 \in Days /\ MaxNow \in Nat /\ Now0 \in Instants
  <2>1. 0 \in Instants /\ Now0 \in Instants /\ MaxNow \in Nat
    BY ArchiveAssumption DEF Instants
  <2>2. Day(0) = 0
    BY ArchiveAssumption DEF Day
  <2> QED BY <2>1, <2>2, InstantHasDay
<1>2. TypeOK
  BY <1>1 DEF Init, TypeOK, IdleJob, IdleRet
<1>3. Types
  <2>1. rows \in [Rows -> RowType] /\ owed \in [Rows -> RowType]
    BY DEF Init, RowType, NoRow
  <2>2. file \in [Days -> SUBSET LineType] /\ aside \subseteq LineType
    BY DEF Init
  <2>3. job \in JobType
    BY <1>1 DEF Init, IdleJob, JobType
  <2>4. RetShape
    BY DEF Init, IdleRet, RetShape
  <2> QED BY <2>1, <2>2, <2>3, <2>4 DEF Init, Types
<1>4. \A d \in Days : LinesOf(d) = {}
  BY DEF Init, LinesOf, RowsOf, Stored
<1>5. Archived = {}
  BY DEF Init, Archived
<1>6. DaysAreOpen /\ ReadIsWhole /\ OwedIsOld /\ OwedIsKept /\ ArchivedIsWhole /\ OwedIsArchived
  BY <1>5 DEF Init, DaysAreOpen, ReadIsWhole, OwedIsOld, OwedIsKept, ArchivedIsWhole, OwedIsArchived, IdleJob,
     IdleRet, AtWork, Owes
<1>7. RunsAreOlder
  BY DEF Init, RunsAreOlder, IdleJob
<1> QED BY <1>2, <1>3, <1>6, <1>7 DEF ArchiveInv, FilesInv

-----------------------------------------------------------------------------
(* The clock, the settings and stops.                                      *)

\* What the parts of the invariant say stays so when nothing they speak of changes.
Frame == UNCHANGED <<rows, log, stale, file, aside, withdrawn, displaced, owed>>
LEMMA StoreStands ==
    ASSUME ArchiveInv, Frame
    PROVE  /\ \A d : LinesOf(d)' = LinesOf(d)
           /\ Archived' = Archived /\ ArchivedIsWhole'
           /\ raised' = raised \/ raised' = TRUE => OwedIsArchived'
<1>1. \A d : LinesOf(d)' = LinesOf(d)
  BY DEF Frame, LinesOf, RowsOf, Stored
<1>2. Archived' = Archived
  BY DEF Frame, Archived
<1>3. ArchivedIsWhole'
  BY <1>1, <1>2 DEF Frame, ArchiveInv, FilesInv, ArchivedIsWhole
<1>4. raised' = raised \/ raised' = TRUE => OwedIsArchived'
  BY DEF Frame, ArchiveInv, FilesInv, OwedIsArchived
<1> QED BY <1>1, <1>2, <1>3, <1>4

LEMMA TickArchive == ArchiveInv /\ Tick => FilesInv'
<1> SUFFICES ASSUME ArchiveInv, Tick PROVE FilesInv'
  OBVIOUS
<1> USE DEF ArchiveInv, FilesInv
<1>1. Frame /\ UNCHANGED <<flowDays, generation, resetting, toMove, job, ret, writes, troubles, raised>>
  BY DEF Tick, Frame, store, history
<1>2. now \in Int /\ now' = now + 1 /\ now' \in Instants /\ flowDays \in Nat /\ DayLen \in Nat
  BY ArchiveAssumption DEF Tick, TypeOK, Instants
<1>3. TypeOK'
  BY <1>1, <1>2 DEF Frame, TypeOK, Instants
<1>4. Types'
  BY <1>1 DEF Frame, Types, RetShape
<1>5. DaysAreOpen' /\ ReadIsWhole' /\ ArchivedIsWhole' /\ OwedIsArchived'
  BY <1>1, StoreStands DEF Frame, DaysAreOpen, ReadIsWhole, Unchanged
<1>6. Floor' = Floor + 1 /\ Floor \in Int
  BY <1>1, <1>2 DEF Floor
<1>7. OwedIsOld'
  <2>1. \A r \in Rows : owed[r].last \in Int
    BY ArchiveAssumption DEF Types, RowType, Instants
  <2> QED BY <1>1, <1>6, <2>1 DEF Frame, OwedIsOld, Owes, Types, RetShape
<1>8. OwedIsKept'
  BY <1>1 DEF Frame, OwedIsKept, Owes, OwedDay, Line
<1> QED BY <1>3, <1>4, <1>5, <1>7, <1>8

LEMMA SettingsArchive == ASSUME ArchiveInv, NEW n \in FlowDays, ChangeSettings(n) PROVE FilesInv'
<1> USE DEF ArchiveInv, FilesInv
<1>1. Frame /\ UNCHANGED <<now, generation, resetting, toMove, job, ret, writes>>
  BY DEF ChangeSettings, Frame, store
<1>2. /\ now \in Int /\ flowDays \in Nat /\ flowDays' \in Nat /\ DayLen \in Nat /\ flowDays' \in FlowDays
      /\ raised \in BOOLEAN /\ raised' \in BOOLEAN
      /\ ~raised' => ~raised /\ flowDays' <= flowDays
  <2>1. now \in Int /\ FlowDays \subseteq Nat /\ DayLen \in Nat /\ flowDays \in FlowDays /\ raised \in BOOLEAN
    BY ArchiveAssumption DEF TypeOK, Instants, Types
  <2>2. flowDays' = n /\ raised' = (raised \/ n > flowDays)
    BY DEF ChangeSettings
  <2>3. n \in Nat /\ flowDays \in Nat
    BY <2>1
  <2>4. ~raised' => ~raised /\ ~(n > flowDays)
    BY <2>2, Zenon
  <2>5. raised' \in BOOLEAN
    BY <2>1, <2>2, Zenon
  <2> QED BY <2>1, <2>2, <2>3, <2>4, <2>5
<1>3. TypeOK'
  BY <1>1, <1>2 DEF Frame, TypeOK
<1>4. Types'
  BY <1>1, <1>2 DEF Frame, Types, RetShape
<1>5. DaysAreOpen' /\ ReadIsWhole' /\ ArchivedIsWhole' /\ OwedIsArchived'
  BY <1>1, <1>2, StoreStands DEF Frame, DaysAreOpen, ReadIsWhole, Unchanged
<1>6. Floor \in Int /\ Floor' \in Int /\ (~raised' => Floor' >= Floor)
  <2>1. flowDays * DayLen \in Int /\ flowDays' * DayLen \in Int
    BY <1>2
  <2>2. flowDays' <= flowDays => flowDays' * DayLen <= flowDays * DayLen
    BY <1>2, ProductsInOrder
  <2>3. Floor = now - flowDays * DayLen /\ Floor' = now - flowDays' * DayLen
    BY <1>1 DEF Floor
  <2> QED
    <3> DEFINE f == flowDays * DayLen  g == flowDays' * DayLen
    <3>1. f \in Int /\ g \in Int /\ now \in Int /\ Floor = now - f /\ Floor' = now - g /\ (flowDays' <= flowDays => g <= f)
      BY <1>2, <2>1, <2>2, <2>3
    <3> HIDE DEF f, g
    <3> QED BY <1>2, <3>1
<1>7. OwedIsOld'
  <2>1. \A r \in Rows : owed[r].last \in Int
    BY ArchiveAssumption DEF Types, RowType, Instants
  <2> QED BY <1>1, <1>2, <1>6, <2>1 DEF Frame, OwedIsOld, Owes, Types, RetShape
<1>8. OwedIsKept'
  BY <1>1, <1>2 DEF Frame, OwedIsKept, Owes, OwedDay, Line
<1> QED BY <1>3, <1>4, <1>5, <1>7, <1>8

LEMMA CrashArchive == ArchiveInv /\ Crash => FilesInv'
<1> SUFFICES ASSUME ArchiveInv, Crash PROVE FilesInv'
  OBVIOUS
<1> USE DEF ArchiveInv, FilesInv
<1>1. Frame /\ UNCHANGED <<now, flowDays, generation, writes, raised>> /\ job' = IdleJob /\ ret' = IdleRet /\ resetting' = FALSE
      /\ toMove' = {}
  BY DEF Crash, Frame, store, history
<1>2. 0 \in Days
  BY InstantHasDay, ArchiveAssumption DEF Instants, Day
<1>3. TypeOK'
  BY <1>1, <1>2 DEF Frame, TypeOK, IdleJob, IdleRet
<1>4. Types'
  <2>1. job' \in JobType
    BY <1>1, <1>2 DEF IdleJob, JobType
  <2>2. RetShape'
    BY <1>1 DEF IdleRet, RetShape
  <2> QED BY <1>1, <2>1, <2>2 DEF Frame, Types
<1>5. DaysAreOpen' /\ ReadIsWhole'
  BY <1>1 DEF DaysAreOpen, ReadIsWhole, IdleJob, AtWork
<1>6. OwedIsOld' /\ OwedIsKept'
  BY <1>1 DEF Frame, OwedIsOld, OwedIsKept, Owes, OwedDay, IdleJob, IdleRet, Floor
<1> QED BY <1>1, <1>3, <1>4, <1>5, <1>6, StoreStands

-----------------------------------------------------------------------------
(* Resets.                                                                 *)

LEMMA ResetTurns == ArchiveInv /\ (ResetBegin \/ ResetGivesUp \/ ResetList) => FilesInv'
<1> SUFFICES ASSUME ArchiveInv, ResetBegin \/ ResetGivesUp \/ ResetList PROVE FilesInv'
  OBVIOUS
<1> USE DEF ArchiveInv, FilesInv
<1>1. /\ Frame /\ UNCHANGED <<now, flowDays, job, ret, writes, raised>>
      /\ resetting' \in BOOLEAN /\ toMove' \subseteq Days /\ generation' \in Nat
      /\ \/ generation' = generation + 1
         \/ generation' = generation /\ (resetting' => resetting)
  <2>1. CASE ResetBegin
    BY <2>1 DEF ResetBegin, Frame, store, history, Types, TypeOK
  <2>2. CASE ResetGivesUp
    BY <2>2 DEF ResetGivesUp, Frame, store, history, Types
  <2>3. CASE ResetList
    BY <2>3 DEF ResetList, Frame, store, history, Types, TypeOK
  <2> QED BY <2>1, <2>2, <2>3
<1>2. TypeOK' /\ Types'
  BY <1>1 DEF Frame, TypeOK, Types, RetShape
<1>4. DaysAreOpen' /\ ArchivedIsWhole' /\ OwedIsArchived'
  BY <1>1, StoreStands DEF Frame, DaysAreOpen
<1>5. ReadIsWhole'
  <2>1. generation' = job.gen => generation = job.gen
    BY <1>1 DEF RunsAreOlder, Types, JobType
  <2> QED BY <1>1, <2>1, StoreStands DEF Frame, ReadIsWhole, Unchanged
<1>6. OwedIsOld' /\ OwedIsKept'
  BY <1>1 DEF Frame, OwedIsOld, OwedIsKept, Owes, OwedDay, Floor, Line
<1> QED BY <1>2, <1>4, <1>5, <1>6

\* The file goes where the lines are still found; the run at work, if any, will see the generation moved.
LEMMA MoveArchive == ASSUME ArchiveInv, NEW d \in Days, ResetMove(d) PROVE FilesInv'
<1> USE DEF ArchiveInv, FilesInv
<1>1. /\ UNCHANGED <<now, flowDays, rows, log, stale, generation, resetting, job, ret, writes, troubles, owed, raised, withdrawn>>
      /\ resetting /\ toMove' = toMove \ {d} /\ displaced' = displaced \cup ({d} \cap Archived)
      /\ aside' = aside \cup file[d] /\ file' = [file EXCEPT ![d] = {}]
  BY DEF ResetMove
<1>2. /\ \A e : LinesOf(e)' = LinesOf(e)
      /\ Archived' = Archived
  BY <1>1 DEF LinesOf, RowsOf, Stored, Archived
<1>3. /\ file' \in [Days -> SUBSET LineType] /\ file'[d] = {} /\ aside' \subseteq LineType
      /\ \A e \in Days : e # d => file'[e] = file[e]
      /\ \A e \in Days : file[e] \cup aside \subseteq file'[e] \cup aside'
  BY <1>1 DEF Types
<1>4. TypeOK'
  <2>1. \A e \in Days : \A l \in file'[e] : Day(l.last) = e
    BY <1>3 DEF TypeOK
  <2> QED BY <1>1, <2>1 DEF TypeOK
<1>5. Types'
  BY <1>1, <1>3 DEF Types, RetShape
<1>7. DaysAreOpen'
  <2>1. job.step \in AtWork => job.day \notin Archived
    BY DEF DaysAreOpen, Archived
  <2> QED BY <1>1, <1>2, <2>1 DEF DaysAreOpen
<1>8. ReadIsWhole'
  <2>1. job.step # "idle" => job.gen # generation
    BY <1>1 DEF RunsAreOlder, Types, JobType
  <2> QED BY <1>1, <1>2, <2>1 DEF ReadIsWhole, Unchanged
<1>9. OwedIsOld' /\ OwedIsKept'
  BY <1>1 DEF OwedIsOld, OwedIsKept, Owes, OwedDay, Floor, Line
<1>10. ArchivedIsWhole'
  <2> SUFFICES ASSUME NEW e \in Archived
               PROVE  LinesOf(e) \subseteq IF e \in displaced' THEN aside' ELSE file'[e]
    BY <1>2 DEF ArchivedIsWhole
  <2>1. e \in Days /\ LinesOf(e) \subseteq IF e \in displaced THEN aside ELSE file[e]
    BY DEF ArchivedIsWhole, Archived
  <2> QED BY <1>1, <1>3, <2>1
<1>11. OwedIsArchived'
  <2> SUFFICES ASSUME NEW r \in Rows, Owes(r), ~raised, OwedDay(r) \notin withdrawn
               PROVE  Line(r, owed[r]) \in file'[OwedDay(r)] \cup aside'
    BY <1>1 DEF OwedIsArchived, Owes, OwedDay, Line
  <2>1. Line(r, owed[r]) \in file[OwedDay(r)] \cup aside
    BY DEF OwedIsArchived, Owes, OwedDay
  <2>2. OwedDay(r) \in Days
    BY InstantHasDay DEF OwedIsOld, OwedDay
  <2> QED BY <1>3, <2>1, <2>2
<1> QED BY <1>4, <1>5, <1>7, <1>8, <1>9, <1>10, <1>11

LEMMA ResetArchive == ArchiveInv /\ ResetDone => FilesInv'
<1> SUFFICES ASSUME ArchiveInv, ResetDone PROVE FilesInv'
  OBVIOUS
<1> USE DEF ArchiveInv, FilesInv
<1>1. /\ UNCHANGED <<now, flowDays, file, aside, generation, toMove, job, ret, writes, troubles, owed, raised, withdrawn>>
      /\ resetting' = FALSE /\ displaced' = {}
      /\ job.step # "write" /\ rows' = [r \in Rows |-> NoRow] /\ log' = [d \in Days |-> "none"] /\ stale' = {}
  BY DEF ResetDone
<1>2. \A d : LinesOf(d)' = {}
  BY <1>1 DEF LinesOf, RowsOf, Stored
<1>3. Archived' = {}
  BY <1>1 DEF Archived
<1>4. TypeOK'
  BY <1>1 DEF TypeOK
<1>5. Types'
  <2>1. rows' \in [Rows -> RowType]
    BY <1>1 DEF NoRow, RowType
  <2> QED BY <1>1, <2>1 DEF Types, RetShape
<1>6. DaysAreOpen' /\ ReadIsWhole'
  <2>1. job.step \in AtWork => job.day \in Days
    BY DEF TypeOK
  <2> QED BY <1>1, <1>2, <1>3, <2>1 DEF DaysAreOpen, ReadIsWhole
<1>7. OwedIsOld' /\ OwedIsKept' /\ OwedIsArchived'
  BY <1>1 DEF OwedIsOld, OwedIsKept, OwedIsArchived, Owes, OwedDay, Floor, Line
<1>8. ArchivedIsWhole'
  BY <1>3 DEF ArchivedIsWhole
<1> QED BY <1>4, <1>5, <1>6, <1>7, <1>8

-----------------------------------------------------------------------------
(* A collector writes.                                                     *)

LEMMA UpsertArchive == ASSUME ArchiveInv, NEW r \in Rows, NEW t \in Seen, Upsert(r, t) PROVE FilesInv'
<1> USE DEF ArchiveInv, FilesInv
<1> DEFINE touched == {r} \cup {q \in Rows : Stored(q) /\ Conn[q] = Conn[r]}
           newest == IF t > rows[r].last THEN t ELSE rows[r].last
           before == {Day(rows[q].last) : q \in {p \in touched : Stored(p)}}
<1>1. /\ UNCHANGED <<now, flowDays, log, file, aside, generation, resetting, toMove, job, ret, troubles, raised, withdrawn, displaced>>
      /\ writes' = writes + 1 /\ t <= now /\ owed' = [owed EXCEPT ![r] = NoRow]
      /\ rows' = [q \in Rows |-> IF q = r THEN [last |-> newest, ver |-> writes']
                                  ELSE IF q \in touched THEN [rows[q] EXCEPT !.ver = writes'] ELSE rows[q]]
      /\ stale' = stale \cup {d \in before \cup {Day(newest)} : log[d] # "none"}
  BY DEF Upsert
<1>2. /\ t \in Nat /\ t \in Instants /\ now \in Instants /\ writes \in Nat
      /\ \A q \in Rows : rows[q] \in RowType /\ rows[q].last \in Int
  BY <1>1, ArchiveAssumption DEF Types, RowType, Instants, TypeOK
<1>3. newest \in Instants /\ newest <= now /\ newest >= rows[r].last
  BY <1>1, <1>2 DEF RowType, Instants, TypeOK, NoRow
<1>4. \A q \in Rows :
        /\ q = r => rows'[q] = [last |-> newest, ver |-> writes']
        /\ q # r /\ q \in touched => /\ Stored(q) /\ rows'[q] = [rows[q] EXCEPT !.ver = writes']
                                     /\ rows'[q].last = rows[q].last /\ rows'[q].ver = writes'
        /\ q \notin touched => rows'[q] = rows[q]
  BY <1>1, <1>2 DEF RowType
<1>5. /\ \A q \in Rows : Stored(q) \/ q = r \/ rows'[q] = NoRow
      /\ \A q \in Rows : Stored(q)' => rows'[q].last \in Instants /\ rows'[q].last <= now /\ rows'[q].ver \in 1 .. writes'
  BY <1>1, <1>2, <1>3, <1>4 DEF Stored, TypeOK
<1>6. before \subseteq Days /\ Day(newest) \in Days
  BY <1>2, <1>3, InstantHasDay DEF TypeOK, Stored
<1>a. /\ r \in touched
      /\ \A q \in Rows : q \in touched /\ Stored(q) => Day(rows[q].last) \in before
  OBVIOUS
<1> HIDE DEF touched, newest, before
\* Where nothing was marked, the rows are as they were.
<1>7. ASSUME NEW d \in Days, log[d] # "none", d \notin stale' PROVE LinesOf(d)' = LinesOf(d)
  <2>1. d \notin before /\ d # Day(newest)
    BY <1>1, <1>7
  <2>2. \A q \in Rows : Stored(q)' /\ Day(rows'[q].last) = d <=> Stored(q) /\ Day(rows[q].last) = d
    <3> SUFFICES ASSUME NEW q \in Rows PROVE Stored(q)' /\ Day(rows'[q].last) = d <=> Stored(q) /\ Day(rows[q].last) = d
      OBVIOUS
    <3>1. CASE q = r
      <4>1. rows'[q].last = newest
        <5>1. rows'[r] = [last |-> newest, ver |-> writes']
          BY <1>4
        <5>2. [last |-> newest, ver |-> writes'].last = newest
          OBVIOUS
        <5> QED BY <3>1, <5>1, <5>2
      <4>2. ~(Stored(q) /\ Day(rows[q].last) = d)
        BY <2>1, <3>1, <1>a
      <4> QED BY <2>1, <4>1, <4>2
    <3>2. CASE q # r /\ q \in touched
      BY <2>1, <1>4, <3>2, <1>a
    <3>3. CASE q \notin touched
      BY <1>4, <3>3 DEF Stored
    <3> QED BY <3>1, <3>2, <3>3
  <2>3. \A q \in Rows : Stored(q) /\ Day(rows[q].last) = d => rows'[q] = rows[q]
    <3> SUFFICES ASSUME NEW q \in Rows, Stored(q), Day(rows[q].last) = d PROVE rows'[q] = rows[q]
      OBVIOUS
    <3>1. q \notin touched
      BY <2>1, <1>a
    <3> QED BY <1>4, <3>1
  <2>4. RowsOf(d)' = RowsOf(d)
    BY <2>2 DEF RowsOf
  <2>5. \A q \in RowsOf(d) : Line(q, rows'[q]) = Line(q, rows[q])
    BY <2>3 DEF RowsOf
  <2> QED BY <2>4, <2>5 DEF LinesOf
<1>8. TypeOK'
  <2>1. \A q \in Rows : rows'[q] = NoRow \/ (rows'[q].last \in Instants /\ rows'[q].last <= now /\ rows'[q].ver \in 1 .. writes')
    BY <1>5 DEF Stored
  <2>2. stale' \subseteq Days /\ \A d \in stale' : log[d] # "none"
    BY <1>1, <1>6 DEF TypeOK
  <2> QED BY <1>1, <2>1, <2>2 DEF TypeOK
<1>9. Types'
  <2>1. \A q \in Rows : rows'[q] \in RowType
    BY <1>1, <1>2, <1>3, <1>4 DEF RowType
  <2>2. rows' \in [Rows -> RowType]
    BY <1>1, <2>1
  <2>3. owed' \in [Rows -> RowType]
    BY <1>1 DEF Types, RowType, NoRow
  <2> QED BY <1>1, <1>2, <2>2, <2>3 DEF Types, RetShape
<1>10. Archived' \subseteq Archived
  BY <1>1 DEF Archived
<1>11. DaysAreOpen'
  BY <1>1, <1>10 DEF DaysAreOpen
<1>12. ReadIsWhole'
  <2> SUFFICES ASSUME Unchanged'
               PROVE  /\ job.step = "write" => LinesOf(job.day)' \subseteq job.lines
                      /\ job.step = "finish" /\ job.gen = generation => LinesOf(job.day)' \subseteq file[job.day]
    BY <1>1 DEF ReadIsWhole
  <2>1. job.day \in Days /\ log[job.day] # "none" /\ job.day \notin stale' /\ Unchanged
    BY <1>1 DEF Unchanged, TypeOK
  <2> QED BY <1>1, <1>7, <2>1 DEF ReadIsWhole
<1>13. ArchivedIsWhole'
  <2> SUFFICES ASSUME NEW d \in Archived' PROVE LinesOf(d)' \subseteq IF d \in displaced THEN aside ELSE file[d]
    BY <1>1 DEF ArchivedIsWhole
  <2>1. d \in Days /\ log[d] # "none" /\ d \notin stale' /\ d \in Archived
    BY <1>1, <1>10 DEF Archived
  <2> QED BY <1>7, <2>1 DEF ArchivedIsWhole
<1>14. \A q \in Rows : owed'[q] = NoRow \/ (q # r /\ owed'[q] = owed[q])
  BY <1>1 DEF Types
<1>15. OwedIsOld'
  <2>1. \A q \in Rows : Owes(q)' => rows'[q] = NoRow /\ owed'[q].last \in Instants
    BY <1>14, <1>4, <1>5 DEF OwedIsOld, Owes, Stored
  <2>2. Floor' = Floor
    BY <1>1 DEF Floor
  <2> QED BY <1>1, <1>14, <2>1, <2>2 DEF OwedIsOld, Owes
<1>16. OwedIsKept'
  BY <1>1, <1>14 DEF OwedIsKept, Owes, OwedDay, Line
<1>17. OwedIsArchived'
  BY <1>1, <1>14 DEF OwedIsArchived, Line
<1> QED BY <1>8, <1>9, <1>11, <1>12, <1>13, <1>15, <1>16, <1>17

-----------------------------------------------------------------------------
(* The archive job.                                                        *)

LEMMA ListArchive == ArchiveInv /\ ArchiveList => FilesInv'
<1> SUFFICES ASSUME ArchiveInv, ArchiveList PROVE FilesInv'
  OBVIOUS
<1> USE DEF ArchiveInv, FilesInv
<1>1. /\ Frame /\ UNCHANGED <<now, flowDays, generation, resetting, toMove, ret, writes, troubles, raised>>
      /\ job' = [IdleJob EXCEPT !.step = "next", !.gen = generation, !.at = now,
                                !.thinned = Day(now - flowDays * DayLen),
                                !.todo = {d \in Days \ Archived : RowsOf(d) # {} /\ d < Day(now)}]
  BY DEF ArchiveList, Frame, store, history
<1>2. /\ now \in Int /\ Floor \in Int /\ 0 \in Days
  <2>1. now \in Int /\ flowDays \in Nat /\ DayLen \in Nat /\ 0 \in Instants
    BY ArchiveAssumption DEF TypeOK, Instants
  <2>2. flowDays * DayLen \in Int
    BY <2>1
  <2>3. Day(0) = 0
    BY ArchiveAssumption DEF Day
  <2> QED BY <2>1, <2>2, <2>3, InstantHasDay DEF Floor
<1>3. /\ job'.step = "next" /\ job'.thinned = Day(Floor) /\ job'.day = 0 /\ job'.lines = {} /\ job'.gen = generation
      /\ job'.at = now /\ job'.todo \subseteq Days /\ job'.todo \cap Archived = {}
  BY <1>1 DEF IdleJob, Floor
<1>4. job' \in JobType
  <2>1. Day(Floor) \in Int
    BY <1>2, DayInOrder
  <2> HIDE DEF ArchiveInv, FilesInv
  <2>2. generation \in Nat
    BY DEF ArchiveInv, FilesInv, Types
  <2> QED BY <1>1, <1>2, <2>1, <2>2 DEF JobType, IdleJob, Floor
<1>5. TypeOK' /\ Types'
  BY <1>1, <1>2, <1>3, <1>4 DEF Frame, TypeOK, Types, RetShape
<1>6. DaysAreOpen' /\ ReadIsWhole' /\ ArchivedIsWhole' /\ OwedIsArchived'
  BY <1>1, <1>3, StoreStands DEF DaysAreOpen, ReadIsWhole, AtWork
<1>7. OwedIsOld'
  BY <1>1 DEF Frame, OwedIsOld, Owes, Floor
<1>8. OwedIsKept'
  <2>1. ASSUME ~raised, NEW r \in Rows, Owes(r) PROVE OwedDay(r) <= Day(Floor)
    <3>1. owed[r].last < Floor /\ owed[r].last \in Int
      BY <2>1 DEF OwedIsOld, Instants
    <3> QED BY <1>2, <3>1, DayInOrder DEF OwedDay
  <2>2. \A r : Owes(r)' = Owes(r) /\ OwedDay(r)' = OwedDay(r)
    BY <1>1 DEF Frame, Owes, OwedDay
  <2> QED BY <1>1, <1>3, <2>1, <2>2 DEF OwedIsKept
<1> QED BY <1>5, <1>6, <1>7, <1>8

\* The run takes one of its days.
LEMMA FirstOfDays ==
    ASSUME TypeOK, Types, job.todo # {}
    PROVE  LET d == CHOOSE d \in job.todo : \A e \in job.todo : d <= e IN d \in job.todo
<1> DEFINE R == {ss \in Nat \X Nat : ss[1] < ss[2]}
<1>1. job.todo \subseteq Nat
  <2>1. Day(MaxNow) \in Int
    BY DayInOrder, ArchiveAssumption
  <2> QED BY <2>1 DEF Types, JobType, Days
<1>2. IsWellFoundedOn(R, Nat)
  BY NatLessThanWellFounded DEF OpToRel
<1> HIDE DEF R
<1>3. PICK x \in job.todo : \A y \in job.todo : ~(<<y, x>> \in R)
  BY <1>1, <1>2, WFMin
<1>4. ASSUME NEW y \in job.todo PROVE x <= y
  <2>1. ~(<<y, x>> \in R) /\ y \in Nat /\ x \in Nat
    BY <1>1, <1>3
  <2> QED BY <2>1 DEF R
<1> QED BY <1>3, <1>4

LEMMA BeginArchive == ArchiveInv /\ ArchiveBegin => FilesInv'
<1> SUFFICES ASSUME ArchiveInv, ArchiveBegin PROVE FilesInv'
  OBVIOUS
<1> USE DEF ArchiveInv, FilesInv
<1>1. UNCHANGED <<now, flowDays, rows, file, aside, generation, resetting, toMove, ret, writes, troubles, owed, raised, withdrawn>>
  BY DEF ArchiveBegin
<1>2. \A d : LinesOf(d)' = LinesOf(d)
  BY <1>1 DEF LinesOf, RowsOf, Stored
<1>3. OwedIsOld' /\ OwedIsArchived'
  BY <1>1 DEF OwedIsOld, OwedIsArchived, Owes, Floor, Line
<1>4. CASE job.gen # generation
  <2>1. job' = IdleJob /\ Frame
    BY <1>1, <1>4 DEF ArchiveBegin, Frame
  <2>2. 0 \in Days
    BY InstantHasDay, ArchiveAssumption DEF Instants, Day
  <2>3. TypeOK' /\ Types'
    BY <1>1, <2>1, <2>2 DEF Frame, TypeOK, Types, RetShape, IdleJob, JobType
  <2>4. DaysAreOpen' /\ ReadIsWhole' /\ OwedIsKept'
    BY <2>1 DEF DaysAreOpen, ReadIsWhole, OwedIsKept, IdleJob, AtWork
  <2> QED BY <1>3, <2>1, <2>3, <2>4, StoreStands
<1>5. CASE job.gen = generation
  <2>1. PICK d : /\ d = CHOOSE x \in job.todo : \A e \in job.todo : x <= e
                 /\ job.step = "next" /\ job.todo # {}
                 /\ log' = [log EXCEPT ![d] = "writing"] /\ stale' = stale \ {d} /\ displaced' = displaced \ {d}
                 /\ job' = [job EXCEPT !.step = "read", !.day = d, !.todo = @ \ {d}]
    BY <1>5 DEF ArchiveBegin
  <2>2. d \in job.todo /\ d \in Days /\ d \notin Archived
    <3>1. d \in job.todo
      BY <2>1, FirstOfDays
    <3> QED BY <3>1 DEF DaysAreOpen, Types, JobType
  <2>3. /\ job'.step = "read" /\ job'.day = d /\ job'.todo = job.todo \ {d} /\ job'.thinned = job.thinned
        /\ job'.lines = job.lines /\ job' \in JobType
    BY <2>1, <2>2 DEF Types, JobType
  <2>4. Archived' = Archived
    BY <2>1, <2>2 DEF Archived, TypeOK
  <2>5. TypeOK'
    BY <1>1, <2>1, <2>2, <2>3 DEF TypeOK
  <2>6. Types'
    <3>1. displaced' \subseteq Days /\ withdrawn' \subseteq Days
      BY <1>1, <2>1 DEF Types, ArchiveBegin
    <3> QED BY <1>1, <2>1, <2>3, <3>1 DEF Types, RetShape
  <2>7. DaysAreOpen'
    BY <2>1, <2>2, <2>3, <2>4 DEF DaysAreOpen, TypeOK
  <2>8. ReadIsWhole'
    BY <2>3 DEF ReadIsWhole
  <2>9. ArchivedIsWhole'
    <3>1. \A e \in Archived : e \in displaced' <=> e \in displaced
      BY <2>1, <2>2
    <3> QED BY <1>1, <1>2, <2>4, <3>1 DEF ArchivedIsWhole
  <2>10. OwedIsKept'
    BY <1>1, <2>2, <2>3 DEF OwedIsKept, Owes, OwedDay
  <2> QED BY <1>3, <2>5, <2>6, <2>7, <2>8, <2>9, <2>10
<1> QED BY <1>4, <1>5

\* What is read of a day: its rows, and the lines of rows that retention may have taken from it.
LEMMA ReadArchive == ArchiveInv /\ ArchiveRead => FilesInv'
<1> SUFFICES ASSUME ArchiveInv, ArchiveRead PROVE FilesInv'
  OBVIOUS
<1> USE DEF ArchiveInv, FilesInv
<1>1. /\ Frame /\ UNCHANGED <<now, flowDays, generation, resetting, toMove, ret, writes, troubles, raised>> /\ job.step = "read"
  BY DEF ArchiveRead, Frame, store, history
<1>2. OwedIsOld' /\ ArchivedIsWhole' /\ OwedIsArchived'
  BY <1>1, StoreStands DEF Frame, OwedIsOld, Owes, Floor
<1>3. job.day \in Days
  BY DEF TypeOK
<1>4. CASE job.gen # generation
  <2>1. job' = [job EXCEPT !.step = "unlink"]
    BY <1>4 DEF ArchiveRead
  <2>2. job'.step = "unlink" /\ job'.day = job.day /\ job'.todo = job.todo /\ job'.thinned = job.thinned /\ job' \in JobType
    BY <2>1 DEF Types, JobType
  <2>3. TypeOK' /\ Types'
    BY <1>1, <2>2 DEF Frame, TypeOK, Types, RetShape
  <2>4. DaysAreOpen' /\ ReadIsWhole' /\ OwedIsKept'
    BY <1>1, <2>2, StoreStands DEF Frame, DaysAreOpen, ReadIsWhole, OwedIsKept, AtWork, Owes, OwedDay
  <2> QED BY <1>2, <2>3, <2>4
<1>5. CASE job.gen = generation
  <2>1. job' = [job EXCEPT !.step = "write", !.lines = KeptLines \cup LinesOf(job.day)]
    BY <1>5 DEF ArchiveRead
  <2>2. KeptLines \subseteq LineType /\ KeptLines \subseteq file[job.day]
    BY <1>3 DEF KeptLines, Types
  <2>3. LinesOf(job.day) \subseteq LineType /\ \A l \in LinesOf(job.day) : Day(l.last) = job.day
    BY <1>3, LinesAreOfTheDay
  <2>4. /\ job'.step = "write" /\ job'.day = job.day /\ job'.todo = job.todo /\ job'.thinned = job.thinned
        /\ job'.lines = KeptLines \cup LinesOf(job.day) /\ job' \in JobType
    <3>1. KeptLines \cup LinesOf(job.day) \in SUBSET LineType
      BY <2>2, <2>3
    <3> HIDE DEF ArchiveInv, FilesInv
    <3>2. job \in JobType
      BY DEF ArchiveInv, FilesInv, Types
    <3> DEFINE L == KeptLines \cup LinesOf(job.day)
    <3>3. job' = [job EXCEPT !.step = "write", !.lines = L] /\ L \in SUBSET LineType
      BY <2>1, <3>1
    <3> HIDE DEF L
    <3>4. /\ job'.step = "write" /\ job'.day = job.day /\ job'.todo = job.todo /\ job'.thinned = job.thinned
          /\ job'.lines = L /\ job' \in JobType
      BY <3>2, <3>3 DEF JobType
    <3> QED BY <3>4 DEF L
  <2>5. TypeOK' /\ Types'
    BY <1>1, <2>4 DEF Frame, TypeOK, Types, RetShape
  <2>6. DaysAreOpen'
    <3>1. \A l \in KeptLines : Day(l.last) = job.day
      BY <1>3, <2>2 DEF TypeOK
    <3> QED BY <1>1, <2>3, <2>4, <3>1, StoreStands DEF Frame, DaysAreOpen, AtWork
  <2>7. ReadIsWhole'
    BY <2>4, <1>1, StoreStands DEF ReadIsWhole
  <2>8. OwedIsKept'
    <3> SUFFICES ASSUME ~raised, NEW r \in Rows, Owes(r)
                 PROVE  /\ OwedDay(r) \in job.todo => OwedDay(r) <= job.thinned
                        /\ OwedDay(r) = job.day /\ job.day \notin withdrawn => Line(r, owed[r]) \in job'.lines \cup aside
      BY <1>1, <2>4 DEF Frame, OwedIsKept, Owes, OwedDay, Line
    <3>1. OwedDay(r) \in job.todo => OwedDay(r) <= job.thinned
      BY DEF OwedIsKept
    <3>2. ASSUME OwedDay(r) = job.day, job.day \notin withdrawn PROVE Line(r, owed[r]) \in job'.lines \cup aside
      <4>1. job.day <= job.thinned
        BY <1>1, <3>2 DEF OwedIsKept
      <4>2. Line(r, owed[r]) \in file[job.day] \cup aside
        BY <3>2 DEF OwedIsArchived, Owes, OwedDay
      <4>3. Line(r, owed[r]).row = r /\ ~Stored(r)
        BY DEF Line, OwedIsOld, Stored
      <4> QED BY <2>4, <4>1, <4>2, <4>3 DEF KeptLines
    <3> QED BY <3>1, <3>2
  <2> QED BY <1>2, <2>5, <2>6, <2>7, <2>8
<1> QED BY <1>4, <1>5

LEMMA ReplaceArchive == ArchiveInv /\ ArchiveReplace => FilesInv'
<1> SUFFICES ASSUME ArchiveInv, ArchiveReplace PROVE FilesInv'
  OBVIOUS
<1> USE DEF ArchiveInv, FilesInv
<1>1. /\ UNCHANGED <<now, flowDays, rows, log, stale, aside, generation, resetting, toMove, ret, writes, troubles, owed, raised, withdrawn, displaced>>
      /\ job.step = "write" /\ job.day \in Days /\ job.lines \subseteq LineType /\ file \in [Days -> SUBSET LineType]
  BY DEF ArchiveReplace, history, TypeOK, Types, JobType
<1>2. PICK step \in {"unlink", "finish"} :
        /\ job' = [job EXCEPT !.step = step, !.lines = {}]
        /\ step = "unlink" => file' = file
        /\ step = "finish" => file' = [file EXCEPT ![job.day] = job.lines]
  BY DEF ArchiveReplace
<1>3. /\ job'.step = step /\ job'.day = job.day /\ job'.todo = job.todo /\ job'.thinned = job.thinned /\ job' \in JobType
  <2>1. job \in JobType
    BY DEF Types
  <2> HIDE DEF ArchiveInv, FilesInv
  <2> QED BY <1>2, <2>1 DEF JobType
<1>4. /\ file' \in [Days -> SUBSET LineType]
      /\ \A d \in Days : d # job.day => file'[d] = file[d]
      /\ file'[job.day] = file[job.day] \/ file'[job.day] = job.lines
      /\ step = "finish" => file'[job.day] = job.lines
  BY <1>1, <1>2
<1>5. /\ \A d : LinesOf(d)' = LinesOf(d)
      /\ Archived' = Archived /\ job.day \notin Archived
  BY <1>1 DEF LinesOf, RowsOf, Stored, Archived, DaysAreOpen, AtWork
<1>6. TypeOK'
  <2>1. \A d \in Days : \A l \in file'[d] : Day(l.last) = d
    BY <1>1, <1>4 DEF DaysAreOpen, TypeOK
  <2> QED BY <1>1, <1>2, <1>3, <2>1 DEF TypeOK
<1>7. Types'
  BY <1>1, <1>3, <1>4 DEF Types, RetShape
<1>8. DaysAreOpen'
  BY <1>1, <1>2, <1>3, <1>5 DEF DaysAreOpen, AtWork
<1>9. ReadIsWhole'
  <2>1. Unchanged' = Unchanged
    BY <1>1, <1>3 DEF Unchanged
  <2>2. LinesOf(job.day)' = LinesOf(job.day)
    BY <1>3, <1>5
  <2>3. step = "finish" /\ Unchanged => LinesOf(job.day) \subseteq file'[job.day]
    BY <1>1, <1>4 DEF ReadIsWhole
  <2> QED BY <1>2, <1>3, <2>1, <2>2, <2>3 DEF ReadIsWhole
<1>10. ArchivedIsWhole'
  <2>1. \A d \in Archived : d \in Days /\ file'[d] = file[d]
    BY <1>4, <1>5 DEF Archived
  <2> QED BY <1>1, <1>5, <2>1 DEF ArchivedIsWhole
<1>11. OwedIsOld' /\ OwedIsKept'
  BY <1>1, <1>2, <1>3 DEF OwedIsOld, OwedIsKept, Owes, OwedDay, Floor
<1>12. OwedIsArchived'
  <2> SUFFICES ASSUME NEW r \in Rows, Owes(r), ~raised, OwedDay(r) \notin withdrawn
               PROVE  Line(r, owed[r]) \in file'[OwedDay(r)] \cup aside
    BY <1>1 DEF OwedIsArchived, Owes, OwedDay, Line
  <2>1. Line(r, owed[r]) \in file[OwedDay(r)] \cup aside
    BY DEF OwedIsArchived, Owes, OwedDay
  <2>2. OwedDay(r) \in Days
    BY InstantHasDay DEF OwedIsOld, OwedDay
  <2>3. OwedDay(r) = job.day => Line(r, owed[r]) \in job.lines \cup aside
    BY <1>1 DEF OwedIsKept
  <2> QED BY <1>4, <2>1, <2>2, <2>3
<1> QED BY <1>6, <1>7, <1>8, <1>9, <1>10, <1>11, <1>12

LEMMA FinishArchive == ArchiveInv /\ ArchiveFinish => FilesInv'
<1> SUFFICES ASSUME ArchiveInv, ArchiveFinish PROVE FilesInv'
  OBVIOUS
<1> USE DEF ArchiveInv, FilesInv
<1>1. /\ UNCHANGED <<now, flowDays, rows, stale, file, aside, generation, resetting, toMove, ret, writes, troubles, owed, raised, withdrawn, displaced>>
      /\ job.step = "finish" /\ job.day \in Days
  BY DEF ArchiveFinish, history, TypeOK
<1>2. /\ log' = log \/ (Unchanged /\ job.gen = generation /\ log' = [log EXCEPT ![job.day] = "written"])
      /\ \E step \in {"unlink", "next"} : job' = [job EXCEPT !.step = step] /\ (step = "unlink" => log' = log)
  BY DEF ArchiveFinish, Unchanged
<1>3. PICK step \in {"unlink", "next"} : job' = [job EXCEPT !.step = step] /\ (step = "unlink" => log' = log)
  BY <1>2
<1>4. /\ job'.step = step /\ job'.day = job.day /\ job'.todo = job.todo /\ job'.thinned = job.thinned
      /\ job'.lines = job.lines /\ job' \in JobType
  BY <1>3 DEF Types, JobType
<1>5. /\ \A d : LinesOf(d)' = LinesOf(d)
      /\ Archived' \subseteq Archived \cup {job.day}
      /\ job.day \in Archived' => Unchanged /\ job.gen = generation
  BY <1>1, <1>2 DEF LinesOf, RowsOf, Stored, Archived, TypeOK, DaysAreOpen, AtWork
<1>6. TypeOK'
  <2>1. log' \in [Days -> {"none", "writing", "written"}] /\ \A d \in stale : log'[d] # "none"
    BY <1>1, <1>2 DEF TypeOK
  <2> QED BY <1>1, <1>3, <1>4, <2>1 DEF TypeOK
<1>7. Types'
  BY <1>1, <1>4 DEF Types, RetShape
<1>8. DaysAreOpen'
  <2>1. job.day \notin job.todo
    BY <1>1 DEF DaysAreOpen, AtWork
  <2>2. job.todo \cap Archived' = {}
    BY <1>5, <2>1 DEF DaysAreOpen
  <2>3. step = "unlink" => log'[job.day] # "written"
    BY <1>1, <1>3 DEF DaysAreOpen, AtWork
  <2>4. job.day \notin displaced
    BY <1>1 DEF DaysAreOpen, AtWork
  <2> QED BY <1>1, <1>3, <1>4, <2>1, <2>2, <2>3, <2>4 DEF DaysAreOpen, AtWork
<1>9. ReadIsWhole' /\ OwedIsOld' /\ OwedIsKept' /\ OwedIsArchived'
  BY <1>1, <1>3, <1>4 DEF ReadIsWhole, OwedIsOld, OwedIsKept, OwedIsArchived, Owes, OwedDay, Floor, Line
<1>10. ArchivedIsWhole'
  <2> SUFFICES ASSUME NEW d \in Archived' PROVE LinesOf(d) \subseteq IF d \in displaced THEN aside ELSE file[d]
    BY <1>1, <1>5 DEF ArchivedIsWhole
  <2>1. CASE d = job.day
    <3>1. LinesOf(d) \subseteq file[d]
      BY <1>1, <1>5, <2>1 DEF ReadIsWhole
    <3>2. d \notin displaced
      BY <1>1, <2>1 DEF DaysAreOpen, AtWork
    <3> QED BY <3>1, <3>2
  <2>2. CASE d # job.day
    <3>1. d \in Archived
      BY <1>5, <2>2
    <3> QED BY <3>1 DEF ArchivedIsWhole
  <2> QED BY <2>1, <2>2
<1> QED BY <1>6, <1>7, <1>8, <1>9, <1>10

LEMMA UnlinkArchive == ArchiveInv /\ ArchiveUnlink => FilesInv'
<1> SUFFICES ASSUME ArchiveInv, ArchiveUnlink PROVE FilesInv'
  OBVIOUS
<1> USE DEF ArchiveInv, FilesInv
<1>1. /\ UNCHANGED <<now, flowDays, rows, log, stale, aside, generation, resetting, toMove, ret, writes, troubles, owed, raised, displaced>>
      /\ job.step = "unlink" /\ job.day \in Days /\ job' = IdleJob
      /\ withdrawn' = IF file[job.day] = {} THEN withdrawn ELSE withdrawn \cup {job.day}
      /\ file' = [file EXCEPT ![job.day] = {}]
  BY DEF ArchiveUnlink, TypeOK
<1>2. /\ \A d : LinesOf(d)' = LinesOf(d)
      /\ Archived' = Archived /\ job.day \notin Archived
  BY <1>1 DEF LinesOf, RowsOf, Stored, Archived, DaysAreOpen, AtWork
<1>3. /\ file' \in [Days -> SUBSET LineType] /\ file'[job.day] = {}
      /\ \A d \in Days : d # job.day => file'[d] = file[d]
  BY <1>1 DEF Types
<1>4. 0 \in Days
  BY InstantHasDay, ArchiveAssumption DEF Instants, Day
<1>5. TypeOK'
  <2>1. \A d \in Days : \A l \in file'[d] : Day(l.last) = d
    BY <1>3 DEF TypeOK
  <2> QED BY <1>1, <1>4, <2>1 DEF TypeOK, IdleJob
<1>6. Types'
  <2>1. job' \in JobType
    BY <1>1, <1>4 DEF IdleJob, JobType
  <2>2. withdrawn' \subseteq Days
    BY <1>1 DEF Types
  <2> QED BY <1>1, <1>3, <2>1, <2>2 DEF Types, RetShape
<1>7. DaysAreOpen' /\ ReadIsWhole' /\ OwedIsOld' /\ OwedIsKept'
  BY <1>1 DEF DaysAreOpen, ReadIsWhole, OwedIsOld, OwedIsKept, Owes, OwedDay, Floor, IdleJob, AtWork
<1>8. ArchivedIsWhole'
  <2>1. \A d \in Archived : d \in Days /\ file'[d] = file[d]
    BY <1>2, <1>3 DEF Archived
  <2> QED BY <1>1, <1>2, <2>1 DEF ArchivedIsWhole
<1>9. OwedIsArchived'
  <2> SUFFICES ASSUME NEW r \in Rows, Owes(r), ~raised, OwedDay(r) \notin withdrawn'
               PROVE  Line(r, owed[r]) \in file'[OwedDay(r)] \cup aside
    BY <1>1 DEF OwedIsArchived, Owes, OwedDay, Line
  <2>1. Line(r, owed[r]) \in file[OwedDay(r)] \cup aside
    BY <1>1 DEF OwedIsArchived, Owes, OwedDay
  <2>2. OwedDay(r) \in Days
    BY InstantHasDay DEF OwedIsOld, OwedDay
  <2> QED BY <1>1, <1>3, <2>1, <2>2
<1> QED BY <1>5, <1>6, <1>7, <1>8, <1>9

LEMMA ExpireArchive == ArchiveInv /\ ArchiveExpire => FilesInv'
<1> SUFFICES ASSUME ArchiveInv, ArchiveExpire PROVE FilesInv'
  OBVIOUS
<1> USE DEF ArchiveInv, FilesInv
<1>1. PICK gone :
        /\ file' = [d \in Days |-> IF d \in gone THEN {} ELSE file[d]]
        /\ log' = [d \in Days |-> IF d \in gone THEN "none" ELSE log[d]]
        /\ stale' = stale \ gone
        /\ owed' = [r \in Rows |-> IF owed[r] # NoRow /\ Day(owed[r].last) \in gone THEN NoRow ELSE owed[r]]
  BY DEF ArchiveExpire
<1>2. /\ UNCHANGED <<now, flowDays, rows, aside, generation, resetting, toMove, ret, writes, troubles, raised, withdrawn, displaced>>
      /\ job' = IdleJob
  BY DEF ArchiveExpire
<1>3. /\ \A d : LinesOf(d)' = LinesOf(d)
      /\ Archived' \subseteq Archived \ gone
  BY <1>1, <1>2 DEF LinesOf, RowsOf, Stored, Archived
<1>4. \A r \in Rows : owed'[r] = NoRow \/ (owed'[r] = owed[r] /\ OwedDay(r) \notin gone)
  BY <1>1 DEF OwedDay
<1>5. 0 \in Days
  BY InstantHasDay, ArchiveAssumption DEF Instants, Day
<1>6. TypeOK'
  BY <1>1, <1>2, <1>5 DEF TypeOK, IdleJob
<1>7. Types'
  <2>1. job' \in JobType
    BY <1>2, <1>5 DEF IdleJob, JobType
  <2>2. owed' \in [Rows -> RowType]
    BY <1>1 DEF Types, RowType, NoRow
  <2>3. file' \in [Days -> SUBSET LineType]
    BY <1>1 DEF Types
  <2> QED BY <1>2, <2>1, <2>2, <2>3 DEF Types, RetShape
<1>8. DaysAreOpen' /\ ReadIsWhole' /\ OwedIsKept'
  BY <1>2, <1>4 DEF DaysAreOpen, ReadIsWhole, OwedIsKept, IdleJob, AtWork
<1>9. OwedIsOld'
  <2>1. Floor' = Floor
    BY <1>2 DEF Floor
  <2> QED BY <1>2, <1>4, <2>1 DEF OwedIsOld, Owes
<1>10. ArchivedIsWhole'
  <2>1. \A d \in Archived' : d \in Archived /\ d \in Days /\ file'[d] = file[d]
    BY <1>1, <1>3 DEF Archived
  <2> QED BY <1>2, <1>3, <2>1 DEF ArchivedIsWhole
<1>11. OwedIsArchived'
  <2> SUFFICES ASSUME NEW r \in Rows, owed'[r] # NoRow, ~raised, Day(owed'[r].last) \notin withdrawn
               PROVE  Line(r, owed'[r]) \in file'[Day(owed'[r].last)] \cup aside
    BY <1>2 DEF OwedIsArchived, Line
  <2>1. owed'[r] = owed[r] /\ OwedDay(r) \notin gone /\ Owes(r)
    BY <1>4 DEF Owes
  <2>2. Line(r, owed[r]) \in file[OwedDay(r)] \cup aside
    BY <2>1 DEF OwedIsArchived, Owes, OwedDay
  <2>3. OwedDay(r) \in Days
    BY <2>1, InstantHasDay DEF OwedIsOld, OwedDay
  <2> QED BY <1>1, <2>1, <2>2, <2>3 DEF OwedDay
<1> QED BY <1>6, <1>7, <1>8, <1>9, <1>10, <1>11

-----------------------------------------------------------------------------
(* Retention.                                                              *)

LEMMA LookArchive == ArchiveInv /\ (RetentionBegin \/ RetentionPage) => FilesInv'
<1> SUFFICES ASSUME ArchiveInv, RetentionBegin \/ RetentionPage PROVE FilesInv'
  OBVIOUS
<1> USE DEF ArchiveInv, FilesInv
<1>1. Frame /\ UNCHANGED <<now, flowDays, generation, resetting, toMove, job, writes, troubles, raised>>
  BY DEF RetentionBegin, RetentionPage, Frame, store, history
<1>2. /\ RetShape' /\ (ret'.step # "idle" => ret'.cutoff = Floor \/ (ret.step # "idle" /\ ret'.cutoff = ret.cutoff))
  <2>1. Floor \in Int
    <3>1. now \in Int /\ flowDays \in Nat /\ DayLen \in Nat
      BY ArchiveAssumption DEF TypeOK, Instants
    <3>2. flowDays * DayLen \in Int
      BY <3>1
    <3> QED BY <3>1, <3>2 DEF Floor
  <2>2. CASE RetentionBegin
    <3>1. ret' = [IdleRet EXCEPT !.step = "page", !.gen = generation, !.cutoff = Floor]
      BY <2>2 DEF RetentionBegin, Floor
    <3> QED BY <2>1, <3>1 DEF IdleRet, RetShape
  <2>3. CASE RetentionPage
    <3>1. ret.step = "page" /\ (ret' = IdleRet \/ \E c, a : ret' = [ret EXCEPT !.step = "delete", !.conns = c, !.after = a])
      BY <2>3 DEF RetentionPage
    <3>2. CASE ret' = IdleRet
      BY <3>2 DEF IdleRet, RetShape
    <3>3. CASE \E c, a : ret' = [ret EXCEPT !.step = "delete", !.conns = c, !.after = a]
      <4>1. PICK c, a : ret' = [ret EXCEPT !.step = "delete", !.conns = c, !.after = a]
        BY <3>3
      <4>2. /\ ret = [step |-> ret.step, gen |-> ret.gen, cutoff |-> ret.cutoff, after |-> ret.after, conns |-> ret.conns]
            /\ ret.cutoff \in Int
        BY DEF Types, RetShape
      <4>3. ret' = [step |-> "delete", gen |-> ret.gen, cutoff |-> ret.cutoff, after |-> a, conns |-> c]
        BY <4>1, <4>2
      <4> QED BY <3>1, <4>2, <4>3 DEF RetShape
    <3> QED BY <3>1, <3>2, <3>3
  <2> QED BY <2>2, <2>3
<1>3. TypeOK' /\ Types'
  BY <1>1, <1>2 DEF Frame, TypeOK, Types, RetShape
<1>4. DaysAreOpen' /\ ReadIsWhole' /\ ArchivedIsWhole' /\ OwedIsArchived'
  BY <1>1, StoreStands DEF Frame, DaysAreOpen, ReadIsWhole, Unchanged
<1>5. OwedIsKept'
  BY <1>1 DEF Frame, OwedIsKept, Owes, OwedDay, Line
<1>6. OwedIsOld'
  <2>1. Floor' = Floor /\ Floor \in Int
    <3>1. now \in Int /\ flowDays \in Nat /\ DayLen \in Nat
      BY ArchiveAssumption DEF TypeOK, Instants
    <3>2. flowDays * DayLen \in Int
      BY <3>1
    <3> QED BY <1>1, <3>1, <3>2 DEF Floor
  <2> QED BY <1>1, <1>2, <2>1 DEF Frame, OwedIsOld, Owes
<1> QED BY <1>3, <1>4, <1>5, <1>6

\* Retention takes only rows of archived days, whose files have them.
LEMMA DeleteArchive == ArchiveInv /\ RetentionDelete => FilesInv'
<1> SUFFICES ASSUME ArchiveInv, RetentionDelete PROVE FilesInv'
  OBVIOUS
<1> USE DEF ArchiveInv, FilesInv
<1>1. /\ UNCHANGED <<now, flowDays, log, stale, file, aside, generation, resetting, toMove, job, writes, troubles, raised, withdrawn, displaced>>
      /\ ret.step = "delete"
  BY DEF RetentionDelete
<1>2. CASE ret.gen # generation
  <2>1. Frame /\ ret' = IdleRet
    BY <1>1, <1>2 DEF RetentionDelete, Frame
  <2>2. TypeOK' /\ Types'
    BY <1>1, <2>1 DEF Frame, TypeOK, Types, RetShape, IdleRet
  <2>3. DaysAreOpen' /\ ReadIsWhole' /\ ArchivedIsWhole' /\ OwedIsArchived'
    BY <1>1, <2>1, StoreStands DEF Frame, DaysAreOpen, ReadIsWhole, Unchanged
  <2>4. OwedIsOld' /\ OwedIsKept'
    BY <1>1, <2>1 DEF Frame, OwedIsOld, OwedIsKept, Owes, OwedDay, Floor, IdleRet, Line
  <2> QED BY <2>2, <2>3, <2>4
<1>3. CASE ret.gen = generation
  <2>1. /\ rows' = [r \in Rows |-> IF r \in Doomed THEN NoRow ELSE rows[r]]
        /\ owed' = [r \in Rows |-> IF r \in Doomed THEN rows[r] ELSE owed[r]]
        /\ ret' = [ret EXCEPT !.step = "page", !.conns = {}]
    BY <1>3 DEF RetentionDelete
  <2>2. \A r \in Doomed : /\ r \in Rows /\ Stored(r) /\ rows[r].last < ret.cutoff /\ Day(rows[r].last) \in Archived
                          /\ rows[r].last \in Instants
    BY DEF Doomed, TypeOK, Stored
  <2>3. /\ ret'.step = "page" /\ ret'.cutoff = ret.cutoff /\ RetShape'
    <3>1. /\ ret = [step |-> ret.step, gen |-> ret.gen, cutoff |-> ret.cutoff, after |-> ret.after, conns |-> ret.conns]
          /\ ret.cutoff \in Int
      BY DEF Types, RetShape
    <3>2. ret' = [step |-> "page", gen |-> ret.gen, cutoff |-> ret.cutoff, after |-> ret.after, conns |-> {}]
      BY <2>1, <3>1
    <3> QED BY <3>1, <3>2 DEF RetShape
  <2>4. \A d : LinesOf(d)' \subseteq LinesOf(d)
    BY <2>1 DEF LinesOf, RowsOf, Stored, Line
  <2>5. Archived' = Archived
    BY <1>1 DEF Archived
  <2>6. TypeOK'
    BY <1>1, <2>1, <2>3 DEF TypeOK
  <2>7. Types'
    <3>1. rows' \in [Rows -> RowType] /\ owed' \in [Rows -> RowType]
      BY <2>1 DEF Types, RowType, NoRow
    <3> QED BY <1>1, <2>3, <3>1 DEF Types
  <2>8. DaysAreOpen'
    BY <1>1, <2>5 DEF DaysAreOpen
  <2>9. ReadIsWhole'
    <3>1. LinesOf(job.day)' \subseteq LinesOf(job.day)
      BY <1>1, <2>4
    <3> QED BY <1>1, <3>1 DEF ReadIsWhole, Unchanged
  <2>10. ArchivedIsWhole'
    BY <1>1, <2>4, <2>5 DEF ArchivedIsWhole
  <2>11. \A r \in Rows : \/ r \in Doomed /\ owed'[r] = rows[r] /\ rows'[r] = NoRow
                         \/ r \notin Doomed /\ owed'[r] = owed[r] /\ rows'[r] = rows[r]
    BY <2>1
  <2>12. OwedIsOld'
    <3>1. Floor' = Floor /\ Floor \in Int
      <4>1. now \in Int /\ flowDays \in Nat /\ DayLen \in Nat
        BY ArchiveAssumption DEF TypeOK, Instants
      <4>2. flowDays * DayLen \in Int
        BY <4>1
      <4> QED BY <1>1, <4>1, <4>2 DEF Floor
    <3>2. \A r \in Rows : Owes(r)' => rows'[r] = NoRow /\ owed'[r].last \in Instants
      BY <2>2, <2>11 DEF OwedIsOld, Owes
    <3>3. ~raised => \A r \in Rows : Owes(r)' => owed'[r].last < Floor
      <4>1. ~raised => ret.cutoff <= Floor /\ ret.cutoff \in Int
        BY <1>1 DEF OwedIsOld, Types, RetShape
      <4>2. Instants \subseteq Int
        BY ArchiveAssumption DEF Instants
      <4> SUFFICES ASSUME ~raised, NEW r \in Rows, Owes(r)' PROVE owed'[r].last < Floor
        OBVIOUS
      <4>3. CASE r \in Doomed
        <5>1. owed'[r] = rows[r] /\ rows[r].last < ret.cutoff /\ rows[r].last \in Int
          BY <2>2, <2>11, <4>2, <4>3
        <5> QED BY <3>1, <4>1, <5>1
      <4>4. CASE r \notin Doomed
        BY <2>11, <4>4 DEF OwedIsOld, Owes
      <4> QED BY <4>3, <4>4
    <3> QED BY <1>1, <2>3, <3>1, <3>2, <3>3 DEF OwedIsOld
  \* The days the job has before it are not archived, so nothing was taken from them.
  <2>13. \A r \in Doomed : Day(rows[r].last) \notin job.todo /\ (job.step \in AtWork => Day(rows[r].last) # job.day)
    BY <2>2 DEF DaysAreOpen, Archived
  <2>14. OwedIsKept'
    <3>1. \A r \in Rows : r \in Doomed => OwedDay(r)' = Day(rows[r].last)
      BY <2>11 DEF OwedDay
    <3>2. \A r \in Rows : r \notin Doomed => OwedDay(r)' = OwedDay(r) /\ Owes(r)' = Owes(r) /\ Line(r, owed'[r]) = Line(r, owed[r])
      BY <2>11 DEF OwedDay, Owes
    <3> QED BY <1>1, <2>13, <3>1, <3>2 DEF OwedIsKept, AtWork
  <2>15. OwedIsArchived'
    <3> SUFFICES ASSUME NEW r \in Rows, owed'[r] # NoRow, ~raised, Day(owed'[r].last) \notin withdrawn
                 PROVE  Line(r, owed'[r]) \in file[Day(owed'[r].last)] \cup aside
      BY <1>1 DEF OwedIsArchived, Line
    <3>1. CASE r \in Doomed
      <4>1. owed'[r] = rows[r] /\ Stored(r) /\ Day(rows[r].last) \in Archived
        BY <2>2, <2>11, <3>1
      <4>2. Line(r, rows[r]) \in LinesOf(Day(rows[r].last))
        BY <4>1 DEF LinesOf, RowsOf
      <4> QED BY <4>1, <4>2 DEF ArchivedIsWhole
    <3>2. CASE r \notin Doomed
      BY <2>11, <3>2 DEF OwedIsArchived
    <3> QED BY <3>1, <3>2
  <2> QED BY <2>6, <2>7, <2>8, <2>9, <2>10, <2>12, <2>14, <2>15
<1> QED BY <1>2, <1>3

-----------------------------------------------------------------------------
(* The theorem.                                                            *)

\* While a reset goes on no run begins, and it moves the generation on before anything else.
LEMMA RunsInOrder == ArchiveInv /\ [Next]_vars => RunsAreOlder'
<1> SUFFICES ASSUME ArchiveInv, [Next]_vars PROVE RunsAreOlder'
  OBVIOUS
<1>1. generation \in Nat /\ job \in JobType /\ job.gen \in Nat /\ RunsAreOlder
  BY DEF ArchiveInv, FilesInv, Types, JobType
<1>2. CASE UNCHANGED <<generation, resetting, job>>
  BY <1>2, <1>1 DEF RunsAreOlder
<1>3. CASE UNCHANGED <<generation, resetting>> /\ (job'.gen = job.gen \/ job'.gen = 0) /\ (job.step = "idle" => job'.step = "idle")
  BY <1>3, <1>1 DEF RunsAreOlder
<1>4. CASE UNCHANGED vars
  BY <1>2, <1>4 DEF vars
<1>5. CASE (\E r \in Rows, t \in Seen : Upsert(r, t)) \/ Retention \/ Tick \/ \E n \in FlowDays : ChangeSettings(n)
  BY <1>2, <1>5 DEF Upsert, Retention, RetentionBegin, RetentionPage, RetentionDelete, Tick, ChangeSettings
<1>6. CASE ArchiveJob
  <2>1. CASE ArchiveList
    <3>1. UNCHANGED <<generation, resetting>> /\ ~resetting /\ job'.gen = generation
      BY <2>1 DEF ArchiveList, IdleJob
    <3> QED BY <1>1, <3>1 DEF RunsAreOlder
  <2>2. CASE ArchiveBegin
    <3>1. CASE job.gen # generation
      BY <1>3, <2>2, <3>1 DEF ArchiveBegin, IdleJob
    <3>2. CASE job.gen = generation
      <4>1. PICK d : job' = [job EXCEPT !.step = "read", !.day = d, !.todo = @ \ {d}]
        BY <2>2, <3>2 DEF ArchiveBegin
      <4>2. job'.gen = job.gen /\ job.step = "next" /\ UNCHANGED <<generation, resetting>>
        BY <1>1, <2>2, <4>1 DEF JobType, ArchiveBegin
      <4> QED BY <1>3, <4>2
    <3> QED BY <3>1, <3>2
  <2>3. CASE ArchiveRead
    <3>1. PICK step, ll : job' = [job EXCEPT !.step = step, !.lines = ll]
      <4>1. job' = [job EXCEPT !.step = "unlink"] \/ job' = [job EXCEPT !.step = "write", !.lines = KeptLines \cup LinesOf(job.day)]
        BY <2>3 DEF ArchiveRead
      <4>2. [job EXCEPT !.step = "unlink"] = [job EXCEPT !.step = "unlink", !.lines = job.lines]
        BY <1>1 DEF JobType
      <4> QED BY <4>1, <4>2
    <3>2. job'.gen = job.gen /\ job.step = "read" /\ UNCHANGED <<generation, resetting>>
      BY <1>1, <2>3, <3>1 DEF JobType, ArchiveRead
    <3> QED BY <1>3, <3>2
  <2>4. CASE ArchiveReplace
    <3>1. PICK step : job' = [job EXCEPT !.step = step, !.lines = {}]
      BY <2>4 DEF ArchiveReplace
    <3>2. job'.gen = job.gen /\ job.step = "write" /\ UNCHANGED <<generation, resetting>>
      BY <1>1, <2>4, <3>1 DEF JobType, ArchiveReplace
    <3> QED BY <1>3, <3>2
  <2>5. CASE ArchiveFinish
    <3>1. PICK step : job' = [job EXCEPT !.step = step]
      BY <2>5 DEF ArchiveFinish
    <3>2. job'.gen = job.gen /\ job.step = "finish" /\ UNCHANGED <<generation, resetting>>
      BY <1>1, <2>5, <3>1 DEF JobType, ArchiveFinish
    <3> QED BY <1>3, <3>2
  <2>6. CASE ArchiveUnlink \/ ArchiveExpire
    BY <1>3, <2>6 DEF ArchiveUnlink, ArchiveExpire, IdleJob
  <2> QED BY <1>6, <2>1, <2>2, <2>3, <2>4, <2>5, <2>6 DEF ArchiveJob
<1>7. CASE ResetBegin \/ ResetGoesOn \/ Crash
  <2>1. CASE ResetBegin
    BY <1>1, <2>1 DEF ResetBegin, RunsAreOlder
  <2>2. CASE ResetGoesOn
    <3>1. generation' = generation /\ job' = job /\ (resetting' => resetting)
      BY <2>2 DEF ResetGoesOn, ResetGivesUp, ResetList, ResetMove, ResetDone
    <3> QED BY <1>1, <3>1 DEF RunsAreOlder
  <2>3. CASE Crash
    BY <1>1, <2>3 DEF Crash, RunsAreOlder, IdleJob
  <2> QED BY <1>7, <2>1, <2>2, <2>3
<1> QED BY <1>4, <1>5, <1>6, <1>7 DEF Next

LEMMA ArchiveStep == ArchiveInv /\ [Next]_vars => ArchiveInv'
<1> SUFFICES ASSUME ArchiveInv, [Next]_vars PROVE FilesInv'
  BY RunsInOrder DEF ArchiveInv
<1>1. CASE UNCHANGED vars
  <2>1. UNCHANGED <<now, flowDays, rows, log, stale, file, aside, generation, resetting, toMove, job, ret, writes, troubles, owed,
                   raised, withdrawn, displaced>>
    BY <1>1 DEF vars, store, history
  <2>2. Frame
    BY <2>1 DEF Frame
  <2>3. TypeOK' /\ Types' /\ OwedIsOld' /\ OwedIsKept'
    BY <2>1 DEF ArchiveInv, FilesInv, TypeOK, Types, RetShape, OwedIsOld, OwedIsKept, Owes, OwedDay, Floor, Line
  <2>4. DaysAreOpen' /\ ReadIsWhole' /\ ArchivedIsWhole' /\ OwedIsArchived'
    BY <2>1, <2>2, StoreStands DEF ArchiveInv, FilesInv, DaysAreOpen, ReadIsWhole, Unchanged
  <2> QED BY <2>3, <2>4 DEF FilesInv
<1>2. CASE \E r \in Rows, t \in Seen : Upsert(r, t)
  BY <1>2, UpsertArchive
<1>3. CASE ArchiveJob
  BY <1>3, ListArchive, BeginArchive, ReadArchive, ReplaceArchive, FinishArchive, UnlinkArchive, ExpireArchive DEF ArchiveJob
<1>4. CASE Retention
  BY <1>4, LookArchive, DeleteArchive DEF Retention
<1>5. CASE ResetBegin \/ ResetGoesOn
  BY <1>5, ResetTurns, MoveArchive, ResetArchive DEF ResetGoesOn
<1>6. CASE Tick \/ Crash \/ \E n \in FlowDays : ChangeSettings(n)
  BY <1>6, TickArchive, CrashArchive, SettingsArchive
<1> QED BY <1>1, <1>2, <1>3, <1>4, <1>5, <1>6 DEF Next

\* A finished day's file has every row the store has for it, and what retention deleted is in the archive until the
\* day expires there, the record is stored again, or one of the two exceptions OwedIsArchived names
\* (store/flowdb/archive.py, services/retention.py), for any lengths of days and batches and any retention times.  A
\* reset may stop or fail between any two renames, or after them (store/flowdb/db.py, services/reset.py): then the
\* files it moved aside are the ones that hold it, until the day is written again.
THEOREM ArchiveComplete == Spec => []ArchiveIsComplete
<1>1. ArchiveInv => ArchiveIsComplete
  BY DEF ArchiveInv, FilesInv, ArchiveIsComplete
<1> QED BY <1>1, InitArchive, ArchiveStep, PTL DEF Spec
=============================================================================
