----------------------------- MODULE Connections -----------------------------
(***************************************************************************)
(* Connections in the flow store.  The PCE sends a record per end of a     *)
(* connection, again and again as it grows.  upsert_flows merges what it   *)
(* gets into the rows, pairs the two ends' records anew, and touches only  *)
(* the connections that changed; retention deletes whole connections; the  *)
(* daily rollups are rebuilt from the primary rows.  A query that fills    *)
(* its gaps from the PCE builds its rows without storing them.             *)
(*                                                                         *)
(* The rows of one (source, destination, port, protocol) are modelled:     *)
(* pairing never looks at another.  A record is named by its end and its   *)
(* first_detected (record_key).  Users go the way of processes, outgoing   *)
(* bytes and counted bytes that of incoming bytes and connections.         *)
(***************************************************************************)
EXTENDS Integers, FiniteSets, FiniteSetsExt, Functions, SequencesExt

CONSTANTS
    Sightings,   \* what the PCE may send: [out, first, last, num, bytes, process]
    Arrivals,     \* bound: the sets of sightings that come together
    PairingGap,  \* PAIRING_MAX_GAP_SECONDS
    DayLength,   \* of a UTC day
    LastTime     \* bound: the clock

NoBytes == -1    \* a record without byte data
NoProcess == ""
Untracked == -1  \* counted_connections IS NULL: written before growth was kept

\* first and last are those of the sighting, num is at least 1 here, bytes is NoBytes or more.
ASSUME ConnectionsAssumption ==
    /\ \A s \in Sightings : /\ s.out \in BOOLEAN /\ s.first \in Nat /\ s.last \in s.first .. LastTime
                            /\ s.num \in Nat /\ s.bytes \in Nat \cup {NoBytes} /\ s.process \in STRING
    /\ \A b \in Arrivals : b \subseteq Sightings /\ b # {}
    /\ PairingGap \in Nat /\ DayLength \in Nat \ {0} /\ LastTime \in Nat

VARIABLES
    flowRows,    \* flows: record key -> row
    rollups,     \* rollup_state, and (history) whether the day's rollup adds up to its rows, and whether a backfill
                 \* that read the whole day was the last to touch it: day -> [dirty, built, exact, whole]
    passed       \* the latest day that now - flow_days, the raw-flow cutoff, has been on, -1 before day 0

connectionVars == <<flowRows, rollups, passed>>

RollupDays == 0 .. (LastTime \div DayLength)
DayOf(t) == t \div DayLength
Larger(a, b) == IF a > b THEN a ELSE b
RecordKey(s) == <<s.out, s.first>>

-----------------------------------------------------------------------------
(* One record: what a sighting adds to its row.                            *)

\* _adds_nothing
AddsNothing(row, s) ==
    /\ s.last <= row.last /\ s.num <= row.num /\ s.bytes <= row.own
    /\ ~(s.process # NoProcess /\ row.process = NoProcess)

\* _REFRESH: counts only grow, a known value is never lost; MAX reads NoBytes as less than any count.
Refresh(row, s) ==
    [row EXCEPT !.last = Larger(@, s.last), !.num = Larger(@, s.num), !.own = Larger(@, s.bytes),
                !.process = IF @ = NoProcess THEN s.process ELSE @]
\* _insert: alone in its connection, primary, nothing counted.
Insert(s) ==
    [last |-> s.last, num |-> s.num, own |-> s.bytes, process |-> s.process, conn |-> RecordKey(s), primary |-> TRUE,
     bytes |-> s.bytes, other |-> NoProcess, counted |-> 0]

\* The rows once every sighting of the batch is merged in.
Merged(table, batch) ==
    LET of(k) == {s \in batch : RecordKey(s) = k}
        base(k) == IF k \in DOMAIN table THEN table[k] ELSE Insert(CHOOSE s \in of(k) : TRUE)
    IN [k \in DOMAIN table \cup {RecordKey(s) : s \in batch} |-> FoldSet(LAMBDA s, row : Refresh(row, s), base(k), of(k))]
WrittenKeys(table, batch) == {RecordKey(s) : s \in {x \in batch : RecordKey(x) \in DOMAIN table => ~AddsNothing(table[RecordKey(x)], x)}}

-----------------------------------------------------------------------------
(* Pairing: outbound records in order of first_detected, each takes the    *)
(* first inbound record that is free and within the gap.                   *)

\* ranges_within
RangesWithin(table, a, b) ==
    Larger(a[2], b[2]) - (IF table[a].last < table[b].last THEN table[a].last ELSE table[b].last) <= PairingGap

Outs(table) == {k \in DOMAIN table : k[1]}
Ins(table) == {k \in DOMAIN table : ~k[1]}
Earliest(keys) == CHOOSE k \in keys : \A x \in keys : k[2] <= x[2]

\* The inbound record each matched outbound record takes.
PairsOf(table) ==
    LET take(taken, o) ==
            LET fit == {i \in Ins(table) \ Range(taken) : RangesWithin(table, o, i)}
            IN IF fit = {} THEN taken ELSE [x \in DOMAIN taken \cup {o} |-> IF x = o THEN Earliest(fit) ELSE taken[x]]
    IN FoldLeft(take, <<>>, SetToSortSeq(Outs(table), LAMBDA a, b : a[2] < b[2]))

\* _repair_tuple: the connection each record is in, named by its outbound record or by the record alone.
ConnOf(table) ==
    LET pairs == PairsOf(table)
    IN [k \in DOMAIN table |-> IF k \in Range(pairs) THEN CHOOSE o \in DOMAIN pairs : pairs[o] = k ELSE k]

\* Mutation of Changed: the connection a record has left is not looked at again.
ChangedJoined(table, want, written) ==
    {want[k] : k \in {x \in DOMAIN table : table[x].conn # want[x]}} \cup {want[k] : k \in written}
\* The connections that changed: both sides of every record that moved, and those written to.
Changed(table, want, written) ==
    UNION {{table[k].conn, want[k]} : k \in {x \in DOMAIN table : table[x].conn # want[x]}} \cup {want[k] : k \in written}

ConnectionRows(table, c) == {k \in DOMAIN table : table[k].conn = c}
PrimaryKey(table, c) == LET outs == ConnectionRows(table, c) \cap Outs(table)
                       IN Earliest(IF outs # {} THEN outs ELSE ConnectionRows(table, c))

\* _merge_connection: a primary row with the connection's bytes, each row with the other end's process.
MergeConnection(table, c, k) ==
    LET ks == ConnectionRows(table, c)
        others == {table[x].process : x \in {y \in ks : y[1] # k[1]}}
        primary == k = PrimaryKey(table, c)
    IN [table[k] EXCEPT !.primary = primary,
                       !.other = IF others = {} THEN NoProcess ELSE CHOOSE p \in others : TRUE,
                       !.bytes = IF primary THEN Max({table[x].own : x \in ks}) ELSE table[k].own]
MergeAll(table, conns) == [k \in DOMAIN table |-> IF table[k].conn \in conns THEN MergeConnection(table, table[k].conn, k) ELSE table[k]]

Paired(table, want) == [k \in DOMAIN table |-> [table[k] EXCEPT !.conn = want[k]]]

-----------------------------------------------------------------------------
(* Growth: how many connections a connection has past what is recorded.    *)

\* _settle_untracked: what a connection of older rows holds counts as recorded before the batch changes it.
SettleUntracked(table, written) ==
    LET old == {table[k].conn : k \in {x \in written \cap DOMAIN table : table[x].counted = Untracked}}
    IN [k \in DOMAIN table |->
          IF table[k].conn \in old /\ table[k].counted = Untracked
          THEN [table[k] EXCEPT !.counted = Max({table[x].num : x \in ConnectionRows(table, table[k].conn)})] ELSE table[k]]

CountedOf(row) == IF row.counted = Untracked THEN row.num ELSE row.counted
Total(table, c) == Max({table[k].num : k \in ConnectionRows(table, c)})

\* Mutation of Counted: what is recorded of the primary row alone.
CountedOfPrimary(table, c) == CountedOf(table[PrimaryKey(table, c)])
\* What is recorded of a connection is the most that is recorded of a row of it.
Counted(table, c) == Max({CountedOf(table[k]) : k \in ConnectionRows(table, c)})

\* _record_growth: what a connection has grown by is marked recorded on every row, whether or not an increment
\* is written (a backfill writes none).
GrewBy(table, c) == Larger(0, Total(table, c) - Counted(table, c))
Recorded(table, conns) ==
    [k \in DOMAIN table |->
       IF table[k].conn \in conns
       THEN [table[k] EXCEPT !.counted = Larger(Counted(table, table[k].conn), Total(table, table[k].conn))] ELSE table[k]]

-----------------------------------------------------------------------------
(* Rollups.                                                                *)

PrimariesOf(table, d) == {k \in DOMAIN table : table[k].primary /\ DayOf(table[k].last) = d}
ConnectionsOn(table, d) == MapThenSumSet(LAMBDA k : table[k].num, PrimariesOf(table, d))

\* Mutation of Touched: the day a refreshed record was on before the batch is forgotten.
TouchedNow(before, table, conns, written) == {DayOf(table[k].last) : k \in {x \in DOMAIN table : table[x].conn \in conns}}
\* The days of a batch: where a refreshed record was, and where every row of a changed connection is.
Touched(before, table, conns, written) ==
    {DayOf(before[k].last) : k \in written \cap DOMAIN before}
    \cup {DayOf(table[k].last) : k \in {x \in DOMAIN table : table[x].conn \in conns}}

-----------------------------------------------------------------------------
\* A store may hold rows of a version that kept no growth: one such row, paired with nothing yet.
ConnectionInit ==
    /\ flowRows \in {<<>>} \cup {[k \in {RecordKey(s)} |-> [Insert(s) EXCEPT !.counted = Untracked]] : s \in Sightings}
    /\ rollups = [d \in RollupDays |-> LET some == \E k \in DOMAIN flowRows : DayOf(flowRows[k].last) = d
                                 IN [dirty |-> some, built |-> FALSE, exact |-> ~some, whole |-> FALSE]]
    /\ passed = -1

\* upsert_flows before it records growth: the rows, and the connections that changed.
AfterBatch(batch) ==
    LET written == WrittenKeys(flowRows, batch)
        merged == Merged(SettleUntracked(flowRows, written), batch)
        want == ConnOf(merged)
        conns == Changed(merged, want, written)
        table == MergeAll(Paired(merged, want), conns)
    IN [rows |-> table, conns |-> {c \in conns : ConnectionRows(table, c) # {}}, written |-> written]

\* What a row change does to the rollups: the days of the batch are marked dirty.
RollupsAfter(table, days) ==
    [d \in RollupDays |-> [rollups[d] EXCEPT !.dirty = @ \/ d \in days, !.whole = @ /\ d \notin days,
                                            !.exact = @ /\ ConnectionsOn(table, d) = ConnectionsOn(flowRows, d)]]

\* rebuild_rollup
Rebuilt(state) == [state EXCEPT !.dirty = FALSE, !.built = TRUE, !.exact = TRUE]

\* refresh_rollups: a day at or before the cutoff's that was built is left as it is, whether or not retention has
\* been there; today may be left for later.
Refreshed(states, frozenThrough, today, todayToo) ==
    [d \in RollupDays |->
       IF ~states[d].dirty THEN states[d]
       ELSE IF d <= frozenThrough /\ states[d].built THEN [states[d] EXCEPT !.dirty = FALSE]
       ELSE IF d < today \/ ~states[d].built \/ todayToo THEN Rebuilt(states[d]) ELSE states[d]]

\* At the end of a cycle or a re-read.  The cutoff is that of the job's clock, which may have been read a while ago.
RefreshRollups ==
    \E frozenThrough \in -1 .. passed, today \in RollupDays, todayToo \in BOOLEAN :
       /\ rollups' = Refreshed(rollups, frozenThrough, today, todayToo)
       /\ rollups' # rollups /\ UNCHANGED <<flowRows, passed>>

\* Mutation of BuiltWhole: a day past the cutoff is left to refresh_rollups.
BuiltWholeLeft(states, d) == [states EXCEPT ![d].whole = TRUE]
BuiltWhole(states, d) == [states EXCEPT ![d] = [Rebuilt(@) EXCEPT !.whole = TRUE]]

\* The last piece of a day that a backfill reads from its midnight on refreshes the rollups; a day past the cutoff
\* is then rebuilt, since a cycle may have built it between two pieces.
EndsPastDay(touched) ==
    \E frozenThrough \in 0 .. passed, todayToo \in BOOLEAN : \E d \in 0 .. frozenThrough :
       rollups' = BuiltWhole(Refreshed(touched, frozenThrough, frozenThrough + 1, todayToo), d)

\* upsert_flows, one transaction: of a cycle, a re-read or a piece of a backfill; a backfill's last piece may be empty.
UpsertFlows ==
    \E batch \in Arrivals \cup {{}} :
       LET b == AfterBatch(batch)
           touched == RollupsAfter(b.rows, Touched(flowRows, b.rows, b.conns, b.written))
       IN /\ flowRows' = Recorded(b.rows, b.conns)
          /\ \/ b.written # {} /\ rollups' = touched
             \/ EndsPastDay(touched)
          /\ UNCHANGED passed

\* The clock goes on, or flow_days is lowered; it is a day at least.
CutoffMoves ==
    /\ passed' \in passed + 1 .. DayOf(LastTime) - 1
    /\ UNCHANGED <<flowRows, rollups>>

\* Mutation of DoomedConnections: a row goes by its own date.
DoomedByDate(table, cutoff, archived) == {k \in DOMAIN table : table[k].last < cutoff /\ DayOf(table[k].last) \in archived}
\* Whole connections go, when their newest row is old and every row lies on an archived day.
DoomedConnections(table, cutoff, archived) ==
    {k \in DOMAIN table : \A x \in ConnectionRows(table, table[k].conn) : table[x].last < cutoff /\ DayOf(table[x].last) \in archived}

\* delete_connections_before; a day is archived as the archive stands.
DeleteConnectionsBefore ==
    \E cutoff \in 1 .. LastTime, archived \in SUBSET RollupDays :
       LET gone == DoomedConnections(flowRows, cutoff, archived)
           left == Restrict(flowRows, DOMAIN flowRows \ gone)
       IN /\ DayOf(cutoff) <= passed /\ gone # {}
          /\ flowRows' = left /\ passed' = passed
          /\ rollups' = [d \in RollupDays |-> [RollupsAfter(left, {})[d] EXCEPT !.whole = @ /\ d > DayOf(cutoff)]]

ConnectionNext == UpsertFlows \/ RefreshRollups \/ CutoffMoves \/ DeleteConnectionsBefore

-----------------------------------------------------------------------------
(* A query that fills its gaps: rows built from what the PCE sent and what *)
(* is stored (_live_rows).                                                 *)

RowView(table, k) ==
    [key |-> k, last |-> table[k].last, num |-> table[k].num, bytes |-> table[k].bytes,
     process |-> table[k].process, other |-> table[k].other]
StoredView(table) == {RowView(table, k) : k \in {x \in DOMAIN table : table[x].primary}}

\* merge_sightings: two copies of one record, the later one's process first.
MergeSightings(a, b) ==
    LET later == IF b.last >= a.last THEN b ELSE a
        earlier == IF b.last >= a.last THEN a ELSE b
    IN [last |-> later.last, num |-> Larger(a.num, b.num), own |-> Larger(a.own, b.own),
        process |-> IF later.process # NoProcess THEN later.process ELSE earlier.process]
AsRecord(s) == [last |-> s.last, num |-> s.num, own |-> s.bytes, process |-> s.process]
\* _stored_records: the records the rows were stored from.
StoredRecord(row) == [last |-> row.last, num |-> row.num, own |-> row.own, process |-> row.process]

\* _row_from_pce
RowFromPce(records, k, partner) ==
    [key |-> k, last |-> records[k].last, num |-> records[k].num,
     bytes |-> Max({records[x].own : x \in {k} \cup partner}), process |-> records[k].process,
     other |-> IF partner = {} THEN NoProcess ELSE LET p == CHOOSE x \in partner : TRUE IN records[p].process]

\* _live_rows and what query_flows shows of the store beside them; a tuple with nothing new is left to the store.
LiveView(table, fetched) ==
    LET stored == [k \in DOMAIN table |-> StoredRecord(table[k])]
        of(k) == {s \in fetched : RecordKey(s) = k}
        base(k) == IF k \in DOMAIN table THEN stored[k] ELSE AsRecord(CHOOSE s \in of(k) : TRUE)
        records == [k \in DOMAIN table \cup {RecordKey(s) : s \in fetched} |->
                      FoldSet(LAMBDA s, r : MergeSightings(r, AsRecord(s)), base(k), of(k))]
        pairs == PairsOf(records)
    IN IF records = stored THEN StoredView(table)
       ELSE {RowFromPce(records, k, IF k \in DOMAIN pairs THEN {pairs[k]} ELSE {}) : k \in DOMAIN records \ Range(pairs)}

-----------------------------------------------------------------------------
\* The store's rows are what pairing and completing all of them from scratch would make of them, whatever the
\* order in which records came and connections were deleted: only changed connections are touched (_repair_tuple).
ConnectionsAsFromScratch ==
    flowRows = MergeAll(Paired(flowRows, ConnOf(flowRows)), {ConnOf(flowRows)[k] : k \in DOMAIN flowRows})

\* A rollup that is not marked dirty adds up to the day's connections: of a day after the cutoff's, and of an earlier
\* one that a backfill read whole and nothing has changed since.  The exception is the code's: late rows of a built
\* day that the cutoff has reached are stored, and the day is marked clean without them.
CleanRollupAddsUp ==
    \A d \in RollupDays : ~rollups[d].dirty /\ (d > passed \/ rollups[d].whole) => rollups[d].exact

\* A query that reads a gap at the PCE shows what it would show had the records been stored first, a connection
\* whose ends are half stored and half at the PCE included (_live_rows).
LiveAsIfStored(fetched, b) == LiveView(flowRows, fetched) = StoredView(b.rows)

\* No connection is recorded as growth twice: a batch records at most what its records brought, also when
\* pairing joins rows whose counts were recorded separately (_record_growth).
GrowthIsNew(b) ==
    LET before(k) == IF k \in DOMAIN flowRows THEN flowRows[k].num ELSE 0
    IN MapThenSumSet(LAMBDA c : GrewBy(b.rows, c), b.conns)
         <= MapThenSumSet(LAMBDA k : b.rows[k].num - before(k), DOMAIN b.rows)

\* What the store shows of a connection does not depend on how its records came to it: in which order, in which
\* batches, or not stored yet at all (upsert_flows, refresh_rollups, delete_connections_before, _live_rows).
ConnectionsAreSound ==
    /\ ConnectionsAsFromScratch /\ CleanRollupAddsUp
    /\ \A batch \in Arrivals : LET b == AfterBatch(batch) IN LiveAsIfStored(batch, b) /\ GrowthIsNew(b)
=============================================================================
