---------------------------- MODULE SiemForward ----------------------------
(***************************************************************************)
(* SIEM forwarding of one source to one destination: the dispatch run with *)
(* its cursor, batches, head retries and probes, the dead-letter queue and *)
(* its resends and purges, and the retention that deletes records behind   *)
(* its back.  A record is its id; what a record and the destination do to  *)
(* a send is given by sets of ids and by whether the destination is up.    *)
(***************************************************************************)
EXTENDS Integers, FiniteSets

CONSTANTS
    MaxId,          \* bound: records ever stored
    BatchSize,      \* dest.batch_size
    Retries,        \* dest.max_retries
    Stuck,          \* max_retries * STUCK_FACTOR
    Hard,           \* max_retries * HARD_FACTOR
    Probe,          \* PROBE
    DlqMax,         \* siem.dlq_max_per_dest
    MaxDead,        \* bound: lines ever put in the DLQ
    Unformattable,  \* ids whose format_record raises
    Refused,        \* ids the destination refuses for good (4xx, datagram too large)
    Poison,         \* ids every send of which fails in a way worth retrying
    SentBefore,     \* ids at or before the cursor's floor time (sent by 5.x)
    MaxOutages,     \* bound: times the destination goes down
    MaxRetentions,  \* bound: retention runs that delete something
    MaxPurges,      \* bound: resends and purges of the DLQ
    MaxCrashes      \* bound: stops of the service

ASSUME SiemForwardAssumption ==
    /\ MaxId \in Nat /\ DlqMax \in Nat /\ MaxDead \in Nat
    /\ BatchSize \in Nat \ {0} /\ Probe \in Nat \ {0}
    /\ Retries \in Nat \ {0} /\ Stuck \in Nat /\ Hard \in Nat
    /\ Retries <= Stuck /\ Stuck <= Hard
    /\ MaxOutages \in Nat /\ MaxRetentions \in Nat /\ MaxPurges \in Nat /\ MaxCrashes \in Nat

None == 0           \* no record: record ids start at 1

VARIABLES
    newest,     \* the highest id given so far (AUTOINCREMENT: never given again)
    live,       \* ids of the records in the store
    up,         \* the destination answers
    last,       \* siem_cursor.last_id
    head,       \* siem_cursor.head_id: the record whose failures are counted
    attempts,   \* siem_cursor.head_attempts
    floor,      \* siem_cursor.floor_time is set
    recent,     \* last_sent_at is within RECENT_UP
    dropped,    \* siem_cursor.dropped
    dlq,        \* siem_dlq: lines <<dead id, record id>>
    pc,         \* the dispatch run
    batch,      \* the records it read
    todo,       \* those not tried yet
    consumed,   \* the cursor position the batch has earned
    payloads,   \* the records of the batch that were formatted
    out,        \* the records handed to the transport and not confirmed yet
    failure,    \* the record the batch stopped at
    full,       \* the batch stopped because the DLQ has no room
    probed,     \* the later record that went through
    resend,     \* the lines a DLQ resend read, and its step
    counted,    \* what retention counted and has not recorded yet
    delivered,  \* (history) records the destination took
    dead,       \* (history) records ever put in the DLQ
    skipped,    \* (history) records passed over because 5.x had sent them
    gaveUp,     \* (history) a head failed Hard times
    lines,      \* (history) lines ever put in the DLQ
    outages, retentions, purges, crashes   \* (bounds)

cursor == <<last, head, attempts, floor, recent>>
run == <<pc, batch, todo, consumed, payloads, out, failure, full, probed>>
queue == <<dlq, dead, lines>>
history == <<delivered, skipped, gaveUp>>
bounds == <<outages, retentions, purges, crashes>>
vars == <<newest, live, up, cursor, dropped, queue, run, resend, counted, history, bounds>>

Ids == 1 .. MaxId

\* The first n of S in id order: ORDER BY id LIMIT n.
FirstN(S, n) == {i \in S : Cardinality({j \in S : j < i}) < n}

\* What read(ctx, s, after, n, dest) returns.
ReadAfter(after, n) == FirstN({i \in live : i > after}, n)

IsFirst(r, S) == r \in S /\ \A j \in S : r <= j

IsLast(r, S) == r \in S /\ \A j \in S : j <= r

DlqFull == Cardinality(dlq) >= DlqMax

\* The destination takes the record when it is sent now.
GoesThrough(r) == up /\ r \notin Unformattable \cup Refused \cup Poison

Init ==
    /\ newest = 0 /\ live = {} /\ up = TRUE
    /\ last = 0 /\ head = None /\ attempts = 0 /\ floor = (SentBefore # {}) /\ recent = FALSE
    /\ dropped = 0 /\ counted = 0
    /\ dlq = {} /\ dead = {} /\ lines = 0
    /\ pc = "idle" /\ batch = {} /\ todo = {} /\ consumed = 0 /\ payloads = {} /\ out = {}
    /\ failure = None /\ full = FALSE /\ probed = None
    /\ resend = [step |-> "idle", lines |-> {}]
    /\ delivered = {} /\ skipped = {} /\ gaveUp = FALSE
    /\ outages = 0 /\ retentions = 0 /\ purges = 0 /\ crashes = 0

Quarantine(r) ==
    /\ lines < MaxDead
    /\ dlq' = dlq \cup {<<lines + 1, r>>}
    /\ dead' = dead \cup {r}
    /\ lines' = lines + 1

-----------------------------------------------------------------------------
(* Around the run: collection, the destination, retention.                 *)

\* A collector stores the next record; its id is above every id given before.
Store ==
    /\ newest < MaxId
    /\ newest' = newest + 1
    /\ live' = live \cup {newest + 1}
    /\ UNCHANGED <<up, cursor, dropped, queue, run, resend, counted, history, bounds>>

GoDown ==
    /\ up /\ outages < MaxOutages
    /\ up' = FALSE /\ outages' = outages + 1
    /\ UNCHANGED <<newest, live, cursor, dropped, queue, run, resend, counted, history,
                   retentions, purges, crashes>>

ComeUp ==
    /\ ~up /\ up' = TRUE
    /\ UNCHANGED <<newest, live, cursor, dropped, queue, run, resend, counted, history, bounds>>

\* More than RECENT_UP passes without a line sent.
HourPasses ==
    /\ recent /\ recent' = FALSE
    /\ UNCHANGED <<newest, live, up, last, head, attempts, floor, dropped, queue, run, resend,
                   counted, history, bounds>>

\* Mutation of RetentionDelete: counted after the deletion, when nothing is left to count.
RetentionCountsLate(gone) ==
    /\ counted = 0 /\ retentions < MaxRetentions /\ gone # {}
    /\ live' = live \ gone
    /\ counted' = Cardinality({i \in gone \cap live' : last < i})
    /\ retentions' = retentions + 1
    /\ UNCHANGED <<newest, up, cursor, dropped, queue, run, resend, history, outages, purges, crashes>>

\* _run_retention: in one hold of the write lock, what of the expired records the cursor has not
\* passed is counted and they are deleted (expiry goes by time, not by id) ...
RetentionDelete(gone) ==
    /\ counted = 0 /\ retentions < MaxRetentions /\ gone # {}
    /\ live' = live \ gone
    /\ counted' = Cardinality({i \in gone : last < i})
    /\ retentions' = retentions + 1
    /\ UNCHANGED <<newest, up, cursor, dropped, queue, run, resend, history, outages, purges, crashes>>

\* ... and the count goes to the cursor after that, in the other database.
RecordDropped ==
    /\ counted > 0
    /\ dropped' = dropped + counted
    /\ counted' = 0
    /\ UNCHANGED <<newest, live, up, cursor, queue, run, resend, history, bounds>>

-----------------------------------------------------------------------------
(* run_siem / _run_source.                                                 *)

\* The tick: one batch after the cursor.  Nothing left: a floor that was caught up with goes.
ReadBatch ==
    /\ pc \in {"idle", "read"}
    /\ LET records == ReadAfter(last, BatchSize) IN
       IF records = {}
       THEN /\ floor' = (floor /\ last = 0)
            /\ pc' = "idle"
            /\ UNCHANGED <<batch, todo, consumed, payloads, out, failure, full, probed>>
       ELSE /\ batch' = records /\ todo' = records
            /\ consumed' = last
            /\ payloads' = {} /\ out' = {} /\ failure' = None /\ full' = FALSE /\ probed' = None
            /\ pc' = "send"
            /\ UNCHANGED floor
    /\ UNCHANGED <<newest, live, up, last, head, attempts, recent, dropped, queue, resend, counted,
                   history, bounds>>

\* A record of the batch is done with: the cursor may pass it.
Pass(r) == consumed' = r /\ todo' = todo \ {r} /\ UNCHANGED <<pc, failure, full>>

\* Mutation of PassToDlq: the queue's limit is not looked at.
PassToDlqUnlimited(r) == Quarantine(r) /\ Pass(r)

\* A record that must go to the DLQ: passed when there is room, held when there is none.
PassToDlq(r) ==
    \/ ~DlqFull /\ Quarantine(r) /\ Pass(r)
    \/ DlqFull /\ full' = TRUE /\ pc' = "finish" /\ UNCHANGED <<consumed, todo, failure, queue>>

\* 5.x sent the record before the upgrade.
Sent5x(r) == floor /\ r \in SentBefore

SkipSent(r) ==
    /\ Sent5x(r)
    /\ Pass(r)
    /\ skipped' = skipped \cup {r}
    /\ UNCHANGED <<payloads, out, queue>>

\* It cannot be formatted, or the destination refuses it for good.
Unsendable(r) ==
    /\ ~Sent5x(r)
    /\ \/ r \in Unformattable /\ payloads' = payloads
       \/ r \in Refused \ Unformattable /\ up /\ payloads' = payloads \cup {r}
    /\ PassToDlq(r)
    /\ UNCHANGED <<out, skipped>>

\* The send fails in a way worth retrying: the batch stops here.
SendFails(r) ==
    /\ ~Sent5x(r) /\ r \notin Unformattable
    /\ ~up \/ r \in Poison \ Refused
    /\ payloads' = payloads \cup {r}
    /\ failure' = r /\ pc' = "finish"
    /\ UNCHANGED <<out, consumed, todo, full, queue, skipped>>

SendWorks(r) ==
    /\ ~Sent5x(r) /\ GoesThrough(r)
    /\ payloads' = payloads \cup {r}
    /\ out' = out \cup {r}
    /\ Pass(r)
    /\ UNCHANGED <<queue, skipped>>

\* One record of the batch, in id order.
SendNext ==
    /\ pc = "send"
    /\ \E r \in todo : IsFirst(r, todo) /\ (SkipSent(r) \/ Unsendable(r) \/ SendFails(r) \/ SendWorks(r))
    /\ UNCHANGED <<newest, live, up, cursor, dropped, batch, probed, resend, counted, delivered,
                   gaveUp, bounds>>

\* The batch is through, or the destination's share of the tick is used up.
EndBatch ==
    /\ pc = "send"
    /\ pc' = "finish"
    /\ UNCHANGED <<newest, live, up, cursor, dropped, queue, batch, todo, consumed, payloads, out,
                   failure, full, probed, resend, counted, history, bounds>>

\* Mutation of FinishBatch: an unconfirmed batch counts as sent.
FinishUnconfirmed ==
    /\ pc = "finish"
    /\ \E arrived \in SUBSET out : delivered' = delivered \cup arrived
    /\ UNCHANGED <<consumed, failure, out>>
    /\ pc' = "advance"
    /\ UNCHANGED <<newest, live, up, cursor, dropped, queue, batch, todo, payloads, full, probed,
                   resend, counted, skipped, gaveUp, bounds>>

\* finish_batch: confirmed, or not, and then nothing of the batch counts as sent although some
\* of it may have arrived: the cursor stays before the first record that was formatted.
FinishBatch ==
    /\ pc = "finish"
    /\ \/ /\ out = {} \/ up
          /\ delivered' = delivered \cup out
          /\ UNCHANGED <<consumed, failure, out>>
       \/ /\ out # {} /\ ~up
          /\ \E arrived \in SUBSET out : delivered' = delivered \cup arrived
          /\ \E first \in payloads, c \in {last} \cup {i \in batch : \E j \in payloads : i < j} :
                /\ IsFirst(first, payloads)
                /\ IsLast(c, {last} \cup {i \in batch : i < first})
                /\ failure' = first /\ consumed' = c
          /\ out' = {}
    /\ pc' = "advance"
    /\ UNCHANGED <<newest, live, up, cursor, dropped, queue, batch, todo, payloads, full, probed,
                   resend, counted, skipped, gaveUp, bounds>>

\* store.advance: the cursor never moves back, and a head it passes is forgotten.
AdvanceTo(n, sent) ==
    /\ last' = IF n > last THEN n ELSE last
    /\ head' = IF n >= head THEN None ELSE head
    /\ attempts' = IF n >= head THEN 0 ELSE attempts
    /\ recent' = IF sent THEN TRUE ELSE recent

\* Mutation of Advance: a batch cut short by the tick's end is taken for a failed one.
AdvanceCutShort ==
    /\ pc = "advance"
    /\ AdvanceTo(consumed, out # {})
    /\ out' = {}
    /\ pc' = IF full THEN "idle"
             ELSE IF failure # None \/ \E i \in batch : consumed < i THEN "failed"
             ELSE IF Cardinality(batch) < BatchSize THEN "idle" ELSE "read"
    /\ UNCHANGED <<newest, live, up, floor, dropped, queue, batch, todo, consumed, payloads, failure,
                   full, probed, resend, counted, history, bounds>>

\* The cursor write after the batch; then the DLQ is full, a failure, the next batch or the end.
Advance ==
    /\ pc = "advance"
    /\ AdvanceTo(consumed, out # {})
    /\ out' = {}
    /\ pc' = IF full THEN "idle"
             ELSE IF failure # None THEN "failed"
             ELSE IF Cardinality(batch) < BatchSize \/ \E i \in batch : consumed < i THEN "idle"
             ELSE "read"
    /\ UNCHANGED <<newest, live, up, floor, dropped, queue, batch, todo, consumed, payloads, failure,
                   full, probed, resend, counted, history, bounds>>

\* How often the record the batch stopped at has failed now (counted up to Hard: only
\* comparisons with the three thresholds read it).
Failures == IF head # failure THEN 1 ELSE IF attempts < Hard THEN attempts + 1 ELSE Hard

\* Mutation of IsStuck: only a probe that went through ever condemns the head.
IsNeverStuck(n, r) == n < 0

\* Too many failures to go on: far too many, or many with nothing after it at a destination
\* that took something lately.
IsStuck(n, r) == n >= Hard \/ (n >= Stuck /\ recent /\ ReadAfter(r, 1) = {})

\* Mutation of RecordFailure: a probe is sent although the queue has no room for the head.
RecordFailureUnheld ==
    /\ pc = "failed"
    /\ head' = failure /\ attempts' = Failures
    /\ pc' = IF ~IsStuck(Failures, failure) /\ Failures < Retries THEN "idle"
             ELSE IF IsStuck(Failures, failure) THEN "quarantine" ELSE "probe"
    /\ consumed' = failure
    /\ gaveUp' = IF Failures >= Hard THEN TRUE ELSE gaveUp
    /\ UNCHANGED <<newest, live, up, last, floor, recent, dropped, queue, batch, todo, payloads,
                   out, failure, full, probed, resend, counted, delivered, skipped, bounds>>

\* record_failure, and whether the head is tried again next tick, held by a full DLQ, or suspect.
RecordFailure ==
    /\ pc = "failed"
    /\ head' = failure /\ attempts' = Failures
    /\ pc' = IF ~IsStuck(Failures, failure) /\ Failures < Retries THEN "idle"
             ELSE IF DlqFull THEN "idle"
             ELSE IF IsStuck(Failures, failure) THEN "quarantine" ELSE "probe"
    /\ consumed' = failure
    /\ gaveUp' = IF Failures >= Hard THEN TRUE ELSE gaveUp
    /\ UNCHANGED <<newest, live, up, last, floor, recent, dropped, queue, batch, todo, payloads,
                   out, failure, full, probed, resend, counted, delivered, skipped, bounds>>

\* The records after the head that a probe may use.
Ahead == LET rest == {i \in batch : i > failure} IN
         IF Cardinality(rest) < Probe THEN ReadAfter(failure, Probe) ELSE rest

\* Mutation of ProbeAhead: the head is condemned although nothing after it went through either.
ProbeWithoutAnswer ==
    /\ pc = "probe"
    /\ LET took == {i \in FirstN(Ahead, Probe) : GoesThrough(i)} IN
       \/ took = {} /\ UNCHANGED <<probed, delivered, consumed>>
       \/ \E r \in took :
            /\ IsFirst(r, took)
            /\ probed' = r
            /\ consumed' = IF \E i \in Ahead : i < r THEN failure ELSE r
            /\ delivered' = delivered \cup {r}
    /\ pc' = "quarantine"
    /\ UNCHANGED <<newest, live, up, cursor, dropped, queue, batch, todo, payloads, out, failure,
                   full, resend, counted, skipped, gaveUp, bounds>>

\* _next_goes_through: the first of up to Probe later records that the destination takes.  The
\* cursor will pass it too when no record lies between it and the head (_skips).
ProbeAhead ==
    /\ pc = "probe"
    /\ LET took == {i \in FirstN(Ahead, Probe) : GoesThrough(i)} IN
       \/ /\ took = {}
          /\ pc' = "idle"
          /\ UNCHANGED <<probed, delivered, consumed>>
       \/ \E r \in took :
            /\ IsFirst(r, took)
            /\ probed' = r
            /\ consumed' = IF \E i \in Ahead : i < r THEN failure ELSE r
            /\ delivered' = delivered \cup {r}
            /\ pc' = "quarantine"
    /\ UNCHANGED <<newest, live, up, cursor, dropped, queue, batch, todo, payloads, out, failure,
                   full, resend, counted, skipped, gaveUp, bounds>>

\* The head goes to the DLQ (its record is what fails) if there is room ...
QuarantineHead ==
    /\ pc = "quarantine"
    /\ IF DlqFull THEN pc' = "idle" /\ UNCHANGED queue ELSE pc' = "pass" /\ Quarantine(failure)
    /\ UNCHANGED <<newest, live, up, cursor, dropped, batch, todo, consumed, payloads, out, failure,
                   full, probed, resend, counted, history, bounds>>

\* ... and the cursor passes it.
PassHead ==
    /\ pc = "pass"
    /\ AdvanceTo(consumed, probed # None)
    /\ pc' = "idle"
    /\ UNCHANGED <<newest, live, up, floor, dropped, queue, batch, todo, consumed, payloads, out,
                   failure, full, probed, resend, counted, history, bounds>>

-----------------------------------------------------------------------------
(* The DLQ page: resend (no lock against the run) and purge; its retention. *)

\* resend: the lines asked for, or the oldest, are read ...
ResendRead ==
    /\ resend.step = "idle" /\ purges < MaxPurges
    /\ \E picked \in SUBSET dlq : picked # {} /\ resend' = [step |-> "send", lines |-> picked]
    /\ purges' = purges + 1
    /\ UNCHANGED <<newest, live, up, cursor, dropped, queue, run, counted, history, outages,
                   retentions, crashes>>

\* ... and sent: those the destination took are to be deleted; a batch that is not confirmed
\* stays, although some of it may have arrived.
ResendSend ==
    /\ resend.step = "send"
    /\ LET ok == {l \in resend.lines : l[2] \notin Refused \cup Poison} IN
       \/ /\ up
          /\ delivered' = delivered \cup {l[2] : l \in ok}
          /\ resend' = [step |-> "delete", lines |-> ok]
       \/ /\ ~up
          /\ \E arrived \in SUBSET ok : delivered' = delivered \cup {l[2] : l \in arrived}
          /\ resend' = [step |-> "delete", lines |-> {}]
    /\ UNCHANGED <<newest, live, up, cursor, dropped, queue, run, counted, skipped, gaveUp, bounds>>

ResendDelete ==
    /\ resend.step = "delete"
    /\ dlq' = dlq \ resend.lines
    /\ resend' = [step |-> "idle", lines |-> {}]
    /\ UNCHANGED <<newest, live, up, cursor, dropped, dead, lines, run, counted, history, bounds>>

\* purge, and run_dlq_retention: the lines asked for, or the old ones, go.
Purge(gone) ==
    /\ purges < MaxPurges /\ gone # {}
    /\ dlq' = dlq \ gone
    /\ purges' = purges + 1
    /\ UNCHANGED <<newest, live, up, cursor, dropped, dead, lines, run, resend, counted, history,
                   outages, retentions, crashes>>

\* The service stops: what a run, a resend or retention had in hand is gone, the databases stay.
Crash ==
    /\ crashes < MaxCrashes
    /\ crashes' = crashes + 1
    /\ pc' = "idle" /\ counted' = 0
    /\ batch' = {} /\ todo' = {} /\ payloads' = {} /\ out' = {}
    /\ consumed' = last /\ failure' = None /\ full' = FALSE /\ probed' = None
    /\ resend' = [step |-> "idle", lines |-> {}]
    /\ UNCHANGED <<newest, live, up, cursor, dropped, queue, history, outages, retentions, purges>>

Dispatch ==
    \/ ReadBatch \/ SendNext \/ EndBatch \/ FinishBatch \/ Advance
    \/ RecordFailure \/ ProbeAhead \/ QuarantineHead \/ PassHead

Resend == ResendSend \/ ResendDelete

Next ==
    \/ Store \/ GoDown \/ ComeUp \/ HourPasses
    \/ \E gone \in SUBSET live : RetentionDelete(gone)
    \/ RecordDropped
    \/ Dispatch
    \/ ResendRead \/ Resend
    \/ \E gone \in SUBSET dlq : Purge(gone)
    \/ Crash

Spec == Init /\ [][Next]_vars

\* The tick runs on its interval and its budget is not always used up before the first record, a
\* destination that went down comes back, a request or a job that started goes on; nobody has to
\* store, resend or purge anything.
Fairness ==
    /\ WF_vars(Dispatch) /\ SF_vars(SendNext) /\ WF_vars(ComeUp) /\ WF_vars(RecordDropped) /\ WF_vars(Resend)

FairSpec == Spec /\ Fairness

-----------------------------------------------------------------------------
(* What makes it correct.                                                  *)

TypeOK ==
    /\ newest \in 0 .. MaxId /\ live \subseteq 1 .. newest
    /\ up \in BOOLEAN
    /\ last \in 0 .. newest /\ head \in 0 .. newest /\ attempts \in Nat
    /\ floor \in BOOLEAN /\ recent \in BOOLEAN
    /\ dropped \in Nat /\ counted \in Nat
    /\ dlq \subseteq (1 .. lines) \X (1 .. newest) /\ lines \in Nat
    /\ pc \in {"idle", "read", "send", "finish", "advance", "failed", "probe", "quarantine", "pass"}
    /\ batch \subseteq 1 .. newest /\ todo \subseteq batch /\ payloads \subseteq batch /\ out \subseteq payloads
    /\ consumed \in 0 .. newest /\ failure \in 0 .. newest /\ probed \in 0 .. newest
    /\ full \in BOOLEAN
    /\ resend.step \in {"idle", "send", "delete"} /\ resend.lines \subseteq (1 .. lines) \X (1 .. newest)
    /\ delivered \subseteq 1 .. newest /\ dead \subseteq 1 .. newest /\ skipped \subseteq 1 .. newest
    /\ gaveUp \in BOOLEAN
    /\ outages \in Nat /\ retentions \in Nat /\ purges \in Nat /\ crashes \in Nat
    /\ pc \in {"failed", "probe", "quarantine"} => failure # None

\* "At least once": a stored record the cursor has passed was taken by the destination, is or was
\* a line of the DLQ, or had been sent before the upgrade.
NothingPassedOver == \A i \in live : i <= last => i \in delivered \cup dead \cup skipped

\* "What it deletes before a destination sent it is counted on that destination's cursor".
DropsAreCounted ==
    Cardinality({i \in 1 .. newest : i \notin live \cup delivered \cup dead \cup skipped}) <= dropped + counted

\* The DLQ of a destination holds no more lines than dlq_max_per_dest.
DlqWithinLimit == Cardinality(dlq) <= DlqMax

\* The queue and the run over it are in order: their types hold and the queue keeps its limit (_dlq_full, quarantine).
QueueIsInOrder == TypeOK /\ DlqWithinLimit

\* "If it fails too, the destination is down and nothing goes to the DLQ": while the destination
\* has taken nothing at all, only records that can never be sent are put there, until a head has
\* failed Hard times.
OutageBlamesNoRecord == delivered = {} /\ ~gaveUp => dead \subseteq Unformattable \cup Refused

\* "Nothing after the held record is sent ahead of it": the run sends a record before an earlier
\* one that still waits only as a probe, and only with room in the DLQ for the one it overtakes.
SentInOrder ==
    [][FinishBatch \/ ProbeAhead =>
        \A i \in delivered' \ delivered :
            \/ \A j \in live : last < j /\ j < i => j \in out \cup delivered \cup dead \cup skipped
            \/ pc = "probe" /\ ~DlqFull]_vars

\* Every stored record is eventually passed by the cursor, unless retention deletes it first or
\* the DLQ has no room: neither an outage nor a record that always fails holds it up forever.
EveryRecordIsForwarded == \A i \in Ids : i \in live ~> last >= i \/ i \notin live \/ DlqFull

-----------------------------------------------------------------------------
(* The inductive strengthening of the safety properties (SiemForwardProofs).*)

\* Records that have had an outcome.
Done == delivered \cup dead \cup skipped

\* Every stored record up to n has had an outcome, those in S aside.
DoneUpTo(n, S) == \A i \in live : i <= n => i \in Done \cup S

\* The batch is in the tick's hands: it holds every stored record between the cursor and its own
\* last one, what was tried comes before what was not and is earned by the cursor.
BatchInv == pc \in {"send", "finish"} =>
    /\ DoneUpTo(consumed, out)
    /\ \A i \in batch : last < i
    /\ \A i \in todo : consumed < i
    /\ \A i \in batch \ todo : i <= consumed /\ (i \in payloads \/ i \in dead \cup skipped)
    /\ out \cap todo = {}

\* No stored record between the cursor and the end of the batch is missing from the batch.
PrefixInv == pc \in {"send", "finish", "advance", "failed", "probe"} =>
    \A i \in live, r \in batch : last < i /\ i < r => i \in batch

\* The record a batch stopped at comes after the cursor, and everything before it is done.
FailureInv ==
    /\ pc = "send" => failure = None
    /\ failure # None =>
        /\ pc \in {"finish", "advance"} => consumed < failure
        /\ pc \in {"finish", "advance", "failed", "probe"} => last < failure
        /\ pc = "finish" => \A i \in live : i < failure => i \in Done \cup out
        /\ pc \in {"advance", "failed", "probe", "quarantine"} => \A i \in live : i < failure => i \in Done

\* What the cursor is about to pass.
AdvanceInv ==
    /\ pc = "advance" => DoneUpTo(consumed, {})
    /\ pc \in {"probe", "quarantine"} => DoneUpTo(consumed, {failure})
    /\ pc = "pass" => DoneUpTo(consumed, {})

ForwardInv == NothingPassedOver /\ BatchInv /\ PrefixInv /\ FailureInv /\ AdvanceInv

\* Only the run fills the queue, so the room it found before a probe is still there after it.
QueueInv == IsFiniteSet(dlq) /\ DlqWithinLimit /\ (pc = "probe" => ~DlqFull)

\* Nothing is called up, and no head suspect, before the destination took something or a head
\* failed Hard times.
OutageInv ==
    /\ OutageBlamesNoRecord
    /\ recent \/ probed # None => delivered # {}
    /\ pc = "advance" => out \subseteq delivered
    /\ pc = "quarantine" => gaveUp \/ delivered # {}
=============================================================================
