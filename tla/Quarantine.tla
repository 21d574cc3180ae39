----------------------------- MODULE Quarantine ------------------------------
(***************************************************************************)
(* Quarantining workloads (services/quarantine.py, domain/quarantine.py):  *)
(* the Quarantine label of a level is put on each host of a batch, or      *)
(* taken off, by reading the host's labels on the PCE and writing the      *)
(* whole set back with only the Quarantine label changed.  No lock keeps   *)
(* two people apart, and the PCE's console changes labels at any moment.   *)
(***************************************************************************)
EXTENDS Naturals, FiniteSets

CONSTANTS NumQHosts,     \* workloads of the first PCE, in the order a batch takes them
          Handlers,      \* who may quarantine at the same time
          Starters,      \* bound: <<n, person>>, who may start the n-th batch
          Selections,    \* the sets of hosts people pick
          Levels,        \* Mild, Moderate, Severe
          MaxBatches,    \* bound: batches in all
          MaxOutside,    \* bound: label changes made in the PCE's console
          MaxQFaults     \* bound: lost answers, refusals, switches and stops

ASSUME QuarantineAssumption == /\ Selections \subseteq SUBSET (1..NumQHosts) /\ "app" \notin Levels /\ "none" \notin Levels
                               /\ {NumQHosts, MaxBatches, MaxOutside, MaxQFaults} \subseteq Nat

VARIABLES worn,     \* the labels each host wears on the PCE
          known,    \* the levels whose label exists on the PCE
          keyed,    \* whether the PCE sends a label's key with a workload, or its href only
          qident,   \* which PCE is configured
          qbatch,   \* each person's batch under way
          qlog,     \* rows of quarantine_actions
          batches, outside, qfaults,
          relabels  \* the tool's own writes: what it read, what it sent, what it met

quarantineVars == <<worn, known, keyed, qident, qbatch, qlog, batches, outside, qfaults, relabels>>

QHosts == 1..NumQHosts
Remove == "none"   \* level None: the label is taken off
Work(at, no, level, todo, every) ==
    [at |-> at, no |-> no, level |-> level, todo |-> todo, every |-> every, host |-> 0, read |-> {}, stale |-> FALSE]
NoWork == Work("none", 0, Remove, {}, {})

QuarantineInit ==
    /\ worn = [h \in QHosts |-> {"app"}] /\ known = {} /\ keyed \in BOOLEAN
    /\ qident = 1 /\ qbatch = [p \in Handlers |-> NoWork] /\ qlog = {}
    /\ batches = 0 /\ outside = 0 /\ qfaults = 0 /\ relabels = {}

QFault == qfaults < MaxQFaults /\ qfaults' = qfaults + 1
\* One row of quarantine_actions; the batch's number and the host stand for its id.
QRowOf(no, p, h, level, result, original) ==
    [no |-> no, who |-> p, host |-> h, level |-> level, result |-> result, original |-> original]
QRow(p, h, result, original) == QRowOf(qbatch[p].no, p, h, qbatch[p].level, result, original)

\* apply() and remove(): the targets, then the Quarantine labels of the PCE (_label_hrefs); apply()
\* is refused, with a row for each host, without a write key or when no active policy refers to the
\* level and the person did not acknowledge it.
StartQuarantine(p, hosts, level) ==
    /\ qbatch[p].at = "none" /\ batches < MaxBatches /\ batches' = batches + 1 /\ <<batches + 1, p>> \in Starters
    /\ qident = 1 /\ hosts # {}
    /\ \/ /\ qbatch' = [qbatch EXCEPT ![p] = Work("label", batches + 1, level, hosts, known)]
          /\ UNCHANGED <<qlog, qfaults>>
       \/ /\ QFault /\ UNCHANGED qbatch
          /\ qlog' = qlog \cup {QRowOf(batches + 1, p, h, level, "refused", {}) : h \in hosts}
    /\ UNCHANGED <<worn, known, keyed, qident, outside, relabels>>

\* Mutation of LabelMade: the answer is taken for made, the label is not.
LabelMadeUnkept(level) == known
\* POST /labels on the PCE.
LabelMade(level) == known \cup {level}

ToHosts(p, every) == [qbatch EXCEPT ![p] = Work("host", @.no, @.level, @.todo, every)]
\* _change() makes the level's label when the PCE has none.  A refusal (another person made it
\* meanwhile) fails every host; an answer that never comes ends the batch without a row.
MakeLabel(p) ==
    /\ qbatch[p].at = "label"
    /\ LET level == qbatch[p].level IN
       \/ /\ level = Remove \/ level \in qbatch[p].every
          /\ qbatch' = ToHosts(p, qbatch[p].every) /\ UNCHANGED <<known, qlog, qfaults>>
       \/ /\ level # Remove /\ level \notin qbatch[p].every
          /\ \/ /\ level \notin known /\ known' = LabelMade(level)
                /\ \/ /\ qbatch' = ToHosts(p, qbatch[p].every \cup {level})
                      /\ UNCHANGED <<qlog, qfaults>>
                   \/ QFault /\ qbatch' = [qbatch EXCEPT ![p] = NoWork] /\ UNCHANGED qlog
             \/ /\ level \in known /\ UNCHANGED <<known, qfaults>>
                /\ qlog' = qlog \cup {QRow(p, h, "failed", {}) : h \in qbatch[p].todo}
                /\ qbatch' = [qbatch EXCEPT ![p] = NoWork]
    /\ UNCHANGED <<worn, keyed, qident, batches, outside, relabels>>

QTurn(p, h) == h \in qbatch[p].todo /\ \A g \in qbatch[p].todo : h <= g
QNext(p, h) == [qbatch EXCEPT ![p] = Work("host", @.no, @.level, @.todo \ {h}, @.every)]

\* Mutation of SameQPce: the batch does not look which PCE is configured.
SameQPceTrusted == TRUE
\* _ident() at the head of every host; it is not asked again after the read.
SameQPce == qident = 1

\* Mutation of IsQuarantine: only the labels read before the batch count.
IsQuarantineByHref(p, label) == label \in qbatch[p].every
\* A label is Quarantine by its key when the PCE sends it, else by the hrefs read before the batch.
IsQuarantine(p, label) == (keyed /\ label \in Levels) \/ label \in qbatch[p].every

\* Mutation of Relabel: the other labels are not sent along.
RelabelAlone(p) == {qbatch[p].level} \ {Remove}
\* Mutation of Relabel: the former level is kept.
RelabelAdds(p) == qbatch[p].read \cup ({qbatch[p].level} \ {Remove})
\* relabel(): every other label stays, the Quarantine label is replaced or removed.
Relabel(p) == {l \in qbatch[p].read : ~IsQuarantine(p, l)} \cup ({qbatch[p].level} \ {Remove})

\* Mutation of QIntent: the row is added after the write.
QIntentLater(p, h) == qlog
\* The row that says a write is about to be sent, with the labels the host had.
QIntent(p, h) == qlog \cup {QRow(p, h, "pending", worn[h])}

\* GET of the host's labels and what follows from it: nothing to remove is a row of its own, else
\* the intent is recorded; or the row that says why the host was not read.
ReadLabels(p, h) ==
    /\ qbatch[p].at = "host" /\ QTurn(p, h)
    /\ \/ /\ SameQPce /\ qbatch[p].level = Remove /\ \A l \in worn[h] : ~IsQuarantine(p, l)
          /\ qbatch' = QNext(p, h) /\ UNCHANGED qfaults
          /\ qlog' = qlog \cup {QRow(p, h, "not_quarantined", worn[h])}
       \/ /\ SameQPce /\ (qbatch[p].level # Remove \/ \E l \in worn[h] : IsQuarantine(p, l))
          /\ qbatch' = [qbatch EXCEPT ![p] = [@ EXCEPT !.at = "put", !.host = h, !.read = worn[h]]]
          /\ qlog' = QIntent(p, h) /\ UNCHANGED qfaults
       \/ /\ SameQPce /\ QFault /\ qbatch' = QNext(p, h)
          /\ qlog' = qlog \cup {QRow(p, h, "failed", {})}
       \/ /\ ~SameQPce /\ qbatch' = QNext(p, h) /\ UNCHANGED qfaults
          /\ qlog' = qlog \cup {QRow(p, h, "failed", {})}
    /\ UNCHANGED <<worn, known, keyed, qident, batches, outside, relabels>>

\* What the write that leaves for the PCE does there, and what it is remembered by.
Relabelled(p) ==
    LET h == qbatch[p].host IN
    /\ worn' = [worn EXCEPT ![h] = Relabel(p)]
    /\ relabels' = relabels \cup {[no |-> qbatch[p].no, who |-> p, host |-> h, read |-> qbatch[p].read, level |-> qbatch[p].level,
                                   sent |-> Relabel(p) \cap Levels, blind |-> known # qbatch[p].every,
                                   kept |-> Relabel(p) \ Levels = worn[h] \ Levels \/ qbatch[p].stale,
                                   late |-> qident # 1]}
\* Another batch that has read the host before an outdated write is outdated too.
Outdated(p) == [q \in Handlers |->
    IF q # p /\ qbatch[q].at = "put" /\ qbatch[q].host = qbatch[p].host
    THEN [qbatch[q] EXCEPT !.stale = @ \/ qbatch[p].stale] ELSE QNext(p, qbatch[p].host)[q]]
QFinish(p, result) ==
    (qlog \ {QRow(p, qbatch[p].host, "pending", qbatch[p].read)})
        \cup {QRow(p, qbatch[p].host, result, qbatch[p].read)}

\* The PUT of the whole set, sent once.
PutLabels(p) ==
    /\ qbatch[p].at = "put"
    /\ \/ Relabelled(p) /\ qbatch' = Outdated(p) /\ qlog' = QFinish(p, "ok") /\ UNCHANGED qfaults
       \/ /\ QFault
          /\ \/ qlog' = QFinish(p, "failed") /\ qbatch' = QNext(p, qbatch[p].host) /\ UNCHANGED <<worn, relabels>>
             \/ /\ qlog' = QFinish(p, "unknown")
                /\ \/ Relabelled(p) /\ qbatch' = Outdated(p)
                   \/ qbatch' = QNext(p, qbatch[p].host) /\ UNCHANGED <<worn, relabels>>
    /\ UNCHANGED <<known, keyed, qident, batches, outside>>

QEnd(p) ==
    /\ qbatch[p].at = "host" /\ qbatch[p].todo = {} /\ qbatch' = [qbatch EXCEPT ![p] = NoWork]
    /\ UNCHANGED <<worn, known, keyed, qident, qlog, batches, outside, qfaults, relabels>>

\* Someone edits a host's labels in the PCE's console.
ConsoleRelabels(h) ==
    /\ outside < MaxOutside /\ outside' = outside + 1 /\ qident = 1
    /\ worn' = [worn EXCEPT ![h] = IF "app" \in @ THEN @ \ {"app"} ELSE @ \cup {"app"}]
    /\ qbatch' = [p \in Handlers |-> IF qbatch[p].at = "put" /\ qbatch[p].host = h
                                     THEN [qbatch[p] EXCEPT !.stale = TRUE] ELSE qbatch[p]]
    /\ UNCHANGED <<known, keyed, qident, qlog, batches, qfaults, relabels>>

QSwitch ==
    /\ qident = 1 /\ QFault /\ qident' = 2
    /\ UNCHANGED <<worn, known, keyed, qbatch, qlog, batches, outside, relabels>>

\* The process stops; a write may have left it and be carried out all the same.
QStop ==
    /\ QFault /\ \E p \in Handlers : qbatch[p].at # "none"
    /\ qbatch' = [p \in Handlers |-> NoWork]
    /\ \/ UNCHANGED <<worn, relabels>>
       \/ \E p \in Handlers : qbatch[p].at = "put" /\ Relabelled(p)
    /\ UNCHANGED <<known, keyed, qident, qlog, batches, outside>>

QWorks(p) == MakeLabel(p) \/ PutLabels(p) \/ QEnd(p) \/ \E h \in QHosts : ReadLabels(p, h)
QuarantineNext ==
    \/ \E p \in Handlers : \/ QWorks(p)
                           \/ \E hs \in Selections, l \in Levels \cup {Remove} : StartQuarantine(p, hs, l)
    \/ \E h \in QHosts : ConsoleRelabels(h)
    \/ QSwitch \/ QStop
QuarantineSpec == QuarantineInit /\ [][QuarantineNext]_quarantineVars
-----------------------------------------------------------------------------
QuarantineTypeOK ==
    /\ worn \in [QHosts -> SUBSET ({"app"} \cup Levels)] /\ known \subseteq Levels /\ qident \in 1..2
    /\ \A p \in Handlers : qbatch[p].at \in {"none", "label", "host", "put"}
    /\ \A r \in qlog : r.result \in {"refused", "failed", "pending", "ok", "unknown", "not_quarantined"}
    /\ \A h \in QHosts : worn[h] \cap Levels \subseteq known

\* A write takes no other label with it and brings none back, whatever another person's batch does
\* between: only a change in the console between the read and the write is overwritten.
OtherLabelsStay == \A w \in relabels : w.kept

\* A write never sends two Quarantine labels; it could only when the PCE sends hrefs without keys
\* and another batch made a level's label after this one had read the list of labels.
OneLevelSent == \A w \in relabels : Cardinality(w.sent) > 1 => (~keyed /\ w.blind)

\* Removing leaves no Quarantine label of those the tool knows.
RemovedIsGone == \A w \in relabels : w.level = Remove => (w.sent = {} \/ (~keyed /\ w.blind))

\* Every host the tool relabelled has a row with the labels the write was computed from, so the
\* former labels can be told also after a lost answer.
RelabelOnRecord ==
    \A w \in relabels : \E r \in qlog :
        /\ r.no = w.no /\ r.who = w.who /\ r.host = w.host /\ r.original = w.read
        /\ r.result \in {"pending", "ok", "unknown"}

\* Once another PCE is configured each person's batch sends at most the write it had read for.
QLittleAfterSwitch == \A p \in Handlers : Cardinality({w \in relabels : w.late /\ w.who = p}) <= 1

\* A batch changes the Quarantine label and no other, on record and on its own PCE (services/quarantine.py).
QuarantineIsSound ==
    QuarantineTypeOK /\ OtherLabelsStay /\ OneLevelSent /\ RemovedIsGone /\ RelabelOnRecord /\ QLittleAfterSwitch
=============================================================================
