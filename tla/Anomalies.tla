------------------------------ MODULE Anomalies ------------------------------
(***************************************************************************)
(* The detectors as functions of one run: what is new on management ports, *)
(* in a peer group, for an account, a process, a pair or a directory       *)
(* server; what is loud or awake at the wrong time compared with the       *)
(* host's own hours; and how detections of one thing are reduced to one    *)
(* and raised.  Each question is a state of its own: one set of stored     *)
(* connections, one history of collection cycles, or one set of findings.  *)
(***************************************************************************)
EXTENDS Integers, FiniteSets, FiniteSetsExt

CONSTANTS
    NoGroup,         \* a host without the labels of a peer group
    Managed, Public, DirectoryServers,
    Group,           \* peer group of a host
    Class,           \* of a port: "remote", "database", "directory", "service" or "dynamic"
    ProcessOf, UserOf,  \* what opens connections on a port, "" if the PCE does not say
    Expected,        \* port -> processes expected there, for the ports with a list
    Tools,           \* suspicious tools
    Lo, Hi,          \* the run's window (Lo, Hi]
    LongHistory,     \* account_history, process_history
    Pairs,           \* the pairs of hosts that may be connected
    Firsts,          \* when a connection may first have been seen
    Lasts,           \* when a live one may last have been seen
    PeerMinGroup, PairRollout, PairScan, PairVariety,
    MaxRows,         \* connections of one question
    Hour, Quiet, Kept, Week, Surge, Floor, Factor,  \* an hour, the quiet period, histories, SURGE_WINDOW, thresholds
    DayHours,        \* hours in a day
    MinDays,         \* off_hours_min_days
    Ats,             \* when runs look at the hours
    SomeFindings         \* findings that may meet in one run

VARIABLE runCase

NoRunCase == [kind |-> "none"]

-----------------------------------------------------------------------------
(* Connections: [src, dst, port, first, last, live, blocked].              *)

Tuple(r) == <<r.src, r.dst, r.port>>
Judged(r) == r.live /\ Lo < r.last /\ r.last <= Hi
Management(p) == Class[p] \in {"remote", "database", "directory"}
Internal(h) == h \in Managed \/ h \notin Public

\* _update_baselines: the earliest sighting of any connection of the store, blocked and backfilled ones too.
FirstSeen(conns, same(_)) == Min({r.first : r \in {x \in conns : same(x)}})
TupleFirst(conns, r) == FirstSeen(conns, LAMBDA x : Tuple(x) = Tuple(r))
InWindow(t) == Lo < t /\ t <= Hi
\* Which of what a run asks about was there before its window (first_seen <= lo).
Before(conns) == {x \in conns : x.first <= Lo}

\* _in_window, _candidates: the run's connections that were not blocked.
Candidates(conns) == {r \in conns : Judged(r) /\ ~r.blocked}
\* _pair_candidates
PairCandidates(conns) ==
    {r \in Candidates(conns) : /\ Class[r.port] = "service" /\ InWindow(TupleFirst(conns, r))
                               /\ Internal(r.src) /\ Internal(r.dst)}

\* detect_new_admin, detect_unexpected_initiator (a blocked attempt counts in both)
NewAdmin(conns) ==
    {r \in conns : Judged(r) /\ Class[r.port] \in {"remote", "database"} /\ InWindow(TupleFirst(conns, r))}
UnexpectedInitiator(conns) ==
    {r \in conns : /\ Judged(r) /\ Class[r.port] = "remote" /\ r.port \in DOMAIN Expected
                   /\ ProcessOf[r.port] # "" /\ ProcessOf[r.port] \notin Expected[r.port]}
ChainLegs(conns) == {r \in conns : r.live /\ ~r.blocked /\ Class[r.port] = "remote"}
Connects(leg, next) == /\ next.src = leg.dst /\ next.dst # leg.src
                       /\ next.last >= leg.first /\ next.first <= leg.last + Hour
\* Mutation of PivotChain: the second leg must be of this run.
PivotChainForward(conns) ==
    {pair \in ChainLegs(conns) \X ChainLegs(conns) : Connects(pair[1], pair[2]) /\ Judged(pair[2])}
\* detect_pivot_chain: two legs that connect in time, one of them judged in this run.
PivotChain(conns) ==
    {pair \in ChainLegs(conns) \X ChainLegs(conns) :
        Connects(pair[1], pair[2]) /\ (Judged(pair[1]) \/ Judged(pair[2]))}

\* group_of, target_signature: what a destination is to a peer group.
Signature(h) == IF h \in Managed THEN IF Group[h] # NoGroup THEN Group[h] ELSE h
                ELSE IF h \in Public THEN NoGroup ELSE h
Peers(h) == {x \in Managed : Group[x] = Group[h]}
InPeerGroup(h) == h \in Managed /\ Group[h] # NoGroup /\ Cardinality(Peers(h)) >= PeerMinGroup
\* Mutation of PeerSeen: only what the host itself had done before.
PeerSeenOwn(conns, h, p) == {Signature(x.dst) : x \in {y \in Before(conns) : y.src = h /\ y.port = p}}
\* peer_seen
PeerSeen(conns, h, p) == {Signature(x.dst) : x \in {y \in Before(conns) : y.src \in Peers(h) /\ y.port = p}}
Deviates(conns, r) ==
    /\ InPeerGroup(r.src) /\ Signature(r.dst) # NoGroup /\ Signature(r.dst) \notin PeerSeen(conns, r.src, r.port)
\* detect_peer_deviation: half a group starting the same at once is a rollout.
PeerDeviation(conns) ==
    LET found == {r \in Candidates(conns) : Class[r.port] = "service" /\ InWindow(TupleFirst(conns, r)) /\ Deviates(conns, r)}
        Starters(r) == {x.src : x \in {y \in found : y.port = r.port /\ Group[y.src] = Group[r.src]
                                                     /\ Signature(y.dst) = Signature(r.dst)}}
    IN {r \in found : 2 * Cardinality(Starters(r)) < Cardinality(Peers(r.src))}

\* detect_account_new_source, detect_suspicious_tool, detect_new_process
AccountNewSource(conns) ==
    {r \in Candidates(conns) : LET user == UserOf[r.port] IN
        /\ user # "" /\ InWindow(FirstSeen(conns, LAMBDA x : UserOf[x.port] = user /\ x.src = r.src))
        /\ FirstSeen(conns, LAMBDA x : UserOf[x.port] = user) <= Lo - LongHistory}
\* Mutation of SuspiciousTool: a port with an expected list is judged here too.
SuspiciousToolAnywhere(conns) == {r \in Candidates(conns) : ProcessOf[r.port] \in Tools /\ Internal(r.dst)}
SuspiciousTool(conns) ==
    {r \in Candidates(conns) : /\ ProcessOf[r.port] \in Tools /\ Internal(r.dst)
                               /\ ~(r.port \in DOMAIN Expected /\ Class[r.port] = "remote")}
NewProcess(conns) ==
    {r \in Candidates(conns) : LET process == ProcessOf[r.port] IN
        /\ process # "" /\ process \notin Tools
        /\ InWindow(FirstSeen(conns, LAMBDA x : ProcessOf[x.port] = process /\ x.src = r.src))
        /\ FirstSeen(conns, LAMBDA x : ProcessOf[x.port] # "" /\ x.src = r.src) <= Lo - LongHistory}

\* detect_auth_to_non_dc, detect_new_dc_client (directory_clients_before)
AuthToNonDc(conns) == {r \in Candidates(conns) : Class[r.port] = "directory" /\ r.dst \notin DirectoryServers}
\* Mutation of NewDcClient: only the same server counts as known.
NewDcClientOfServer(conns) ==
    {r \in Candidates(conns) : /\ Class[r.port] = "directory" /\ r.dst \in DirectoryServers /\ InWindow(TupleFirst(conns, r))
                               /\ ~\E x \in Before(conns) : x.src = r.src /\ x.dst = r.dst /\ Class[x.port] = "directory"}
NewDcClient(conns) ==
    {r \in Candidates(conns) : /\ Class[r.port] = "directory" /\ r.dst \in DirectoryServers /\ InWindow(TupleFirst(conns, r))
                               /\ ~\E x \in Before(conns) : /\ x.src = r.src /\ x.dst \in DirectoryServers
                                                            /\ Class[x.port] = "directory"}

\* pairs_before, pair_ports, ports_served_before
PairsBefore(conns) == {<<x.src, x.dst>> : x \in Before(conns)}
PairPorts(conns, r) == {x.port : x \in {y \in Before(conns) : y.src = r.src /\ y.dst = r.dst}}
Served(conns, r) == \E x \in Before(conns) : x.dst = r.dst /\ x.port = r.port
\* detect_direction_reversal
DirectionReversal(conns) ==
    {r \in PairCandidates(conns) : <<r.dst, r.src>> \in PairsBefore(conns) /\ <<r.src, r.dst>> \notin PairsBefore(conns)}
\* detect_new_pair_port: one port (medium if something new listens there), or many at once (low).
PairPortRows(conns) ==
    {r \in PairCandidates(conns) : /\ <<r.src, r.dst>> \in PairsBefore(conns)
                                   /\ Cardinality(PairPorts(conns, r)) < PairVariety
                                   /\ InPeerGroup(r.src) => Deviates(conns, r) \/ Signature(r.dst) = NoGroup}
NewPairPort(conns) ==
    LET found == PairPortRows(conns)
        Starters(r) == {x.src : x \in {y \in found : y.dst = r.dst /\ y.port = r.port}}
        Ports(r) == {x.port : x \in {y \in found : y.src = r.src /\ y.dst = r.dst}}
    IN {[row |-> r, many |-> Cardinality(Ports(r)) >= PairScan,
         severity |-> IF /\ Cardinality(Ports(r)) < PairScan /\ ~Served(conns, r)
                         /\ Cardinality(Starters(r)) < PairRollout THEN 1 ELSE 0] : r \in found}

-----------------------------------------------------------------------------
(* Hours of one managed host: cycles are the times live cycles ran at,     *)
(* active those in which the host's connections grew; a run at a reads the *)
(* store up to its watermark hi; known, whether the host's baseline is     *)
(* older than the quiet period (sources_known_before).                     *)

HourStart(t) == t - (t % Hour)
Grew(active, since, until) == {t \in active : since < t /\ t <= until}
\* activity_hours, live_hours, live_coverage
HoursOf(times, start, end) == {h \in {HourStart(t) : t \in times} : start <= h /\ h < end}
KeptFrom(c) == Max({HourStart(c.at) - Kept, Min({HourStart(t) : t \in c.cycles})})
LastWhole(c) == HourStart(c.at) - Hour
\* _hours, hours_gaps: an hour no live cycle ran in is unknown, not quiet.
MissingHours(c) ==
    {h \in KeptFrom(c) .. LastWhole(c) - 1 : h % Hour = 0 /\ h \notin HoursOf(c.cycles, KeptFrom(c), LastWhole(c))}
\* Mutation of JustBefore: the part of the last whole hour before the last sixty minutes is not looked at.
JustBeforeNever(c) == {}
\* active_just_before
JustBefore(c) == IF c.at - Surge > LastWhole(c) THEN Grew(c.active, LastWhole(c), c.at - Surge) ELSE {}
LastHour(c) == Cardinality(Grew(c.active, c.at - Surge, c.at))
HoursReady(c, required) == c.cycles # {} /\ HourStart(c.at) - Min({HourStart(t) : t \in c.cycles}) >= required

\* detect_quiet_host_wakes
QuietHostWakes(c) ==
    LET start == HourStart(c.hi) - Quiet
        end == HourStart(c.hi) - Hour
    IN /\ HoursReady(c, Quiet) /\ ~\E h \in MissingHours(c) : h < end /\ h + Hour > start
       /\ LastHour(c) >= Floor /\ c.known /\ JustBefore(c) = {}
       /\ ~\E h \in HoursOf(c.active, KeptFrom(c), LastWhole(c)) : start <= h /\ h < end

\* detect_off_hours: neither clock hour the last sixty minutes touch saw the host active on a day that was kept.
ClockHour(h) == (h \div Hour) % DayHours
OffHours(c) ==
    LET hour == HourStart(c.hi)
        slots == {ClockHour(hour - Hour), ClockHour(hour)}
        start == Max({hour - Kept, KeptFrom(c)})
        end == hour - Hour
        hours == {h \in HoursOf(c.active, KeptFrom(c), LastWhole(c)) : start <= h /\ h < end}
    IN /\ HoursReady(c, Quiet) /\ ~\E h \in MissingHours(c) : start <= h /\ h < end /\ ClockHour(h) \in slots
       /\ LastHour(c) >= Floor
       /\ Cardinality({h \div (Hour * DayHours) : h \in hours}) >= MinDays
       /\ ~\E h \in hours : ClockHour(h) \in slots

\* _surge, detect_volume_surge: the last sixty minutes against the most of any hour of the week before.
HourTotal(c, h) == Cardinality({t \in c.active : HourStart(t) = h})
WeekPeak(c) == Max({0} \cup {HourTotal(c, h) : h \in HoursOf(c.active, HourStart(c.at) - Week, LastWhole(c))})
VolumeSurge(c) ==
    HoursReady(c, Week) /\ LastHour(c) >= Floor /\ (WeekPeak(c) = 0 \/ LastHour(c) >= Factor * WeekPeak(c))

-----------------------------------------------------------------------------
(* Findings: [kind, subject, ends, port, severity, at].                    *)

Execution == {"fanout", "new_admin", "chain", "non_admin", "unexpected", "tool"}
DirectoryKinds == {"auth_non_dc", "new_dc_client", "directory_surge"}
AccountKinds == {"account_fanout", "account_new_source"}

Of(found, kind) == {d \in found : d.kind = kind}
Subjects(found) == {d.subject : d \in found}
\* Mutation of Woke: waking does not cover being awake at the wrong time.
WokeNever(found) == {}
\* drop_covered
Woke(found) == Subjects(Of(found, "quiet")) \ Subjects(Of(found, "surge"))
Covered(found, d) ==
    \/ d.kind = "quiet" /\ d.subject \in Subjects(Of(found, "surge"))
    \/ d.kind = "off_hours" /\ d.subject \in Subjects(Of(found, "surge")) \cup Woke(found)
    \/ d.kind = "pair_port" /\ \E p \in Of(found, "peer") : p.subject = d.subject /\ p.port = d.port /\ p.ends \cap d.ends # {}
DropCovered(found) == {d \in found : ~Covered(found, d)}

\* raise_severity, apply_precursors, apply_directory_followup
RaiseBy(d, n) == [d EXCEPT !.severity = Min({d.severity + n, 3})]
ApplyPrecursors(found, alarmed) ==
    {IF d.kind \notin AccountKinds /\ d.subject \in alarmed THEN RaiseBy(d, 1) ELSE d : d \in found}
ApplyFollowup(found, directory) ==
    {IF d.kind \in Execution /\ \E r \in directory : r.subject = d.subject /\ d.at >= r.at /\ d.at <= r.at + Surge
     THEN RaiseBy(d, 1) ELSE d : d \in found}
\* run_detectors: the directory findings of this run count even if they were dropped.
Reported(found, alarmed) ==
    ApplyFollowup(ApplyPrecursors(DropCovered(found), alarmed), {d \in found : d.kind \in DirectoryKinds})

-----------------------------------------------------------------------------
\* A connection of a backfill was last seen when it was first seen.
Row(pair, port, first, latest, live, blocked) ==
    [src |-> pair[1], dst |-> pair[2], port |-> port, first |-> first, last |-> latest, live |-> live, blocked |-> blocked]
AskConnections ==
    /\ runCase = NoRunCase \/ runCase.kind = "conns"
    /\ LET conns == IF runCase = NoRunCase THEN {} ELSE runCase.rows
       IN /\ Cardinality(conns) < MaxRows
          /\ \E pair \in Pairs, port \in DOMAIN Class, first \in Firsts :
                \/ \E latest \in {t \in Lasts : t >= first}, blocked \in BOOLEAN :
                      runCase' = [kind |-> "conns", rows |-> conns \cup {Row(pair, port, first, latest, TRUE, blocked)}]
                \/ runCase' = [kind |-> "conns", rows |-> conns \cup {Row(pair, port, first, first, FALSE, FALSE)}]

AskHours ==
    /\ runCase = NoRunCase
    /\ \E at \in Ats, late \in {0, 1} : \E cycles \in SUBSET (1 .. at - late) :
          /\ cycles # {} /\ Max(cycles) = at - late
          /\ \E active \in SUBSET cycles, known \in BOOLEAN :
                runCase' = [kind |-> "hours", at |-> at, hi |-> at - late, cycles |-> cycles, active |-> active,
                            known |-> known]

AskFindings ==
    /\ runCase = NoRunCase
    /\ \E found \in SUBSET SomeFindings, alarmed \in SUBSET {d.subject : d \in SomeFindings} :
          runCase' = [kind |-> "findings", found |-> found, alarmed |-> alarmed]

AnomalyInit == runCase = NoRunCase
AnomalyNext == AskConnections \/ AskHours \/ AskFindings

-----------------------------------------------------------------------------
\* Nothing is reported as new that the store had seen before the run's window, in whatever way it came to be
\* stored (backfilled, blocked, seen by another host of the group or toward another directory server).
NewIsNew ==
    runCase.kind = "conns" =>
        LET conns == runCase.rows
            old == Before(conns)
        IN /\ \A r \in NewAdmin(conns) : ~\E x \in old : Tuple(x) = Tuple(r)
           /\ \A r \in PeerDeviation(conns) : ~\E x \in old :
                 x.src \in Peers(r.src) /\ x.port = r.port /\ Signature(x.dst) = Signature(r.dst)
           /\ \A r \in AccountNewSource(conns) : ~\E x \in old : x.src = r.src /\ UserOf[x.port] = UserOf[r.port]
           /\ \A r \in NewProcess(conns) : ~\E x \in old : x.src = r.src /\ ProcessOf[x.port] = ProcessOf[r.port]
           /\ \A r \in NewDcClient(conns) : ~\E x \in old :
                 x.src = r.src /\ x.dst \in DirectoryServers /\ Class[x.port] = "directory"
           /\ \A r \in DirectionReversal(conns) : ~\E x \in old : x.src = r.src /\ x.dst = r.dst
           /\ \A n \in NewPairPort(conns) : ~\E x \in old : Tuple(x) = Tuple(n.row)

\* A chain is reported in the run that judges either of its legs: the one that arrives second may be the first
\* leg.
ChainFromEitherLeg ==
    runCase.kind = "conns" =>
        \A leg, next \in ChainLegs(runCase.rows) :
            Connects(leg, next) /\ InWindow(Max({leg.last, next.last})) => <<leg, next>> \in PivotChain(runCase.rows)

\* Two detectors do not report one connection for one reason: a tool on a port with an expected list, a new
\* process that is a tool, a new client of what is not a directory server, a port of a pair that was never seen.
OneReasonOnce ==
    runCase.kind = "conns" =>
        LET conns == runCase.rows
        IN /\ SuspiciousTool(conns) \cap (UnexpectedInitiator(conns) \cup NewProcess(conns)) = {}
           /\ AuthToNonDc(conns) \cap NewDcClient(conns) = {}
           /\ DirectionReversal(conns) \cap {n.row : n \in NewPairPort(conns)} = {}

\* A managed host is called quiet only if no live cycle saw it start a connection in the quiet period, up to
\* the sixty minutes it is judged by (a run whose watermark and clock are in one hour; what a cycle saw on the
\* stroke of the hour before is in neither of the two reads and is left out here).
QuietIsQuiet ==
    runCase.kind = "hours" /\ HourStart(runCase.at) = HourStart(runCase.hi) /\ QuietHostWakes(runCase) =>
        ~\E t \in runCase.active :
            HourStart(runCase.hi) - Quiet <= t /\ t <= runCase.at - Surge /\ t # LastWhole(runCase)

\* A host is awake at the wrong time, or louder than in its week, only in hours whose record is whole: every
\* hour it is compared with had a live cycle, and in none of them was the host seen at that time of day, or as
\* loud.
LoudIsLouder ==
    runCase.kind = "hours" /\ HourStart(runCase.at) = HourStart(runCase.hi) =>
        LET hour == HourStart(runCase.hi)
            before == {t \in runCase.active : KeptFrom(runCase) <= t /\ t < hour - Hour}
        IN /\ OffHours(runCase) =>
                 \A t \in before : ClockHour(HourStart(t)) \notin {ClockHour(hour), ClockHour(hour - Hour)}
           /\ VolumeSurge(runCase) =>
                 \A h \in {HourStart(t) : t \in {x \in before : x >= hour - Week}} : LastHour(runCase) > HourTotal(runCase, h)

\* One thing, one detection: what is left out is covered by something of the same subject that is reported, and
\* of a host's surge, waking and off-hours findings one is reported.
OneThingOneDetection ==
    runCase.kind = "findings" =>
        LET found == runCase.found
            kept == Reported(found, runCase.alarmed)
        IN /\ \A d \in found : \E k \in kept : k.subject = d.subject
           /\ \A d, e \in kept : d.subject = e.subject /\ {d.kind, e.kind} \subseteq {"surge", "quiet", "off_hours"} => d.kind = e.kind

\* What the anomaly detectors report is there, and nothing of what they are for is passed over (domain/anomaly.py).
AnomaliesAreReal ==
    NewIsNew /\ ChainFromEitherLeg /\ OneReasonOnce /\ QuietIsQuiet /\ LoudIsLouder /\ OneThingOneDetection
=============================================================================
