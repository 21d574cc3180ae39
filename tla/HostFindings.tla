---------------------------- MODULE HostFindings ----------------------------
(***************************************************************************)
(* What the hourly analysis says of a host, and how the focus list ranks   *)
(* it: the ransomware breakdown with its action lists, the pattern of its  *)
(* tamper events with the known causes, and the items made of both.        *)
(*                                                                         *)
(* findingCase holds one host and what the program says of it.  Gaps are   *)
(* minutes; a percentage, a median or a quartile is kept as a numerator.   *)
(***************************************************************************)
EXTENDS Integers, Sequences, SequencesExt, FiniteSetsExt

CONSTANTS
    MaxGaps,    \* bound: gaps between a host's tamper events
    GapMinutes, \* their lengths
    Missing     \* a field that is not given

ASSUME FindingsAssumption == MaxGaps \in Nat /\ GapMinutes \subseteq Nat

VARIABLE findingCase

NoFinding == [part |-> "none"]
FindingsInit == findingCase = NoFinding

-----------------------------------------------------------------------------
(* domain/ransomware.py                                                    *)

Weight == [critical |-> 40, high |-> 30, medium |-> 20, low |-> 10]
\* service_coverage: percent, or Missing for a state that says neither.
ServiceCoverage(state) == CASE state = "protected" -> 100 [] state = "unprotected" -> 0 [] OTHER -> Missing
\* Mutation of Effective: the PCE's own state whatever the mode.
EffectiveOfState(mode, state) == ServiceCoverage(state)
Effective(mode, state) ==
    CASE mode = "full" -> 100 [] mode \in {"visibility_only", "idle"} -> 0 [] mode = "selective" -> ServiceCoverage(state) [] OTHER -> Missing
\* _classify: without traffic data nothing is guessed.
\* Mutation of Classify: traffic that is not known is none.
ClassifyUnseen(coverage, listening, sources) ==
    IF coverage = 100 THEN "protected" ELSE IF coverage # 0 THEN "unknown"
    ELSE IF sources # Missing /\ sources > 0 THEN (IF listening THEN "priority" ELSE "suspicious") ELSE IF listening THEN "safe_to_block" ELSE "unknown"
Classify(coverage, listening, sources) ==
    IF coverage = 100 THEN "protected" ELSE IF coverage # 0 \/ sources = Missing THEN "unknown"
    ELSE IF sources > 0 THEN (IF listening THEN "priority" ELSE "suspicious") ELSE IF listening THEN "safe_to_block" ELSE "unknown"
\* By the effective state, or with no mode by the service's own.
TrafficClass(mode, s) ==
    Classify(IF Effective(mode, s.state) = Missing THEN ServiceCoverage(s.state) ELSE Effective(mode, s.state), s.listening, s.sources)
SumOver(services, V(_)) == MapThenSumSet(LAMBDA i : V(services[i]), DOMAIN services)
HostBreakdown(mode, percent, services) ==
    LET Known(s) == s.severity # Missing /\ Effective(mode, s.state) # Missing
        total == SumOver(services, LAMBDA s : IF Known(s) THEN Weight[s.severity] ELSE 0)
        sum == SumOver(services, LAMBDA s : IF Known(s) THEN Weight[s.severity] * Effective(mode, s.state) ELSE 0)
        apart == percent * total - sum
    IN [sum |-> sum, total |-> total, class |-> [i \in DOMAIN services |-> TrafficClass(mode, services[i])],
        contradiction |-> percent # Missing /\ total > 0 /\ (IF apart < 0 THEN -apart ELSE apart) > 25 * total]
\* ransomware_items: a service of the priority list that is critical or high stays so, any other is medium.
RansomwareItems(services, b) ==
    {[fp |-> <<"rw", services[i].port>>, severity |-> IF services[i].severity \in {"critical", "high"} THEN services[i].severity ELSE "medium"] :
        i \in {i \in DOMAIN services : b.class[i] = "priority"}}
    \cup (IF b.contradiction THEN {[fp |-> <<"rw-contradiction">>, severity |-> "low"]} ELSE {})

RiskyServices ==
    [port : {445, 3389}, severity : {"critical", "low", Missing}, state : {"protected", "unprotected", Missing}, listening : BOOLEAN, sources : {0, 2, Missing}]
AskHostRisk ==
    \E mode \in {"full", "selective", "visibility_only", "idle", Missing}, percent \in {Missing, 0, 60, 100}, one, two \in RiskyServices :
       /\ one.port < two.port /\ two.listening /\ (two.severity = Missing => two.sources = 2)
       /\ LET b == HostBreakdown(mode, percent, <<one, two>>)
          IN findingCase' = [part |-> "risk", mode |-> mode, pce |-> percent, services |-> <<one, two>>, says |-> b, items |-> RansomwareItems(<<one, two>>, b)]
\* A fully enforced host has nothing to do and is not marked while the PCE says 75 or more; what is called safe to block was seen
\* idle; a service in use that nothing protects is an item; the percentage is one; a number 25 points off is marked.
RiskHolds(q) ==
    LET b == q.says IN
    /\ 0 <= b.sum /\ b.sum <= 100 * b.total
    /\ q.mode = "full" => (\A i \in 1 .. 2 : b.class[i] = "protected") /\ (q.pce = 100 => ~b.contradiction)
    /\ q.mode = Missing => b.total = 0 /\ ~b.contradiction
    /\ b.contradiction => ~(q.pce * b.total <= b.sum + 25 * b.total /\ b.sum <= (q.pce + 25) * b.total)
    /\ \A i \in 1 .. 2 :
          LET s == q.services[i] IN
          /\ b.class[i] = "safe_to_block" => s.sources = 0
          /\ s.sources = 2 /\ s.listening /\ s.state = "unprotected" /\ q.mode # "full" => \E it \in q.items : it.fp = <<"rw", s.port>>

-----------------------------------------------------------------------------
(* domain/tamper.py                                                        *)

\* The gaps come sorted: the median times 2, and the i-th quartile times 4 as statistics.quantiles interpolates it.
Median2(g) == IF Len(g) % 2 = 1 THEN 2 * g[(Len(g) + 1) \div 2] ELSE g[Len(g) \div 2] + g[Len(g) \div 2 + 1]
Quartile4(g, i) ==
    LET m == Len(g) + 1
        at == (i * m) \div 4
        j == IF at < 1 THEN 1 ELSE IF at > Len(g) - 1 THEN Len(g) - 1 ELSE at
        delta == i * m - j * 4
    IN g[j] * (4 - delta) + g[j + 1] * delta
Regular(g) == Len(g) + 1 >= 6 /\ 2 * (Quartile4(g, 3) - Quartile4(g, 1)) <= Median2(g)
\* Mutation of PatternOf: a burst is looked for first.
PatternOfBurstFirst(gaps) ==
    LET g == SortSeq(gaps, <)
    IN IF Len(g) < 2 THEN "too_few" ELSE IF Median2(g) <= 4 THEN "burst" ELSE IF Regular(g) THEN "regular_cycle" ELSE "sporadic"
PatternOf(gaps) ==
    LET g == SortSeq(gaps, <)
    IN IF Len(g) < 2 THEN "too_few" ELSE IF Regular(g) THEN "regular_cycle" ELSE IF Median2(g) <= 4 THEN "burst" ELSE "sporadic"

\* explained_by: the first known cause whose every field that is set matches, 0 for none.
\* Mutation of CauseMatches: the pattern is not compared.
CauseMatchesAnyPattern(c, reading, host, pattern) == c.host \in {Missing, host} /\ c.process \in {Missing, reading.process}
CauseMatches(c, reading, host, pattern) ==
    c.host \in {Missing, host} /\ c.pattern \in {Missing, pattern} /\ c.process \in {Missing, reading.process}
ExplainedBy(reading, host, pattern, causes) ==
    LET hits == {i \in DOMAIN causes : CauseMatches(causes[i], reading, host, pattern)} IN IF hits = {} THEN 0 ELSE Min(hits)
\* interpret: a signal event gives its process, a confirmed one never does.
ReadingOf(signal) == [process |-> IF signal THEN "nft" ELSE Missing, signal |-> signal]
\* The readings of a host's events of which the last are signals, oldest first.
ReadingsOf(gaps, signals) == [i \in 1 .. Len(gaps) + 1 |-> ReadingOf(i > Len(gaps) + 1 - signals)]

\* host_tamper takes every event's time, tamper_summary the distinct ones.
HostTamper(gaps, readings, causes) ==
    LET by == [i \in DOMAIN readings |-> ExplainedBy(readings[i], "h", PatternOf(gaps), causes)]
    IN [pattern |-> PatternOf(gaps), explained |-> [c \in DOMAIN causes |-> Cardinality({i \in DOMAIN by : by[i] = c})]]
TamperSummary(gaps, readings, causes, recent) ==
    LET pattern == PatternOf(SelectSeq(gaps, LAMBDA x : x > 0))
    IN [pattern |-> pattern, signal |-> \E i \in DOMAIN readings : readings[i].signal,
        unexplained |-> Cardinality({i \in DOMAIN readings : i > Len(readings) - recent /\ ExplainedBy(readings[i], "h", pattern, causes) = 0})]
\* tamper_items
TamperItems(summary) ==
    IF summary.unexplained = 0 THEN {}
    ELSE {[fp |-> <<"tamper">>, severity |-> IF summary.pattern = "burst" THEN (IF summary.signal THEN "critical" ELSE "high")
                                            ELSE IF summary.signal THEN "high" ELSE "medium"]}

Causes == [host : {Missing, "h", "other"}, pattern : {Missing, "regular_cycle", "burst"}, process : {Missing, "nft"}]
NonDecreasing(g) == \A i \in 1 .. Len(g) - 1 : g[i] <= g[i + 1]
AskTamper ==
    \E n \in 0 .. MaxGaps : \E gaps \in {g \in [1 .. n -> GapMinutes] : NonDecreasing(g)}, signals \in {0, 1}, one \in Causes,
          two \in {c \in Causes : c.host = Missing /\ (c.pattern = Missing) = (c.process # Missing)}, recent \in {1, n + 1} :
       LET readings == ReadingsOf(gaps, signals)
           summary == TamperSummary(gaps, readings, <<one, two>>, recent)
       IN findingCase' = [part |-> "tamper", gaps |-> gaps, readings |-> readings, causes |-> <<one, two>>, recent |-> recent,
                          page |-> HostTamper(gaps, readings, <<one, two>>), says |-> summary, items |-> TamperItems(summary)]
\* A regular cycle has most of its gaps within a quarter of the middle one, and from eight events on one missed beat leaves it
\* regular.  The summary and the host's page name one pattern and between them account for every reading, when no two events
\* share a time.  A known cause for a pattern says nothing of another one.
TamperHolds(q) ==
    LET g == q.gaps
        n == Len(g)
        Near(x) == LET d == 2 * x - Median2(g) IN 4 * (IF d < 0 THEN -d ELSE d) <= Median2(g)
        steady == n > 0 /\ \A i \in 1 .. n - 1 : g[i] = g[1]
    IN /\ q.page.pattern = "regular_cycle" => n >= 5 /\ 2 * Cardinality({i \in 1 .. n : Near(g[i])}) >= n
       /\ n >= 7 /\ steady /\ g[n] \in {g[1], 2 * g[1]} => q.page.pattern = "regular_cycle"
       /\ n >= 5 /\ steady /\ g[n] = g[1] => q.page.pattern = "regular_cycle"
       /\ (\A i \in 1 .. n : g[i] > 0) =>
             /\ q.page.pattern = q.says.pattern
             /\ q.recent = n + 1 => q.says.unexplained + q.page.explained[1] + q.page.explained[2] = n + 1
       /\ (\A c \in Range(q.causes) : c.pattern \notin {Missing, q.says.pattern} \/ c.host = "other") =>
             q.says.unexplained = Min({q.recent, n + 1}) /\ q.items # {}

-----------------------------------------------------------------------------
(* domain/focus.py: score and rank                                         *)

Points == [low |-> 1, medium |-> 2, high |-> 4, critical |-> 8]
Trust == [low |-> 6, medium |-> 8, high |-> 10]
Week == 7
\* In thousandths; an item is new until a week after it was first seen.
NewThisWeek(age) == age < Week
\* Mutation of Score: a new item counts double, a critical asset too.
ScoreTwice(it) == Points[it.severity] * (IF it.critical THEN 20 ELSE 10) * (IF NewThisWeek(it.age) THEN 20 ELSE 10) * Trust[it.confidence]
Score(it) == Points[it.severity] * (IF it.critical THEN 15 ELSE 10) * (IF NewThisWeek(it.age) THEN 13 ELSE 10) * Trust[it.confidence]
RankedBefore(a, b) == Score(a) > Score(b) \/ (Score(a) = Score(b) /\ a.fp < b.fp)
RankItems(items) == SetToSortSeq(items, RankedBefore)
\* _confidence of a detection: low coverage first, then gaps.
ConfidenceOf(total, covered, gaps) == IF total > 0 /\ covered # Missing /\ covered * 5 < total THEN "low" ELSE IF gaps THEN "medium" ELSE "high"
FocusItems(fp) == [fp : {fp}, severity : DOMAIN Points, critical : BOOLEAN, age : {0, Week}, confidence : {ConfidenceOf(10, c, g) : c \in {1, 2}, g \in BOOLEAN}]
AskRanking ==
    \E a \in FocusItems(1), b \in FocusItems(2) : findingCase' = [part |-> "rank", given |-> {a, b}, ranked |-> RankItems({a, b})]
\* Severity comes first by two grades: no asset, age or trust lifts an item over one that is two grades worse; of two items
\* alike but in one of them, the worse comes first.
RankHolds(q) ==
    LET first == q.ranked[1] second == q.ranked[2] IN
    /\ Len(q.ranked) = 2
    /\ Points[second.severity] <= 2 * Points[first.severity]
    /\ Points[second.severity] >= Points[first.severity] /\ (first.critical => second.critical) /\ (NewThisWeek(first.age) => NewThisWeek(second.age))
          /\ Trust[second.confidence] >= Trust[first.confidence] => Score(first) = Score(second)

-----------------------------------------------------------------------------
FindingsNext == findingCase = NoFinding /\ (AskHostRisk \/ AskTamper \/ AskRanking)

\* What the host's page, the hourly summary and the focus list say agrees with what was seen (domain/ransomware.py,
\* domain/tamper.py, domain/focus.py).
FindingsAreTrue ==
    CASE findingCase.part = "risk" -> RiskHolds(findingCase)
      [] findingCase.part = "tamper" -> TamperHolds(findingCase)
      [] findingCase.part = "rank" -> RankHolds(findingCase)
      [] OTHER -> TRUE
=============================================================================
