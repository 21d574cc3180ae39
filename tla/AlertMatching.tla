---------------------------- MODULE AlertMatching ----------------------------
(***************************************************************************)
(* What an alert rule makes of the facts: event patterns, thresholds and   *)
(* windows, the cooldown and throttle gate, exclusions and known causes,   *)
(* and the pages that say beforehand what a rule would do: the preview,    *)
(* the rule test and the list of rules held back.                          *)
(*                                                                         *)
(* matchCase holds one question and what the program answers.              *)
(***************************************************************************)
EXTENDS HostFindings

CONSTANTS
    MaxEventTime, \* events come at 1 .. MaxEventTime, at most one at a time
    Every,        \* events_interval_seconds, in the same unit
    PreviewStart, \* where the previewed period starts
    RuleWindow    \* window_minutes of a count rule

ASSUME MatchingAssumption == {MaxEventTime, Every, PreviewStart, RuleWindow} \subseteq Nat /\ Every > 0

VARIABLE matchCase

NotAskedYet == [part |-> "none"]
MatchingInit == FindingsInit /\ matchCase = NotAskedYet
Never == -100

-----------------------------------------------------------------------------
(* Event rules.  A pattern of types is exact (a name or alternatives), a   *)
(* regular expression given by what it matches, or anything.               *)

TypeMatches(p, type) == p.kind = "any" \/ type \in p.types
UsesRegex(rule) == \E p \in rule.types : p.kind # "exact"
ExactTypes(rule) == UNION {p.types : p \in {p \in rule.types : p.kind = "exact"}}
\* The PCE sends err where a rule may say error.
CanonSeverity(v) == IF v = "error" THEN "err" ELSE v
\* A pattern of severities: anything, one of some, or the negation of either.
\* Mutation of SeverityMatches: the names as they are written.
SeverityMatchesAsWritten(p, v) == ((p.of = {}) \/ v \in p.of) = ~p.not
SeverityMatches(p, v) == ((p.of = {}) \/ CanonSeverity(v) \in {CanonSeverity(x) : x \in p.of}) = ~p.not
EventMatches(rule, e) == (\E p \in rule.types : TypeMatches(p, e.type)) /\ SeverityMatches(rule.severity, e.severity)

SubjectOf(e) == IF e.host = Missing THEN e.type ELSE e.host
\* evaluate_event_rule: the subjects that alert, each with its events.
EvaluateEventRule(rule, batch, count) ==
    LET matched == {e \in batch : EventMatches(rule, e)}
        group == [s \in {SubjectOf(e) : e \in matched} |-> {e \in matched : SubjectOf(e) = s}]
    IN IF matched = {} THEN {}
       ELSE IF rule.counts THEN (IF count < rule.threshold THEN {} ELSE {[subject |-> "rule", events |-> matched]})
       ELSE {[subject |-> s, events |-> group[s]] : s \in {s \in DOMAIN group : Cardinality(group[s]) >= rule.threshold}}

-----------------------------------------------------------------------------
(* gate: cooldown first, then a sliding window.                            *)

NeverFired == [last |-> Never, recent |-> <<>>]
\* Mutation of WithinPeriod: the period is cut short.
WithinPeriodCut(rule, recent, atTime) == SelectSeq(recent, LAMBDA t : t > atTime - rule.period + 2)
WithinPeriod(rule, recent, atTime) == SelectSeq(recent, LAMBDA t : t > atTime - rule.period)
Gate(rule, st, atTime) ==
    LET recent == IF rule.count > 0 THEN WithinPeriod(rule, st.recent, atTime) ELSE <<>>
        left == [last |-> st.last, recent |-> recent]
    IN IF rule.cooldown > 0 /\ st.last # Never /\ atTime < st.last + rule.cooldown
       THEN [allowed |-> FALSE, until |-> st.last + rule.cooldown, state |-> left]
       ELSE IF rule.count > 0 /\ Len(recent) >= rule.count
       THEN [allowed |-> FALSE, until |-> recent[1] + rule.period, state |-> left]
       ELSE [allowed |-> TRUE, until |-> atTime, state |-> [last |-> atTime, recent |-> IF rule.count > 0 THEN Append(recent, atTime) ELSE <<>>]]
StateFor(states, s) == IF s \in DOMAIN states THEN states[s] ELSE NeverFired
\* The triggers of one moment, through the gate: the states kept and the alerts let through.
Gated(rule, acc, triggers, at) ==
    LET subjects == {t.subject : t \in triggers}
        g == [s \in subjects |-> Gate(rule, StateFor(acc.states, s), at)]
    IN [acc EXCEPT !.states = [s \in DOMAIN @ \cup subjects |-> IF s \in subjects THEN g[s].state ELSE @[s]],
                   !.fired = @ \cup {[at |-> at, subject |-> s] : s \in {s \in subjects : g[s].allowed}}]

-----------------------------------------------------------------------------
(* The preview against what live evaluation lets through.                  *)

\* The collection cycles of the period, and the one after it.
Cycles == SelectSeq([k \in 1 .. MaxEventTime |-> PreviewStart + k * Every], LAMBDA at : at <= MaxEventTime + Every)
NothingFired == [states |-> <<>>, fired |-> {}, mark |-> PreviewStart]
\* Mutation of PreviewBatch: the moment of the last cycle is in it too.
PreviewBatchClosed(events, at) == {e \in events : at - Every <= e.at /\ e.at <= at}
PreviewBatch(events, at) == {e \in events : at - Every < e.at /\ e.at <= at}
PreviewEvents(rule, events) ==
    LET read == {e \in events : e.at > PreviewStart - RuleWindow /\ (UsesRegex(rule) \/ e.type \in ExactTypes(rule))}
        matched == {e \in read : EventMatches(rule, e)}
    IN FoldLeft(LAMBDA acc, at :
                   LET count == Cardinality({e \in matched : at - RuleWindow < e.at /\ e.at <= at})
                   IN Gated(rule, acc, EvaluateEventRule(rule, PreviewBatch(matched, at), count), at),
                NothingFired, Cycles).fired
\* evaluate_events after each cycle: the events stored after the watermark, an event's time being its id here.
WindowMatches(rule, events, at) ==
    Cardinality({e \in events : at - RuleWindow < e.at /\ e.at <= at /\ (UsesRegex(rule) \/ e.type \in ExactTypes(rule)) /\ EventMatches(rule, e)})
EvaluateEvents(rule, events) ==
    FoldLeft(LAMBDA acc, at :
                LET stored == {e \in events : e.at <= at}
                    new == {e \in stored : e.at > acc.mark}
                    triggers == EvaluateEventRule(rule, new, IF rule.counts THEN WindowMatches(rule, stored, at) ELSE 0)
                IN [Gated(rule, acc, triggers, at) EXCEPT !.mark = Max({acc.mark} \cup {e.at : e \in stored})],
             NothingFired, Cycles).fired

Patterns == {{[kind |-> "exact", types |-> {"tamper"}]}, {[kind |-> "exact", types |-> {"tamper", "suspend"}]},
             {[kind |-> "exact", types |-> {"suspend"}], [kind |-> "regex", types |-> {"tamper"}]}}
Limits == {[cooldown |-> 0, count |-> 0, period |-> 1], [cooldown |-> 3, count |-> 0, period |-> 1], [cooldown |-> 0, count |-> 1, period |-> 4]}
AnySeverity == [of |-> {}, not |-> FALSE]
RuleWith(types, severity, counts, threshold, limit) ==
    [types |-> types, severity |-> severity, counts |-> counts, threshold |-> threshold,
     cooldown |-> limit.cooldown, count |-> limit.count, period |-> limit.period]
\* At each time nothing, or one of these.
Happens == {[type |-> "none", host |-> Missing], [type |-> "tamper", host |-> "h1"], [type |-> "tamper", host |-> "h2"], [type |-> "suspend", host |-> Missing]}
AskPreview ==
    \E h \in [1 .. MaxEventTime -> Happens], types \in Patterns, limit \in Limits, how \in {<<FALSE, 1>>, <<FALSE, 2>>, <<TRUE, 2>>} :
       LET rule == RuleWith(types, AnySeverity, how[1], how[2], limit)
           events == {[at |-> t, type |-> h[t].type, host |-> h[t].host, severity |-> "err"] : t \in {t \in DOMAIN h : h[t].type # "none"}}
       IN matchCase' = [part |-> "preview", rule |-> rule, events |-> events,
                        says |-> PreviewEvents(rule, events), does |-> EvaluateEvents(rule, events)]
\* "what live evaluation would have let through", and never two alerts of a subject closer than the cooldown, nor more in a
\* period than the throttle lets through.
PreviewHolds(q) ==
    /\ q.says = q.does
    /\ \A a, b \in q.does : a.subject = b.subject /\ a.at < b.at => b.at - a.at >= q.rule.cooldown
    /\ q.rule.count > 0 => \A a \in q.does :
          Cardinality({b \in q.does : b.subject = a.subject /\ a.at - q.rule.period < b.at /\ b.at <= a.at}) <= q.rule.count

\* An event whose severity is given the other way is matched alike, and a negation matches what the pattern does not.
AskSeverity ==
    \E of \in SUBSET {"err", "error", "info"}, v \in {"err", "info", Missing} :
       matchCase' = [part |-> "severity", of |-> of, value |-> v, is |-> SeverityMatches([of |-> of, not |-> FALSE], v),
                     isNot |-> SeverityMatches([of |-> of, not |-> TRUE], v)]
SeverityHolds(q) == q.is # q.isNot /\ (q.value = "err" => q.is = (q.of = {} \/ q.of \cap {"err", "error"} # {}))

-----------------------------------------------------------------------------
(* _tamper: what of a tampering alert a known cause explains.              *)

\* Its own events, or every tampering event of the batch when it has none.
TamperingOf(trigger, matched) ==
    LET all == {e \in matched : e.type = "tamper"} own == {e \in all : SubjectOf(e) = trigger.subject}
    IN IF own = {} THEN all ELSE own
\* The cause that explains a reading of its own host; 0 for none.
CausesOf(events, patterns, causes) ==
    {IF e.host = Missing THEN 0 ELSE ExplainedBy([process |-> e.process], e.host, patterns[e.host], causes) : e \in events}
\* 0: not grouped; else the cause that explains every reading.
\* Mutation of GroupedUnder: that explains one of them.
GroupedUnderAny(trigger, matched, patterns, causes) ==
    LET explained == CausesOf(TamperingOf(trigger, matched), patterns, causes) \ {0} IN IF explained = {} THEN 0 ELSE Min(explained)
GroupedUnder(trigger, matched, patterns, causes) ==
    LET explained == CausesOf(TamperingOf(trigger, matched), patterns, causes) IN IF Cardinality(explained) = 1 THEN Min(explained) ELSE 0
KnownCauses == {c \in [host : {Missing, "h1"}, pattern : {Missing, "burst"}, process : {Missing, "nft"}] : \E k \in {"host", "pattern", "process"} : c[k] # Missing}
AskGrouped ==
    \E n \in 1 .. 3 : \E types \in [1 .. n -> {"tamper", "suspend"}], hosts \in [1 .. n -> {"h1", "h2", Missing}], process \in {Missing, "nft"},
       causes \in {<<c>> : c \in KnownCauses}, counts \in BOOLEAN, second \in {"burst", "sporadic"} :
       LET batch == {[at |-> i, type |-> types[i], host |-> hosts[i], severity |-> "err", process |-> IF i = 1 THEN process ELSE Missing] : i \in 1 .. n}
           rule == RuleWith({[kind |-> "exact", types |-> {"tamper", "suspend"}]}, AnySeverity, counts, 1, [cooldown |-> 0, count |-> 0, period |-> 1])
           patterns == [h1 |-> "burst", h2 |-> second]
           triggers == EvaluateEventRule(rule, batch, n)
       IN matchCase' = [part |-> "grouped", causes |-> causes, patterns |-> patterns, counts |-> counts,
                        says |-> {[of |-> t, under |-> GroupedUnder(t, batch, patterns, causes)] : t \in triggers}]
ExplainsAll(q, g) ==
    \A e \in {e \in g.of.events : e.type = "tamper"} :
       e.host # Missing /\ CauseMatches(q.causes[g.under], [process |-> e.process], e.host, q.patterns[e.host])
\* An alert held back as explained has no tampering its cause does not explain.
GroupedHolds(q) == \A g \in q.says : g.under # 0 => ExplainsAll(q, g)
\* "An immediate rule's trigger is one host's (or one event type's): read only its own events" (services/alerts/evaluate.py:231).
\* An alert is held back under a known cause only for tampering of its own.
HeldBackForItsOwn ==
    matchCase.part = "grouped" /\ ~matchCase.counts => \A g \in matchCase.says : g.under # 0 => \E e \in g.of.events : e.type = "tamper"

-----------------------------------------------------------------------------
(* Lateral rules: the verdict, its exclusion, and the rule test.           *)

Grades == <<"low", "medium", "high", "critical">>
Grade(s) == CHOOSE i \in 1 .. 4 : Grades[i] = s
\* Every source matches, or every target; never with the ends unknown.
\* Mutation of Excluded: any of them.
ExcludedByAny(exclude, ends) == exclude # {} /\ ends # {} /\ \E e \in ends : e.host \in exclude
Excluded(exclude, ends) ==
    exclude # {} /\ ends # {} /\ \E role \in {"s", "t"} :
       LET side == {e \in ends : e.role = role} IN side # {} /\ \A e \in side : e.host \in exclude
LateralRuleReason(rule, d) ==
    IF d.detector \notin rule.detectors THEN "other_detector" ELSE IF Grade(d.severity) < Grade(rule.min) THEN "below_severity"
    ELSE IF rule.critical /\ ~d.critical THEN "not_critical" ELSE IF Excluded(rule.exclude, d.ends) THEN "excluded" ELSE "none"
\* _result of the rule test
RuleTest(rule, d, st, atTime) ==
    IF ~rule.enabled THEN [alerts |-> FALSE, sent |-> FALSE, why |-> "disabled"]
    ELSE IF LateralRuleReason(rule, d) # "none" THEN [alerts |-> FALSE, sent |-> FALSE, why |-> LateralRuleReason(rule, d)]
    ELSE IF ~Gate(rule, st, atTime).allowed THEN [alerts |-> FALSE, sent |-> FALSE, why |-> "held"]
    ELSE [alerts |-> TRUE, sent |-> rule.notify, why |-> "none"]
\* evaluate_lateral on a new detection, with apply_known and the recorder's hold.
EvaluateLateral(rules, d, st, marks, atTime) ==
    LET on == {r \in rules : r.enabled}
        taken == {r \in on : d.detector \in UNION {x.detectors : x \in on} /\ LateralRuleReason(r, d) = "none" /\ Gate(r, st, atTime).allowed}
        known == \E m \in marks : m.detector = d.detector /\ m.subject = d.subject /\ m.fingerprint \in {Missing, d.fingerprint}
    IN {[alert |-> r, hold |-> IF known THEN "grouped" ELSE IF r.notify THEN "none" ELSE "not_notified"] : r \in taken}
Marks == {{}, {[detector |-> "fanout", subject |-> "h1", fingerprint |-> Missing]}, {[detector |-> "fanout", subject |-> "h1", fingerprint |-> 2]}}
LateralRules ==
    [enabled : BOOLEAN, notify : BOOLEAN, detectors : {{"fanout"}, {"fanout", "surge"}}, min : {"low", "high"}, critical : BOOLEAN,
     exclude : {{}, {"h1"}}, cooldown : {0, 2}, count : {0, 1}, period : {3}]
AskRuleTest ==
    \E rule \in LateralRules, detector \in {"fanout", "surge"}, severity \in {"medium", "high"}, critical \in BOOLEAN,
       ends \in {{}, {<<"s", "h1">>, <<"t", "h2">>}, {<<"s", "h1">>, <<"s", "h2">>, <<"t", "h3">>}}, last \in {Never, 1, 3}, marks \in Marks :
       LET d == [detector |-> detector, subject |-> "h1", fingerprint |-> 1, severity |-> severity, critical |-> critical, ends |-> {[role |-> e[1], host |-> e[2]] : e \in ends}]
           st == [last |-> last, recent |-> IF last = Never THEN <<>> ELSE <<last>>]
       IN matchCase' = [part |-> "test", rule |-> rule, d |-> d, marks |-> marks, says |-> RuleTest(rule, d, st, 4), does |-> EvaluateLateral({rule}, d, st, marks, 4)]
\* The test says of a detection what evaluating it does, but for what is known; one stray source or target never silences the rest.
TestHolds(q) ==
    /\ q.says.alerts = (q.does # {})
    /\ \A a \in q.does : (a.hold # "grouped" => q.says.sent = (a.hold = "none")) /\ (a.hold = "grouped" => q.marks # {})
    /\ q.says.why = "excluded" => \A e \in q.d.ends : e.host = "h2" => \E o \in q.d.ends : o.role # e.role /\ o.host = "h1"

-----------------------------------------------------------------------------
(* The best-practice pack, and the rules held back.                        *)

Pack == <<[id |-> 1, is |-> "default"], [id |-> 2, is |-> "default"]>>
IdsOf(rules) == {rules[i].id : i \in DOMAIN rules}
\* Mutation of ApplyPack: what was there is put back whole, as 5.x did.
ApplyPackOver(current, mode) == IF mode = "replace" THEN Pack ELSE current \o SelectSeq(Pack, LAMBDA p : p.id \notin IdsOf(current))
ApplyPack(current, mode) ==
    LET left == IF mode = "replace" THEN [i \in DOMAIN current |-> IF current[i].id \in IdsOf(Pack) THEN Pack[current[i].id] ELSE current[i]] ELSE current
    IN left \o SelectSeq(Pack, LAMBDA p : p.id \notin IdsOf(current))
AskPack ==
    \E n \in 0 .. 3 : \E current \in [1 .. n -> [id : 1 .. 4, is : {"default", "edited"}]], mode \in {"append_missing", "replace"} :
       /\ Cardinality(IdsOf(current)) = n
       /\ matchCase' = [part |-> "pack", current |-> current, mode |-> mode, says |-> ApplyPack(current, mode)]
\* The operator's own rules stay as they are and where they are, every pack rule is there once, and applying twice changes nothing.
PackHolds(q) ==
    /\ IdsOf(q.says) = IdsOf(q.current) \cup {1, 2} /\ Len(q.says) = Cardinality(IdsOf(q.says))
    /\ \A i \in DOMAIN q.current : q.current[i].id > 2 \/ q.mode = "append_missing" => q.says[i] = q.current[i]
    /\ q.mode = "replace" => \A i \in DOMAIN q.says : q.says[i].id <= 2 => q.says[i].is = "default"
    /\ ApplyPack(q.says, q.mode) = q.says

\* _hold: the subject that is let through last.
HoldOf(rule, states, atTime) ==
    LET stopped == {s \in DOMAIN states : ~Gate(rule, states[s], atTime).allowed}
    IN [subjects |-> Cardinality(stopped), until |-> IF stopped = {} THEN atTime ELSE Max({Gate(rule, states[s], atTime).until : s \in stopped})]
AskHold ==
    \E cooldown \in {0, 2, 5}, count \in 0 .. 2, period \in {1, 3}, states \in [{"h1", "h2"} -> {<<>>, <<1>>, <<2>>, <<1, 2>>, <<1, 3>>}], atTime \in 3 .. 5 :
       LET rule == [cooldown |-> cooldown, count |-> count, period |-> period]
           st == [s \in DOMAIN states |-> [last |-> IF states[s] = <<>> THEN Never ELSE Last(states[s]), recent |-> states[s]]]
       IN matchCase' = [part |-> "hold", rule |-> rule, states |-> st, now |-> atTime, says |-> HoldOf(rule, st, atTime)]
\* Until then a subject is held back, at every moment; and a rule said to hold none back lets each through.
HoldHolds(q) ==
    /\ \A t \in q.now .. q.says.until - 1 : \E s \in DOMAIN q.states : ~Gate(q.rule, q.states[s], t).allowed
    /\ q.says.subjects = 0 => \A s \in DOMAIN q.states : Gate(q.rule, q.states[s], q.now).allowed

-----------------------------------------------------------------------------
(* _hosts_of: the hosts an event names, in the inventory.                  *)

\* By its VEN, else by its href, else by a name that one host alone has.
\* Mutation of HostOf: the first host of the name.
HostOfFirst(inventory, e) ==
    LET alike == {h \in inventory : h.name = e.name}
    IN IF \E h \in inventory : h.ven = e.ven THEN (CHOOSE h \in inventory : h.ven = e.ven).href
       ELSE IF \E h \in inventory : h.href = e.href THEN e.href ELSE IF alike # {} THEN Min({h.href : h \in alike}) ELSE 0
HostOf(inventory, e) ==
    LET alike == {h \in inventory : h.name = e.name}
    IN IF \E h \in inventory : h.ven = e.ven THEN (CHOOSE h \in inventory : h.ven = e.ven).href
       ELSE IF \E h \in inventory : h.href = e.href THEN e.href ELSE IF Cardinality(alike) = 1 THEN (CHOOSE h \in alike : TRUE).href ELSE 0
ResolveHosts(inventory, entities) ==
    [hosts |-> {HostOf(inventory, entities[i]) : i \in DOMAIN entities} \ {0},
     unmatched |-> IF entities = <<>> THEN 1 ELSE Cardinality({i \in DOMAIN entities : HostOf(inventory, entities[i]) = 0})]
Entities == [ven : {1, 9}, href : {2, 9}, name : {"a", "b", "c"}]
AskHosts ==
    \E n \in 0 .. 2 : \E entities \in [1 .. n -> Entities], twice \in BOOLEAN :
       LET inventory == {[href |-> 1, ven |-> 1, name |-> "a"], [href |-> 2, ven |-> 2, name |-> "b"], [href |-> 3, ven |-> 3, name |-> IF twice THEN "b" ELSE "c"]}
       IN matchCase' = [part |-> "hosts", entities |-> entities, inventory |-> inventory, says |-> ResolveHosts(inventory, entities)]
\* "Events that match no host are counted, not dropped", each host on its own; no name two hosts share places an event.
HostsHold(q) ==
    LET Names(e, h) == h.ven = e.ven \/ h.href = e.href \/ (h.name = e.name /\ \A o \in q.inventory : o.name = h.name => o = h) IN
    /\ q.says.hosts # {} \/ q.says.unmatched > 0
    /\ \A i \in DOMAIN q.entities : (\E h \in q.inventory : Names(q.entities[i], h)) => \E h \in q.inventory : h.href \in q.says.hosts /\ Names(q.entities[i], h)
    /\ \A x \in q.says.hosts : \E i \in DOMAIN q.entities, h \in q.inventory : h.href = x /\ Names(q.entities[i], h)
    /\ Cardinality(q.says.hosts) + q.says.unmatched <= Max({1, Len(q.entities)})

-----------------------------------------------------------------------------
MatchingNext ==
    /\ matchCase = NotAskedYet /\ UNCHANGED findingCase
    /\ AskPreview \/ AskSeverity \/ AskGrouped \/ AskRuleTest \/ AskPack \/ AskHold \/ AskHosts

MatchingSpec == MatchingInit /\ [][MatchingNext]_<<matchCase, findingCase>>

\* What the rules page says a rule would do is what evaluation does, and each alert is about what it says (domain/alerting.py,
\* domain/alertrules.py, services/alerts/).
RulesDoAsShown ==
    LET q == matchCase
    IN CASE q.part = "preview" -> PreviewHolds(q) [] q.part = "severity" -> SeverityHolds(q) [] q.part = "grouped" -> GroupedHolds(q)
         [] q.part = "test" -> TestHolds(q) [] q.part = "pack" -> PackHolds(q) [] q.part = "hold" -> HoldHolds(q)
         [] q.part = "hosts" -> HostsHold(q) [] OTHER -> TRUE
=============================================================================
