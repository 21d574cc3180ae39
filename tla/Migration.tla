------------------------------ MODULE Migration ------------------------------
(***************************************************************************)
(* What the upgrade from 5.x makes of the settings it finds, part by part, *)
(* and what an upgrade of an installed v6 does to its databases.  Each     *)
(* part is asked about once: migrationCase holds the 5.x input and v6's    *)
(* answer.  Texts are reduced to what the conversions tell apart: a field  *)
(* is good, empty or bad, a name is its letters and its case.              *)
(***************************************************************************)
EXTENDS Integers, Sequences, SequencesExt, FiniteSetsExt

CONSTANTS
    MaxDestinations,   \* MAX_DESTINATIONS
    MaxSchedules,      \* report schedules kept
    LatestSchema,      \* migrations of the program's databases
    Openers,           \* threads and processes that open a database at once
    MaxOpens           \* bound: openings

ASSUME MigrationAssumption == MaxDestinations \in Nat /\ MaxSchedules \in Nat /\ LatestSchema \in Nat

VARIABLES
    migrationCase,     \* the 5.x input asked about and what became of it
    userVersion,       \* PRAGMA user_version of a database
    applied,           \* history: the migrations applied, in order
    opening,           \* opener -> the migrations it still has to look at
    opens              \* openings so far

migrationVars == <<migrationCase, userVersion, applied, opening, opens>>

NotAsked == [part |-> "none"]
Clamped(v, lo, hi) == IF v < lo THEN lo ELSE IF v > hi THEN hi ELSE v
AtLeast(a, b) == IF a > b THEN a ELSE b
AtMost(a, b) == IF a < b THEN a ELSE b

MigrationInit ==
    /\ migrationCase = NotAsked /\ userVersion \in 0 .. LatestSchema + 1
    /\ applied = [i \in 1 .. userVersion |-> i] /\ opening = [o \in Openers |-> <<>>] /\ opens = 0

\* What becomes of the settings does not depend on the databases: it is asked of one that is not open.
MayAsk == migrationCase = NotAsked /\ opens = 0 /\ userVersion = 0
AskAbout(part, input, answer) ==
    /\ migrationCase' = [part |-> part, input |-> input, answer |-> answer]
    /\ UNCHANGED <<userVersion, applied, opening, opens>>

-----------------------------------------------------------------------------
(* CARRY: pce_cache becomes the collection settings.                       *)

\* Mutation of ArchiveDays: only the flows' retention is looked at.
ArchiveDaysOfFlows(c, flow) == IF c.archiveOn /\ c.archive \in 1 .. flow - 1 THEN flow ELSE AtMost(c.archive, 3650)
ArchiveDays(c, flow) ==
    LET floor == AtLeast(flow, AtMost(c.event, 3650)) IN
    LET days == AtMost(c.archive, 3650) IN IF c.archiveOn /\ 0 < days /\ days < floor THEN floor ELSE days
Collection(c) ==
    LET flow == IF c.flow < 30 THEN 35 ELSE AtMost(c.flow, 3650)
    IN [mode |-> IF c.on THEN "full" ELSE "lightweight", flow |-> flow,
        rollup |-> AtMost(AtLeast(c.rollup, flow), 3650), event |-> AtMost(c.event, 3650),
        archiveOn |-> c.archiveOn, archive |-> ArchiveDays(c, flow),
        interval |-> IF c.interval = 3600 THEN 600 ELSE Clamped(c.interval, 300, 86400)]
AskCollection ==
    /\ MayAsk
    /\ \E flow \in {1, 29, 30, 90, 4000}, rollup \in {1, 90, 4000}, event \in {1, 100, 4000}, archive \in {0, 1, 60, 4000} :
       \E on, archiveOn \in BOOLEAN, interval \in {60, 900, 3600, 90000} :
          LET c == [flow |-> flow, rollup |-> rollup, event |-> event, archive |-> archive, on |-> on,
                    archiveOn |-> archiveOn, interval |-> interval]
          IN AskAbout("collection", c, Collection(c))

\* CollectionSettings takes it (RetentionSettings, _raw_outlives_baseline, _archive_outlives_raw), and nothing is kept
\* for less time than 5.x kept it, but for the ten years that are the most.
CollectionHolds(c, v) ==
    /\ {v.flow, v.rollup, v.event} \subseteq 1 .. 3650 /\ v.archive \in 0 .. 3650 /\ v.interval \in 300 .. 86400
    /\ v.rollup >= v.flow /\ (v.mode = "full" => v.flow >= 30)
    /\ v.archiveOn /\ v.archive > 0 => v.archive >= v.flow /\ v.archive >= v.event
    /\ v.flow >= AtMost(c.flow, 3650) /\ v.rollup >= AtMost(c.rollup, 3650) /\ v.event >= AtMost(c.event, 3650)
    /\ (c.archive = 0) = (v.archive = 0)

-----------------------------------------------------------------------------
(* _channels: a channel has required texts and, SMTP, a port.              *)

Texts == {"good", "empty", "bad"}
\* A port beyond its bounds cannot be emptied: it stays, and the whole section is refused.
ChannelInvalid(ch) == ch.text = "bad" \/ ch.port = "bad" \/ (ch.enabled /\ "empty" \in {ch.text, ch.other})
\* Mutation of Channel: what is incomplete is only reported.
ChannelReported(ch) == [ch EXCEPT !.text = IF @ = "bad" THEN "empty" ELSE @]
Channel(ch) ==
    LET off == [ch EXCEPT !.enabled = @ /\ ~ChannelInvalid(ch)]
    IN IF off.text = "bad" THEN [off EXCEPT !.text = "empty", !.enabled = FALSE] ELSE off
AskChannel ==
    /\ MayAsk
    /\ \E enabled \in BOOLEAN, text \in Texts, other \in {"good", "empty"}, port \in {"good", "bad"} :
          LET ch == [enabled |-> enabled, text |-> text, other |-> other, port |-> port]
          IN AskAbout("channel", ch, Channel(ch))

\* "A channel that is on but cannot work is carried off ... and never blocks the migration": true but for the port.
ChannelHolds(ch, v) ==
    /\ v.enabled <=> ch.enabled /\ ch.text = "good" /\ ch.other = "good" /\ ch.port = "good"
    /\ ch.port = "good" => ~ChannelInvalid(v)

-----------------------------------------------------------------------------
(* convert_rule and migrate_alerts.                                        *)

PackIds == {"p_event", "p_system", "p_lateral"}
\* Parts of a rule's condition: one v6 holds only by href or cannot read is lost; a value that does not parse is left
\* out and reported; a part that is there narrows what the rule matches.
Parts == {"label", "iplist", "port"}
NarrowingLost(r) == {p \in DOMAIN r.parts : r.parts[p] = "lost"} \cap {"label", "iplist"}
RuleId(r, used, fresh) ==
    IF r.pack # "none" /\ r.pack \notin used THEN r.pack ELSE IF r.id # "odd" /\ r.id \notin used THEN r.id ELSE fresh
\* Mutation of StaysOn: only a rule that does not validate is turned off.
StaysOnIfValid(r) == r.enabled /\ r.valid
StaysOn(r) == r.enabled /\ r.valid /\ (r.kind = "flow" => NarrowingLost(r) = {})
ConvertRule(r, used, fresh) ==
    [id |-> RuleId(r, used, fresh), pack |-> IF r.kind = "health" THEN "none" ELSE r.pack, enabled |-> StaysOn(r), notify |-> TRUE,
     matches |-> IF r.kind = "flow" THEN {p \in DOMAIN r.parts : r.parts[p] = "kept"} ELSE {}]
\* Ids the program makes up.
FreshIds == <<"new1", "new2">>
\* Rules of an unknown kind are left out and reported.
ConvertAll(rules) ==
    FoldLeft(LAMBDA out, i : IF rules[i].kind = "other" THEN out
                             ELSE Append(out, ConvertRule(rules[i], {out[j].id : j \in 1 .. Len(out)}, FreshIds[i])),
             <<>>, [i \in 1 .. Len(rules) |-> i])
\* The kinds 5.x did not have are added, the lateral ones recording only.
\* Mutation of NewDefaults: the whole pack is added.
NewDefaultsAll(have) == SetToSeq({[id |-> p, pack |-> p, enabled |-> TRUE, notify |-> p # "p_lateral", matches |-> {}] : p \in PackIds \ have})
NewDefaults(have) ==
    SetToSeq({[id |-> p, pack |-> p, enabled |-> TRUE, notify |-> p # "p_lateral", matches |-> {}] :
                 p \in {"p_system", "p_lateral"} \ have})
MigrateAlerts(rules) == LET out == ConvertAll(rules) IN out \o NewDefaults({out[j].id : j \in 1 .. Len(out)})

AskRules ==
    /\ MayAsk
    /\ \E k1 \in {"event", "flow", "health", "other"}, p1 \in {"none", "p_event"}, i1, i2 \in {"a", "b", "odd"}, p2 \in {"none", "p_event", "p_system"} :
       \E enabled, valid \in BOOLEAN, parts \in [Parts -> {"kept", "lost", "absent"}] :
          LET r1 == [kind |-> k1, pack |-> p1, id |-> i1, enabled |-> enabled, valid |-> valid, parts |-> parts]
              r2 == [kind |-> IF p2 = "p_system" THEN "health" ELSE "event", pack |-> p2, id |-> i2, enabled |-> TRUE,
                     valid |-> TRUE, parts |-> [p \in Parts |-> "absent"]]
          IN \E rules \in {<<>>, <<r1>>, <<r1, r2>>} : AskAbout("rules", rules, MigrateAlerts(rules))

\* Ids are unique; a rule that is on matches no more than it did, but for values that did not parse; what was off stays
\* off; a rule of 5.x's pack that was deleted stays deleted, and no lateral rule sends.
RulesHold(rules, v) ==
    /\ \A i, j \in 1 .. Len(v) : v[i].id = v[j].id => i = j
    /\ Len(SelectSeq(rules, LAMBDA r : r.kind # "other")) <= Len(v)
    /\ LET kept == SelectSeq(rules, LAMBDA r : r.kind # "other")
       IN \A i \in 1 .. Len(kept) :
             /\ v[i].enabled => kept[i].enabled /\ kept[i].valid
             /\ v[i].enabled /\ kept[i].kind = "flow" =>
                   {p \in Parts : kept[i].parts[p] # "absent"} \ v[i].matches \subseteq {"port"}
    /\ \A i \in 1 .. Len(v) : /\ v[i].id = "p_event" => \E k \in 1 .. Len(rules) : rules[k].pack = "p_event"
                              /\ v[i].pack = "p_lateral" => ~v[i].notify

-----------------------------------------------------------------------------
(* migrate_siem: a name is [letters, upper]; casefold drops the case.      *)

Casefold(n) == <<n.letters, n.nth>>
\* Mutation of Renamed: compared as written.
RenamedAsWritten(name, names) ==
    LET free == {k \in 1 .. Cardinality(names) + 2 : [name EXCEPT !.nth = k] \notin names} IN [name EXCEPT !.nth = Min(free)]
Renamed(name, names) ==
    LET free == {k \in 1 .. Cardinality(names) + 2 : Casefold([name EXCEPT !.nth = k]) \notin {Casefold(n) : n \in names}}
    IN [name EXCEPT !.nth = Min(free)]
\* SiemDestination: a host that is not a host name is refused even for a draft; an enabled one is complete.
Complete(d) == d.host = "good" /\ (d.hec => d.token)
\* audit and traffic as asked for; traffic becomes new connections; with none left, audit.
SourcesOf(d) ==
    LET named == {IF t = "traffic" THEN "new_connections" ELSE t : t \in d.types \ {"other"}} IN IF named = {} THEN {"audit"} ELSE named
\* Mutation of DestinationOf: an incomplete one is left on.
DestinationLeftOn(i, d, name) == [id |-> <<i, name>>, name |-> name, from |-> i, enabled |-> d.enabled, sources |-> SourcesOf(d)]
DestinationOf(i, d, name) ==
    [id |-> <<i, name>>, name |-> name, from |-> i, enabled |-> d.enabled /\ Complete(d), sources |-> SourcesOf(d)]
MigrateSiem(dests) ==
    FoldLeft(LAMBDA out, i :
                LET d == dests[i] name == Renamed(d.name, out.names) IN
                IF Len(out.list) >= MaxDestinations THEN out
                ELSE [names |-> out.names \cup {name},
                      list |-> IF d.known /\ d.host # "bad" THEN Append(out.list, DestinationOf(i, d, name)) ELSE out.list],
             [names |-> {}, list |-> <<>>], [i \in 1 .. Len(dests) |-> i]).list

Name5(letters, upper) == [letters |-> letters, upper |-> upper, nth |-> 1]
AskDestinations ==
    /\ MayAsk
    /\ \E l1, l2, l3 \in {"a", "b"}, u1, u2 \in BOOLEAN, known \in BOOLEAN, host \in {"good", "empty", "bad"}, hec, token, enabled \in BOOLEAN :
       \E types \in SUBSET {"audit", "traffic", "other"} :
          LET d == [name |-> Name5(l1, u1), known |-> known, host |-> host, hec |-> hec, token |-> token, enabled |-> enabled, types |-> types]
              more == [d EXCEPT !.name = Name5(l2, u2), !.known = TRUE, !.host = "good", !.hec = FALSE, !.types = {"audit"}]
          IN \E dests \in {<<d>>, <<d, more>>, <<d, more, [more EXCEPT !.name = Name5(l3, FALSE)]>>} :
                AskAbout("siem", dests, MigrateSiem(dests))

\* SiemSettings takes it: names and ids are unique, an enabled destination is complete; none sends that did not, nor
\* what it did not (one that named no source v6 knows sends audit events).
DestinationsHold(dests, v) ==
    /\ Len(v) <= MaxDestinations
    /\ \A i, j \in 1 .. Len(v) : Casefold(v[i].name) = Casefold(v[j].name) \/ v[i].id = v[j].id => i = j
    /\ \A i \in 1 .. Len(v) :
          LET d == dests[v[i].from]
          IN /\ v[i].enabled => d.enabled /\ Complete(d)
             /\ "audit" \in v[i].sources => "audit" \in d.types \/ d.types \subseteq {"other"}
             /\ "new_connections" \in v[i].sources => "traffic" \in d.types
    /\ \A i \in 1 .. Len(dests) :
          dests[i].known /\ dests[i].host # "bad" => (\E j \in 1 .. Len(v) : v[j].from = i) \/ Len(v) = MaxDestinations

-----------------------------------------------------------------------------
(* migrate_reports: a schedule 5.x ran at other times, or narrower, or     *)
(* never, is carried paused.                                               *)

LookbackCap == 30
\* [type: known, old, unknown, app; cron, filters, appNamed, enabled: BOOLEAN; every; day; lookback]
\* Mutation of Paused: the traffic filter does not pause it.
PausedOfTimes(s) == s.cron \/ s.every = "other" \/ (s.every = "weekly" /\ s.day # "full") \/ s.type = "old"
Paused(s) ==
    \/ s.cron \/ s.every = "other" \/ (s.filters /\ s.type # "app")
    \/ (s.every \in {"weekly", "other"} /\ s.day # "full") \/ s.type = "old"
Schedule(s) ==
    [enabled |-> s.enabled /\ ~Paused(s), every |-> IF s.every = "other" THEN "weekly" ELSE s.every,
     lookback |-> Clamped(IF s.lookback = 0 THEN 7 ELSE s.lookback, 1, AtMost(LookbackCap, 90)), filtered |-> s.type = "app"]
Readable(s) == s.type # "unknown" /\ (s.type = "app" => s.appNamed)
MigrateReports(list) == LET kept == SelectSeq(list, Readable) IN [i \in 1 .. AtMost(Len(kept), MaxSchedules) |-> Schedule(kept[i])]
AskSchedules ==
    /\ MayAsk
    /\ \E type \in {"known", "old", "unknown", "app"}, every \in {"daily", "weekly", "monthly", "other"}, day \in {"full", "short", "bad"} :
       \E cron, filters, appNamed, enabled \in BOOLEAN, lookback \in {-1, 0, 7, 100}, n \in 1 .. MaxSchedules + 1 :
          LET s == [type |-> type, every |-> every, day |-> day, cron |-> cron, filters |-> filters, appNamed |-> appNamed,
                    enabled |-> enabled, lookback |-> lookback]
              list == [i \in 1 .. n |-> s]
          IN AskAbout("schedules", list, MigrateReports(list))

\* "it never runs wider or at other times than it did": an enabled schedule ran in 5.x, at the times v6 runs it, over the
\* same traffic; one is left out only if it cannot be read, 5.x refused it, or there are too many.
SchedulesHold(list, v) ==
    /\ \A i \in 1 .. Len(v) :
          LET s == SelectSeq(list, Readable)[i]
          IN /\ v[i].lookback \in 1 .. LookbackCap
             /\ v[i].enabled => /\ s.enabled /\ ~s.cron /\ v[i].every = s.every /\ s.type \in {"known", "app"}
                                /\ s.every = "weekly" => s.day = "full"
                                /\ s.filters => v[i].filtered
    /\ Len(v) < Len(list) => Len(v) = MaxSchedules \/ \E i \in 1 .. Len(list) : ~Readable(list[i])

-----------------------------------------------------------------------------
(* v5_rule_schedules: a zone is an offset "UTC+h.f", a name, or local.     *)

\* Minutes of the fraction 5.x wrote: .5 is half an hour, .75 three quarters.
FractionMinutes == [none |-> 0, half |-> 30, quarter |-> 15, most |-> 45]
\* Mutation of Zone: the sign of Etc/GMT taken as it reads.
ZoneAsItReads(z) == IF z.fraction = "none" THEN [name |-> "Etc", sign |-> z.sign, hours |-> z.hours, minutes |-> 0]
                    ELSE [name |-> "UTC", sign |-> z.sign, hours |-> z.hours, minutes |-> FractionMinutes[z.fraction]]
Zone(z) ==
    IF z.fraction = "none" THEN [name |-> "Etc", sign |-> -z.sign, hours |-> z.hours, minutes |-> 0]
    ELSE [name |-> "UTC", sign |-> z.sign, hours |-> z.hours, minutes |-> FractionMinutes[z.fraction]]
\* The offset a zone stands for: Etc/GMT-8 is eight hours ahead.
ZoneOffset(z) == (IF z.name = "Etc" THEN -1 ELSE 1) * z.sign * (60 * z.hours + z.minutes)
\* A schedule that cannot be read is left out and reported; every other one is paused, on the active rule.
ConvertSchedule(s) == [target |-> s.rule, version |-> "active", paused |-> TRUE, zone |-> Zone(s.zone),
                       action |-> IF s.action \in {"block", "disable", "deny"} THEN "disable_in_window" ELSE "enable_in_window"]
AskRuleSchedules ==
    /\ MayAsk
    /\ \E sign \in {-1, 1}, hours \in {0, 5, 8}, fraction \in {"none", "half", "quarter", "most"}, version \in {"draft", "active"} :
       \E action \in {"allow", "block", "deny"} :
          LET s == [rule |-> "r", version |-> version, action |-> action, zone |-> [sign |-> sign, hours |-> hours, fraction |-> fraction]]
          IN AskAbout("ruleSchedules", s, ConvertSchedule(s))
\* The window opens when it did, does what it did, and not before the operator turns it on.
RuleSchedulesHold(s, v) ==
    /\ v.paused /\ v.version = "active"
    /\ ZoneOffset(v.zone) = s.zone.sign * (60 * s.zone.hours + FractionMinutes[s.zone.fraction])
    /\ (v.action = "disable_in_window") = (s.action # "allow")

-----------------------------------------------------------------------------
(* migrate_v5: which of the reports lists a key of config.json.            *)

Carried == {"carry", "password", "secret_key", "org_id"}
\* Keys of the sections migrate_alerts, migrate_reports and migrate_siem report themselves.
Elsewhere == {"alerts", "email", "smtp", "rules", "report", "report_schedules", "public_url", "siem", "siem_warn"}
\* legacy: config/alerts.json holds the channels, so config.json's own alerts section is not looked at.
\* Mutation of Listed: the keys of the other sections are taken for unknown ones, and skipped.
ListedByLoop(file) == file.keys \ Elsewhere
Listed(file) ==
    (file.keys \ Elsewhere) \cup ((file.keys \cap Elsewhere) \ ((IF file.legacy THEN {"alerts"} ELSE {}) \cup (IF file.urlIsNull THEN {"public_url"} ELSE {})))
\* blocked: nothing is written, while every key is reported.
NothingWritten(file) == ~file.valid5x \/ file.noAddressParses \/ file.orgIsText
AskKeys ==
    /\ MayAsk
    /\ \E keys \in SUBSET (Carried \cup {"special", "unknown"} \cup {"alerts", "siem", "public_url"}) :
       \E valid5x, noAddressParses, orgIsText, legacy, urlIsNull \in BOOLEAN :
          LET file == [keys |-> keys, valid5x |-> valid5x, noAddressParses |-> noAddressParses, orgIsText |-> orgIsText,
                       legacy |-> legacy, urlIsNull |-> urlIsNull]
          IN AskAbout("keys", file, [listed |-> IF valid5x THEN Listed(file) ELSE keys, written |-> ~NothingWritten(file)])
\* "Nothing is skipped silently": every key is listed, also when nothing is written, but for a channel section that
\* alerts.json replaced and a public URL that is null; a list of addresses none of which is one never opens the UI.
KeysHold(file, v) ==
    /\ file.keys \ v.listed \subseteq {"alerts", "public_url"}
    /\ v.written => file.valid5x /\ ~file.noAddressParses /\ ~file.orgIsText

-----------------------------------------------------------------------------
(* v6.plan, and db.migrate at the first start: several threads, and the    *)
(* rescue command, open a database at the same moment.                     *)

\* Mutation of MigrationStep: applied without looking again.
MigrationStepBlindly(o, v) == userVersion' = v /\ applied' = Append(applied, v)
MigrationStep(o, v) == IF userVersion < v THEN userVersion' = v /\ applied' = Append(applied, v) ELSE UNCHANGED <<userVersion, applied>>
Opens(o) ==
    /\ migrationCase = NotAsked /\ opening[o] = <<>> /\ opens < MaxOpens /\ opens' = opens + 1 /\ userVersion <= LatestSchema
    /\ opening' = [opening EXCEPT ![o] = [i \in 1 .. LatestSchema - userVersion |-> userVersion + i]]
    /\ UNCHANGED <<migrationCase, userVersion, applied>>
Applies(o) ==
    /\ opening[o] # <<>> /\ MigrationStep(o, Head(opening[o])) /\ opening' = [opening EXCEPT ![o] = Tail(@)]
    /\ UNCHANGED <<migrationCase, opens>>
\* A statement fails, or the program is stopped: the step is rolled back.
OpenFails(o) ==
    /\ opening[o] # <<>> /\ opening' = [opening EXCEPT ![o] = <<>>]
    /\ UNCHANGED <<migrationCase, userVersion, applied, opens>>

\* plan: an older program, or settings it would not start with, or a newer database, is refused before anything changes.
Plan(p) == IF p.bundle < p.installed \/ ~p.settingsLoad \/ p.schema > LatestSchema THEN -1 ELSE LatestSchema - p.schema
AskPlan ==
    /\ migrationCase = NotAsked /\ opens = 0
    /\ \E bundle, installed \in 1 .. 3, settingsLoad \in BOOLEAN :
          LET p == [bundle |-> bundle, installed |-> installed, settingsLoad |-> settingsLoad, schema |-> userVersion]
          IN AskAbout("plan", p, Plan(p))
\* What it lets through can be opened, and it announces as many changes as the first start makes.
PlanHolds(p, v) == v >= 0 => p.schema <= LatestSchema /\ v = LatestSchema - p.schema /\ p.bundle >= p.installed /\ p.settingsLoad

\* Every migration is applied once, in order, whoever opens the database; a newer database is left alone.
MigratedOnce == applied = [i \in 1 .. userVersion |-> i]

MigrationNext ==
    \/ AskCollection \/ AskChannel \/ AskRules \/ AskDestinations \/ AskSchedules \/ AskRuleSchedules \/ AskKeys \/ AskPlan
    \/ \E o \in Openers : Opens(o) \/ Applies(o) \/ OpenFails(o)

\* The upgrade keeps what 5.x did: what v6 makes of each part is accepted by its own schema, runs nothing wider than
\* 5.x ran it, and databases are brought up to date once (migrate/*.py, store/db.py).
UpgradeIsFaithful ==
    /\ MigratedOnce
    /\ LET c == migrationCase
       IN CASE c.part = "collection" -> CollectionHolds(c.input, c.answer)
            [] c.part = "channel" -> ChannelHolds(c.input, c.answer)
            [] c.part = "rules" -> RulesHold(c.input, c.answer)
            [] c.part = "siem" -> DestinationsHold(c.input, c.answer)
            [] c.part = "schedules" -> SchedulesHold(c.input, c.answer)
            [] c.part = "ruleSchedules" -> RuleSchedulesHold(c.input, c.answer)
            [] c.part = "keys" -> KeysHold(c.input, c.answer)
            [] c.part = "plan" -> PlanHolds(c.input, c.answer)
            [] OTHER -> TRUE
=============================================================================
