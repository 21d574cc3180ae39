----------------------------- MODULE FlowFilter -----------------------------
(***************************************************************************)
(* The one flow filter, carried out three ways: as a WHERE clause over the *)
(* flow store (to_sql, in SQL's logic of three values), as a test of one   *)
(* record (matches), and as a query of the PCE with a residual that is     *)
(* tested on every record it returns (to_pce_payload).                     *)
(*                                                                         *)
(* Labels, hrefs, addresses and texts are values of small sets.  A network *)
(* is the set of its addresses; a label set, a function from keys.  Texts  *)
(* are records of their letters' case, because the two languages lower     *)
(* different letters.  Times count microseconds, of which a store          *)
(* timestamp keeps whole milliseconds.                                     *)
(***************************************************************************)
EXTENDS Integers, FiniteSets

CONSTANTS
    None,       \* NULL, and a condition that is not set
    Milli,      \* microseconds of a millisecond
    PublicIps,  \* the addresses that are public
    Endpoints,  \* the endpoint conditions that are asked
    Ends,       \* the ends of records
    Knowledge,  \* what the store may know of IP lists, label groups and services
    PortConds,  \* the port conditions that are asked
    Texts       \* the texts of columns and of conditions on them

VARIABLE filterCase  \* the question asked, NoCase before the first

CiColumns == {"windows_service", "transmission"}
ProcessColumns == {"initiator_process", "service_process"}
UserColumns == {"initiator_user", "service_user"}
Columns == CiColumns \cup ProcessColumns \cup UserColumns

-----------------------------------------------------------------------------
(* Texts.  base: what is spelled; cap: its spelling begins with a capital; *)
(* ascii: that letter is ASCII; domain: it has a domain part.              *)

Lower(t) == [t EXCEPT !.cap = FALSE]
AsciiLower(t) == IF t.ascii THEN Lower(t) ELSE t
UserKey(t) == IF t.domain THEN Lower(t) ELSE t
SqlUser(t) == IF t.domain THEN AsciiLower(t) ELSE t
IsSystemAccount(t) == t.base = "root" /\ ~t.domain
\* LIKE, and the regular expression that stands for it: partial, ASCII letters in any case.
Like(t, term) == t # None /\ AsciiLower(t).base = AsciiLower(term).base /\ AsciiLower(t).cap = AsciiLower(term).cap

-----------------------------------------------------------------------------
(* Endpoint conditions: labels is a set of [key, values], groups and lists *)
(* are hrefs of label groups and IP lists, nets are sets of addresses.     *)

HasLabels(ep) == ep.labels # {} \/ ep.groups # {}
HasHosts(ep) == ep.hrefs # {} \/ ep.ips # {} \/ ep.nets # {} \/ ep.lists # {} \/ ep.public
Intersects(ep) == ep.match = "all" /\ HasLabels(ep) /\ HasHosts(ep)
IsEmpty(ep) == ~HasLabels(ep) /\ ~HasHosts(ep)
Outside(end) == end.href = None /\ end.ip \in PublicIps

\* ip_lists.networks, policy_objects.label_groups: what the store knows, nothing for a list it does not.
Networks(known, hrefs) == UNION {known.lists[h] : h \in hrefs \cap DOMAIN known.lists}

LabelOf(end, key) == IF key \in DOMAIN end.labels THEN end.labels[key] ELSE None

\* _labels_hold: the values a key may have, of the conditions and of the groups' members together.
AllowedValues(ep, known, key) ==
    UNION ({c.values : c \in {x \in ep.labels : x.key = key}}
           \cup {known.groups[g].members : g \in {x \in ep.groups : known.groups[x].key = key}})
NamedKeys(ep, known) == {c.key : c \in ep.labels} \cup {known.groups[g].key : g \in ep.groups}
LabelsHold(ep, known, end) ==
    /\ ep.groups \subseteq DOMAIN known.groups
    /\ \A key \in NamedKeys(ep, known) : LabelOf(end, key) \in AllowedValues(ep, known, key)

HostsHold(ep, known, end) ==
    \/ end.href \in ep.hrefs \/ end.ip \in ep.ips
    \/ \E n \in ep.nets \cup {Networks(known, ep.lists)} : end.ip \in n
    \/ ep.public /\ Outside(end)

\* _side_matches: the labels and the hosts, one of those set or all of those set.
SideMatches(ep, known, end) ==
    LET held == (IF HasLabels(ep) THEN {LabelsHold(ep, known, end)} ELSE {})
                \cup (IF HasHosts(ep) THEN {HostsHold(ep, known, end)} ELSE {})
    IN IF ep.match = "all" THEN FALSE \notin held ELSE TRUE \in held

-----------------------------------------------------------------------------
(* Ports, services and columns, as matches tests them.                     *)

PortOf(r) == IF r.port = None THEN -1 ELSE r.port
Upper(p) == IF p.to = None THEN p.port ELSE p.to
\* _port_matches, _service_matches
PortMatches(p, r) ==
    /\ p.proto # None => r.proto = p.proto
    /\ p.port # None => PortOf(r) \in p.port .. Upper(p)
ServiceSet(ports, services, known, r) ==
    \/ \E p \in ports : PortMatches(p, r)
    \/ \E s \in services \cap DOMAIN known.services : \E p \in known.services[s] : PortMatches(p, r)
\* _in_ci
InCi(value, values) == value # None /\ AsciiLower(value) \in {AsciiLower(x) : x \in values}

\* spec.in[c]: the values a column may have; spec.out[c]: those it may not (exclude_processes is that of
\* both process columns); spec.like[c]: the text it must contain.
ColumnHolds(c, spec, r) ==
    LET may == spec.in[c]
        got == r.columns[c]
    IN /\ spec.like[c] # None => Like(got, spec.like[c])
       /\ may # {} => \/ c \in CiColumns /\ InCi(got, may)
                      \/ c \in UserColumns /\ got # None /\ UserKey(got) \in {UserKey(x) : x \in may}
                      \/ c \in ProcessColumns /\ got \in may
       /\ c \in CiColumns => ~InCi(got, spec.out[c])
       /\ c \in ProcessColumns => got \notin spec.out[c]

\* StartMs, EndMs: a bound finer than a millisecond moves inward.
StartMs(t) == IF t % Milli = 0 THEN t ELSE t + Milli - (t % Milli)
EndMs(t) == t - (t % Milli)

\* Each condition on an end: the slot, the ends it looks at, and whether it excludes.
Slots == {"src", "dst", "src_exclude", "dst_exclude", "either", "either_exclude"}
SlotEnds(slot, r) ==
    IF slot \in {"src", "src_exclude"} THEN {r.src} ELSE IF slot \in {"dst", "dst_exclude"} THEN {r.dst} ELSE {r.src, r.dst}
Excludes(slot) == slot \in {"src_exclude", "dst_exclude", "either_exclude"}

Matches(spec, known, r) ==
    /\ r.primary /\ r.last >= spec.start /\ r.first <= spec.end
    /\ \A slot \in Slots : LET ep == spec.end_[slot] IN
          ~IsEmpty(ep) => (\E end \in SlotEnds(slot, r) : SideMatches(ep, known, end)) = ~Excludes(slot)
    /\ spec.ports # {} \/ spec.services # {} => ServiceSet(spec.ports, spec.services, known, r)
    /\ ~ServiceSet(spec.exclude_ports, spec.exclude_services, known, r)
    /\ \A c \in Columns : ColumnHolds(c, spec, r)
    /\ spec.decisions # {} => r.decision \in spec.decisions
    /\ spec.text # None => \E c \in ProcessColumns \cup UserColumns : Like(r.columns[c], spec.text)
    /\ spec.no_system /\ r.columns["initiator_user"] # None => ~IsSystemAccount(r.columns["initiator_user"])

-----------------------------------------------------------------------------
(* to_sql: each clause is "T", "F" or "N" (NULL), and a row is selected    *)
(* when every clause is "T".                                               *)

Sql(b) == IF b THEN "T" ELSE "F"
SqlNot(x) == CASE x = "T" -> "F" [] x = "F" -> "T" [] OTHER -> "N"
SqlCoalesce(x) == IF x = "N" THEN "F" ELSE x
SqlIn(value, values) == IF value = None THEN "N" ELSE Sql(value \in values)
SqlLower(value) == IF value = None THEN None ELSE AsciiLower(value)

\* _sql_labels_with_groups: all the groups are there, and the end's label set matches as many keys as are named.
SqlLabelsWithGroups(ep, known, end) ==
    LET found == ep.groups \cap DOMAIN known.groups
        pairs == UNION {{<<known.groups[g].key, v>> : v \in known.groups[g].members} : g \in found}
                 \cup UNION {{<<c.key, v>> : v \in c.values} : c \in ep.labels}
        keys == {known.groups[g].key : g \in found} \cup {c.key : c \in ep.labels}
    IN /\ Cardinality(found) = Cardinality(ep.groups)
       /\ \E k \in DOMAIN end.labels : <<k, end.labels[k]>> \in pairs
       /\ Cardinality({k \in DOMAIN end.labels : <<k, end.labels[k]>> \in pairs}) = Cardinality(keys)

\* _sql_side: the labels part and the part of hrefs and addresses, as far as they are set, joined by OR or by AND.
SqlSide(ep, known, end) ==
    LET labels == IF ep.groups # {} THEN {SqlLabelsWithGroups(ep, known, end)}
                  ELSE IF ep.labels # {} THEN {\A c \in ep.labels : LabelOf(end, c.key) \in c.values} ELSE {}
        hosts == IF ~HasHosts(ep) THEN {}
                 ELSE {\/ end.href # None /\ end.href \in ep.hrefs
                       \/ end.ip \in ep.ips
                       \/ \E n \in ep.nets : end.ip \in n
                       \/ \E h \in ep.lists \cap DOMAIN known.lists : end.ip \in known.lists[h]
                       \/ ep.public /\ Outside(end)}
        parts == labels \cup hosts
    IN Sql(parts = {} \/ IF ep.match = "all" THEN FALSE \notin parts ELSE TRUE \in parts)

\* _sql_port, _sql_services
SqlPort(p, r) ==
    /\ p.proto # None => r.proto = p.proto
    /\ p.to # None => p.port <= PortOf(r) /\ PortOf(r) <= p.to
    /\ p.to = None /\ p.port # None => PortOf(r) = p.port
SqlPorts(ports, services, known, r) ==
    Sql(\/ \E p \in ports : SqlPort(p, r)
        \/ \E s \in services \cap DOMAIN known.services : \E p \in known.services[s] :
              (p.proto = None \/ p.proto = r.proto) /\ (p.port = None \/ PortOf(r) \in p.port .. Upper(p)))

\* Mutation of SqlExclude: a missing value is left out with the listed ones.
SqlExcludeBare(value, values) == SqlNot(SqlIn(value, values))
\* _sql_in (negate): an exclusion never leaves out a row that lacks the value.
SqlExclude(value, values) == SqlNot(SqlCoalesce(SqlIn(value, values)))

SqlColumn(c, spec, r) ==
    LET may == spec.in[c]
        got == r.columns[c]
    IN  (IF spec.like[c] = None THEN {} ELSE {IF got = None THEN "N" ELSE Sql(Like(got, spec.like[c]))})
        \cup (IF may = {} THEN {}
              ELSE IF c \in CiColumns THEN {SqlIn(SqlLower(got), {AsciiLower(x) : x \in may})}
              ELSE IF c \in ProcessColumns THEN {SqlIn(got, may)}
              ELSE {IF got = None THEN "N" ELSE Sql(SqlUser(got) \in {UserKey(x) : x \in may})})
        \cup (IF c \in UserColumns \/ spec.out[c] = {} THEN {}
              ELSE IF c \in CiColumns THEN {SqlExclude(SqlLower(got), {AsciiLower(x) : x \in spec.out[c]})}
              ELSE {SqlExclude(got, spec.out[c])})

\* The clauses of to_sql; store_time cuts the window's bounds to whole milliseconds.
SqlClauses(spec, known, r) ==
    {Sql(r.primary), Sql(r.last >= EndMs(spec.start)), Sql(r.first <= EndMs(spec.end))}
    \cup UNION {LET clause == Sql(\E end \in SlotEnds(slot, r) : SqlSide(spec.end_[slot], known, end) = "T")
                IN IF IsEmpty(spec.end_[slot]) THEN {} ELSE {IF Excludes(slot) THEN SqlNot(clause) ELSE clause} : slot \in Slots}
    \cup (IF spec.ports = {} /\ spec.services = {} THEN {} ELSE {SqlPorts(spec.ports, spec.services, known, r)})
    \cup {SqlNot(SqlPorts(spec.exclude_ports, spec.exclude_services, known, r))}
    \cup UNION {SqlColumn(c, spec, r) : c \in Columns}
    \cup (IF spec.decisions = {} THEN {} ELSE {Sql(r.decision \in spec.decisions)})
    \cup (IF spec.text = None THEN {} ELSE {Sql(\E c \in ProcessColumns \cup UserColumns : Like(r.columns[c], spec.text))})
    \cup (IF ~spec.no_system THEN {}
          ELSE {Sql(r.columns["initiator_user"] = None \/ ~IsSystemAccount(r.columns["initiator_user"]))})
SqlSelects(spec, known, r) == SqlClauses(spec, known, r) = {"T"}

-----------------------------------------------------------------------------
(* to_pce_payload: what the PCE can filter, and the residual.  hrefs are   *)
(* the <<key, value>> labels whose href is known.                          *)

Everyone == {{}}

\* _pce_side: a union of groups of items, or None when part of it cannot go to the PCE.
PceSide(ep, hrefs) ==
    IF IsEmpty(ep) THEN Everyone
    ELSE IF Intersects(ep) \/ ep.nets # {} \/ ep.public \/ ep.lists # {} \/ ep.groups # {}
            \/ \E c \in ep.labels, v \in UNION {x.values : x \in ep.labels} : v \in c.values /\ <<c.key, v>> \notin hrefs
    THEN None
    ELSE (IF ep.labels = {} THEN {}
          ELSE {{<<"label", c.key, f[c]>> : c \in ep.labels} :
                  f \in {g \in [ep.labels -> UNION {x.values : x \in ep.labels}] : \A c \in ep.labels : g[c] \in c.values}})
         \cup {{<<"workload", h>>} : h \in ep.hrefs} \cup {{<<"ip", i>>} : i \in ep.ips}

\* Mutation of PceExclude: part of an intersection is excluded.
PceExcludeParts(ep, hrefs) ==
    UNION {{<<"label", c.key, v>> : v \in {x \in c.values : <<c.key, x>> \in hrefs}} :
                  c \in IF Cardinality(ep.labels) = 1 /\ ep.groups = {} THEN ep.labels ELSE {}}
    \cup {<<"workload", h>> : h \in ep.hrefs} \cup {<<"ip", i>> : i \in ep.ips}
\* _pce_exclude: a part of what is excluded, none of an intersection.
PceExclude(ep, hrefs) ==
    IF Intersects(ep) THEN {}
    ELSE UNION {{<<"label", c.key, v>> : v \in {x \in c.values : <<c.key, x>> \in hrefs}} :
                  c \in IF Cardinality(ep.labels) = 1 /\ ep.groups = {} THEN ep.labels ELSE {}}
         \cup {<<"workload", h>> : h \in ep.hrefs} \cup {<<"ip", i>> : i \in ep.ips}

\* "no port" has no form at the PCE, and listed ports and named services are one set.
PortsStay(spec) == spec.services # {} \/ \E p \in spec.ports : p.port = -1
ExcludedPortsStay(spec) == \E p \in spec.exclude_ports : p.port = -1
Included(side) == IF side = None THEN Everyone ELSE side

\* to_pce_payload.  The dates of the window go out too; the residual keeps them, so they are left out here.
Payload(spec, hrefs) ==
    [src |-> Included(PceSide(spec.end_["src"], hrefs)), dst |-> Included(PceSide(spec.end_["dst"], hrefs)),
     src_exclude |-> PceExclude(spec.end_["src_exclude"], hrefs), dst_exclude |-> PceExclude(spec.end_["dst_exclude"], hrefs),
     ports |-> IF PortsStay(spec) THEN {} ELSE spec.ports,
     exclude_ports |-> IF ExcludedPortsStay(spec) THEN {} ELSE spec.exclude_ports, decisions |-> spec.decisions]

NoEnd == [labels |-> {}, groups |-> {}, hrefs |-> {}, ips |-> {}, nets |-> {}, lists |-> {}, public |-> FALSE, match |-> "any"]
Residual(spec, hrefs) ==
    [spec EXCEPT !.end_["src"] = IF PceSide(@, hrefs) = None THEN @ ELSE NoEnd,
                 !.end_["dst"] = IF PceSide(@, hrefs) = None THEN @ ELSE NoEnd,
                 !.ports = IF PortsStay(spec) THEN @ ELSE {},
                 !.exclude_ports = IF ExcludedPortsStay(spec) THEN @ ELSE {}, !.decisions = {}]

\* The PCE's reading of a payload: one of the groups with all of its items, none of the excluded items.
PceItem(item, end) ==
    CASE item[1] = "label" -> LabelOf(end, item[2]) = item[3]
      [] item[1] = "workload" -> end.href = item[2]
      [] OTHER -> end.ip = item[2]
PceSelects(p, r) ==
    /\ \E g \in p.src : \A i \in g : PceItem(i, r.src)
    /\ \E g \in p.dst : \A i \in g : PceItem(i, r.dst)
    /\ \A i \in p.src_exclude : ~PceItem(i, r.src)
    /\ \A i \in p.dst_exclude : ~PceItem(i, r.dst)
    /\ p.ports # {} => \E q \in p.ports : PortMatches(q, r)
    /\ \A q \in p.exclude_ports : ~PortMatches(q, r)
    /\ p.decisions # {} => r.decision \in p.decisions

-----------------------------------------------------------------------------
(* The questions: one condition at a time, beside those of the window.     *)

NoCase == [asked |-> FALSE]
PlainEnd == [labels |-> <<>>, href |-> None, ip |-> CHOOSE i \in PublicIps : TRUE]
PlainRecord ==
    [primary |-> TRUE, first |-> Milli, last |-> 2 * Milli, src |-> PlainEnd, dst |-> PlainEnd, port |-> 22, proto |-> 6,
     columns |-> [c \in Columns |-> None], decision |-> "allowed"]
PlainSpec ==
    [start |-> 0, end |-> 9 * Milli, end_ |-> [s \in Slots |-> NoEnd], ports |-> {}, services |-> {}, exclude_ports |-> {},
     exclude_services |-> {}, in |-> [c \in Columns |-> {}], out |-> [c \in Columns |-> {}],
     like |-> [c \in Columns |-> None], decisions |-> {}, text |-> None, no_system |-> FALSE]

\* FilterSpec: the window's bounds are moved when the spec is made.
Ask(spec, known, record, hrefs) ==
    filterCase' = [asked |-> TRUE, spec |-> [spec EXCEPT !.start = StartMs(@), !.end = EndMs(@)],
                  known |-> known, record |-> record, labelHrefs |-> hrefs]

AskEndpoint ==
    /\ filterCase = NoCase
    /\ \E slot \in Slots, ep \in Endpoints, known \in Knowledge, end \in Ends :
       \E hrefs \in {{}, UNION {{<<c.key, v>> : v \in c.values} : c \in ep.labels}} :
          Ask([PlainSpec EXCEPT !.end_[slot] = ep], known,
              IF slot \in {"dst", "dst_exclude"} THEN [PlainRecord EXCEPT !.dst = end] ELSE [PlainRecord EXCEPT !.src = end], hrefs)

AskColumn ==
    /\ filterCase = NoCase
    /\ \E known \in Knowledge, c \in Columns, t \in Texts, got \in Texts \cup {None} :
       \E spec \in {[PlainSpec EXCEPT !.in[c] = {t}],
                     [PlainSpec EXCEPT !.out = [x \in Columns |-> IF x = c \/ {x, c} = ProcessColumns THEN {t} ELSE {}]],
                     [PlainSpec EXCEPT !.like[c] = t], [PlainSpec EXCEPT !.text = t], [PlainSpec EXCEPT !.no_system = TRUE]} :
          Ask(spec, known, [PlainRecord EXCEPT !.columns[c] = got], {})

AskPorts ==
    /\ filterCase = NoCase
    /\ \E known \in Knowledge, wanted \in SUBSET PortConds, excluded \in {{}} \cup {{p} : p \in PortConds} :
       \E named \in {{}, {"s1"}}, unnamed \in {{}, {"s1"}}, port \in {None, 21, 22, 23}, proto \in {6, 17} :
          Ask([PlainSpec EXCEPT !.ports = wanted, !.services = named, !.exclude_ports = excluded, !.exclude_services = unnamed],
              known, [PlainRecord EXCEPT !.port = port, !.proto = proto], {})

AskWindow ==
    /\ filterCase = NoCase
    /\ \E known \in Knowledge, start, end \in 0 .. 3 * Milli, decisions \in {{}, {"allowed"}, {"blocked"}}, primary \in BOOLEAN :
          Ask([PlainSpec EXCEPT !.start = start, !.end = end, !.decisions = decisions], known,
              [PlainRecord EXCEPT !.primary = primary], {})

FilterInit == filterCase = NoCase
FilterNext == AskEndpoint \/ AskColumn \/ AskPorts \/ AskWindow

\* What the two findings of the README leave out: a key named by two label conditions of one endpoint, and
\* a domain account with a capital outside ASCII.
NamedOnce(spec) == \A slot \in Slots : \A c, d \in spec.end_[slot].labels : c.key = d.key => c = d
AsciiUsers(q) == \A c \in UserColumns : \A t \in q.spec.in[c] \cup ({q.record.columns[c]} \ {None}) : t.ascii

\* The WHERE clause selects a row exactly when matches takes the record, also where a column is NULL and
\* an exclusion asks for it ("to_sql and matches must agree on every spec", filter.py:10).
SqlAgrees ==
    filterCase # NoCase /\ NamedOnce(filterCase.spec) /\ AsciiUsers(filterCase) =>
       (SqlSelects(filterCase.spec, filterCase.known, filterCase.record)
          <=> Matches(filterCase.spec, filterCase.known, filterCase.record))

\* What the PCE is asked and what is tested afterwards are together the filter: nothing is left out at the
\* PCE that the filter takes, and nothing the filter leaves out remains.
PceAndResidual ==
    filterCase # NoCase /\ NamedOnce(filterCase.spec) =>
       LET payload == Payload(filterCase.spec, filterCase.labelHrefs)
           residual == Residual(filterCase.spec, filterCase.labelHrefs)
       IN (PceSelects(payload, filterCase.record) /\ Matches(residual, filterCase.known, filterCase.record))
            <=> Matches(filterCase.spec, filterCase.known, filterCase.record)

\* The three readings of a filter, by SQL, in memory and at the PCE, are one filter (to_sql, matches, to_pce).
OneFilter == SqlAgrees /\ PceAndResidual

\* As filter.py:10 has it, without the two exceptions: it does not hold (README section 6).
SqlAgreesOnEverySpec ==
    filterCase # NoCase =>
       (SqlSelects(filterCase.spec, filterCase.known, filterCase.record)
          <=> Matches(filterCase.spec, filterCase.known, filterCase.record))
=============================================================================
