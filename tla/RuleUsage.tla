------------------------------ MODULE RuleUsage ------------------------------
(***************************************************************************)
(* Which rules a period's traffic used (services/analysis/rule_usage.py):  *)
(* the period is read from the PCE a window at a time, a window at the cap *)
(* is halved, and every connection is counted in the window of its first   *)
(* sighting.  The policy usage report lists the rest as unused, and the    *)
(* Rule Hit Count report sorts the PCE's own counts.                       *)
(***************************************************************************)
EXTENDS Integers, FiniteSets

CONSTANTS UsageStart,   \* the period's first instant
          UsageDays,    \* windows in the period
          UsageDay,     \* WINDOW: instants in a window
          MaxSplits,    \* MAX_SPLITS: how often a window is halved
          Caps,         \* PER_QUERY: records an answer may hold
          Fellows       \* connections that may be there beside the one looked at

ASSUME UsageAssumption == {UsageStart, UsageDays, UsageDay, MaxSplits} \subseteq Nat /\ Caps \subseteq Nat \ {0}
                           /\ UsageDay % 2 ^ MaxSplits = 0

VARIABLE usageCase  \* what the PCE held, and what the report says; NoUsage before the first

NoUsage == [kind |-> "not asked"]
UsageEnd == UsageStart + UsageDays * UsageDay
NotSeen == [first |-> -1]
Decisions == {"allowed", "blocked_by_boundary", "potentially_blocked", "unknown"}
\* A record of one end: when it was seen, the draft decision, and whether rules are named with it.
EndRecords == {r \in [first : 0 .. UsageEnd, last : 0 .. UsageEnd, decision : Decisions] : r.first <= r.last}
\* A connection: what its source and its destination reported, if anything.
UsagePairs == {c \in [out : EndRecords \cup {NotSeen}, in : EndRecords \cup {NotSeen}] : c.out # NotSeen \/ c.in # NotSeen}
EndsOf(c) == {c.out, c.in} \ {NotSeen}
\* The PCE answers with every record that was seen within a window.
Within(r, a, b) == r.first < b /\ r.last >= a
Answered(conns, a, b) == {<<c, s>> \in conns \X {"out", "in"} : c[s] # NotSeen /\ Within(c[s], a, b)}

-----------------------------------------------------------------------------
\* _walk: the windows that are counted, each with the moment its connections must begin at (0: any) and
\* whether it was still at the cap.
Walk(conns, cap) ==
    LET capped(a, b) == Cardinality(Answered(conns, a, b)) >= cap
        walk[depth \in 0 .. MaxSplits, a \in 0 .. UsageEnd, b \in 0 .. UsageEnd, own \in 0 .. UsageEnd] ==
          IF capped(a, b) /\ depth < MaxSplits
          THEN LET mid == (a + b) \div 2 IN walk[depth + 1, a, mid, own] \cup walk[depth + 1, mid, b, mid]
          ELSE {[from |-> a, to |-> b, own |-> own, capped |-> capped(a, b)]}
    IN UNION {walk[0, UsageStart + d * UsageDay, UsageStart + (d + 1) * UsageDay,
                   IF d = 0 THEN 0 ELSE UsageStart + d * UsageDay] : d \in 0 .. (UsageDays - 1)}

\* What an answer at the cap holds: as many records as fit, those seen first.
RecordsKept(conns, w, cap) ==
    LET all == Answered(conns, w.from, w.to)
    IN IF ~w.capped THEN all
       ELSE {x \in all : Cardinality({y \in all : y[1][y[2]].first < x[1][x[2]].first}) < cap}
SeenEnds(conns, w, cap, c) == {c[x[2]] : x \in {y \in RecordsKept(conns, w, cap) : y[1] = c}}

\* Mutation of BelongsTo: a connection belongs to every window that shows it.
BelongsToAny(ends, own) == ends # {}
\* Mutation of BelongsTo: a record that began before the window is counted where it ends.
BelongsToLast(ends, own) == ends # {} /\ \A r \in ends : r.last >= own
\* own_from: a connection belongs to the window that holds its first sighting.
BelongsTo(ends, own) == ends # {} /\ \A r \in ends : r.first >= own

\* Which rules a decision says took effect (_ALLOWED, _BY_DENY).
EffectOf(r) == CASE r.decision = "allowed" -> {"allow"} [] r.decision = "blocked_by_boundary" -> {"deny"} [] OTHER -> {}
EffectsOf(ends) == UNION {EffectOf(r) : r \in ends}
\* Mutation of GroupOf: an end without a decision counts as one no rule allows.
GroupOfAny(ends) == IF EffectsOf(ends) # {} THEN "rules" ELSE "no_rule"
\* _count: counted for its rules, else as allowed by none when every end says so, else as undetermined.
GroupOf(ends) ==
    IF EffectsOf(ends) # {} THEN "rules"
    ELSE IF \A r \in ends : r.decision = "potentially_blocked" THEN "no_rule"
    ELSE IF \A r \in ends : r.decision = "unknown" THEN "undetermined" ELSE "left out"

Counted(conns, cap) ==
    {[conn |-> x[1], window |-> x[2], rules |-> EffectsOf(SeenEnds(conns, x[2], cap, x[1])),
      group |-> GroupOf(SeenEnds(conns, x[2], cap, x[1]))] :
        x \in {<<c, w>> \in conns \X Walk(conns, cap) : BelongsTo(SeenEnds(conns, w, cap, c), w.own)}}

\* rule_usage and the report's lists: a read that failed, or a PCE without the recompute, says nothing of any rule.
UsageReport(conns, cap, outcome) ==
    IF outcome # "read" THEN [ok |-> FALSE, counted |-> {}, used |-> {}, unused |-> {}, truncated |-> FALSE]
    ELSE LET counted == Counted(conns, cap)
             used == UNION {x.rules : x \in counted}
         IN [ok |-> TRUE, counted |-> counted, used |-> used, unused |-> {"allow"} \ used,
             truncated |-> \E w \in Walk(conns, cap) : w.capped]

-----------------------------------------------------------------------------
(* The Rule Hit Count report: the PCE's own rows against the active policy. *)

RuleCases == [row : {"none", "unreadable", "0", "1"}, active : BOOLEAN, enabled : BOOLEAN, later : BOOLEAN]
\* Mutation of HitLists: a rule made after the period is counted like any other.
HitListsAnyAge(r) ==
    {l \in {"hit", "zero", "unprovisioned", "no_record"} :
        CASE l = "hit" -> r.row = "1" [] l = "zero" -> r.row = "0" /\ r.active
          [] l = "unprovisioned" -> r.row = "0" /\ ~r.active
          [] OTHER -> r.active /\ r.enabled /\ r.row \in {"none", "unreadable"}}
\* parse_rhc_csv leaves an unreadable count out; a 0 counts only for a rule provisioned before the period's end.
HitLists(r) ==
    {l \in {"hit", "zero", "unprovisioned", "no_record"} :
        CASE l = "hit" -> r.row = "1" [] l = "zero" -> r.row = "0" /\ r.active /\ ~r.later
          [] l = "unprovisioned" -> r.row = "0" /\ (~r.active \/ r.later)
          [] OTHER -> r.active /\ r.enabled /\ r.row \in {"none", "unreadable"}}

UsageInit == usageCase = NoUsage
AskUsage ==
    /\ usageCase = NoUsage
    /\ \E c \in UsagePairs, f \in Fellows, cap \in Caps :
          usageCase' = [kind |-> "usage", conns |-> {c} \cup f, report |-> UsageReport({c} \cup f, cap, "read")]
AskFailed ==
    /\ usageCase = NoUsage
    /\ \E outcome \in {"unsupported", "failed"} :
          usageCase' = [kind |-> "usage", conns |-> {}, report |-> UsageReport({}, 1, outcome)]
AskHits ==
    /\ usageCase = NoUsage
    /\ \E r \in RuleCases : usageCase' = [kind |-> "hits", rule |-> r, lists |-> HitLists(r)]
UsageNext == AskUsage \/ AskFailed \/ AskHits

-----------------------------------------------------------------------------
\* What the period's traffic really used.
InPeriod(c) == {r \in EndsOf(c) : Within(r, UsageStart, UsageEnd)}
\* The window of a connection's first sighting shows all of it: its ends did not begin in windows apart.
FirstOf(ends) == CHOOSE t \in {r.first : r \in ends} : \A r \in ends : t <= r.first
SeenWhole(c, windows) ==
    \E w \in windows : /\ FirstOf(InPeriod(c)) < w.to /\ (FirstOf(InPeriod(c)) >= w.from \/ w.own = 0)
                       /\ \A r \in InPeriod(c) : Within(r, w.from, w.to)

\* A connection is counted once however its records lie across midnight and the halves of a capped day, for the rules
\* both its ends name; a rule that is listed as unused was used by no connection the report could read whole, and
\* a rule is never listed as used that nothing used (_walk, _count, build_policy_usage).
UsageIsTrue ==
    usageCase.kind = "usage" =>
       LET rep == usageCase.report
           windows == {x.window : x \in rep.counted}
       IN /\ rep.used \subseteq UNION {EffectsOf(InPeriod(c)) : c \in usageCase.conns}
          /\ ~rep.ok => rep.unused = {}
          /\ rep.ok /\ ~rep.truncated =>
               \A c \in usageCase.conns : InPeriod(c) # {} =>
                  /\ \E x \in rep.counted : x.conn = c
                  /\ SeenWhole(c, windows) =>
                       /\ Cardinality({x \in rep.counted : x.conn = c}) = 1
                       /\ \A x \in rep.counted : x.conn = c =>
                             /\ x.rules = EffectsOf(InPeriod(c))
                             /\ (x.group = "no_rule") = \A r \in InPeriod(c) : r.decision = "potentially_blocked"
                             /\ (x.group = "undetermined") = \A r \in InPeriod(c) : r.decision = "unknown"
                       /\ EffectsOf(InPeriod(c)) \cap rep.unused = {}

\* A rule is said to have 0 hits only when the PCE counted it over the period, and every enabled provisioned rule is in
\* one list (build_rule_hit_count: "a rule with no record ... is never shown as 0").
HitsAreTrue ==
    usageCase.kind = "hits" =>
       LET r == usageCase.rule IN
       /\ "zero" \in usageCase.lists => r.row = "0" /\ r.active /\ ~r.later
       /\ r.active /\ r.enabled => Cardinality(usageCase.lists) = 1

\* What the reports say of rules nobody uses is so (services/analysis/rule_usage.py, services/reports/).
UnusedIsUnused == UsageIsTrue /\ HitsAreTrue
=============================================================================
