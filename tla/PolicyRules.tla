---------------------------- MODULE PolicyRules ----------------------------
(***************************************************************************)
(* Rules of the PCE turned into what a reader acts on: the rows of one     *)
(* rule set for a firewall comparison (policy_resolver), and the changes   *)
(* of Draft against active with their risk (policy_diff).                  *)
(*                                                                         *)
(* Addresses are values, a network is the set of its addresses.  A rule's  *)
(* services only count: their number multiplies rows.                      *)
(***************************************************************************)
EXTENDS Integers, FiniteSets, SequencesExt

CONSTANTS
    Inventory,   \* workload -> [ips, labels], each label a <<key, value>>
    LabelGroups, \* label group -> [key, labels, subs]
    IpLists,     \* IP list -> its addresses, exclusions taken out
    Actors,      \* the actors rules name: [kind, ref, exclusion]
    Scopes,      \* the scopes rule sets have: sets of sets of actors
    MaxPairs,    \* _MAX_RULE_PAIRS
    Limits,      \* the row limits reports pass
    Ranges       \* the members IP lists may have: [ips, exclusion]

AnyAddress == "ANY"
Capped == "capped"

VARIABLE policyCase  \* the question asked and its answer, NoPolicyCase before the first

-----------------------------------------------------------------------------
(* What objects resolve to.                                                *)

Workloads == DOMAIN Inventory
AddressesOf(ws) == UNION {Inventory[w].ips : w \in ws}
\* build_label_to_ips
LabelIps(label) == AddressesOf({w \in Workloads : label \in Inventory[w].labels})
\* build_label_group_to_labels: the group and the groups below it, each once also where they form a cycle.
GroupsBelow(g) ==
    LET below[n \in 0 .. Cardinality(DOMAIN LabelGroups)] ==
            IF n = 0 THEN {g} ELSE below[n - 1] \cup UNION {LabelGroups[x].subs \cap DOMAIN LabelGroups : x \in below[n - 1]}
    IN below[Cardinality(DOMAIN LabelGroups)]
GroupLabels(g) == UNION {LabelGroups[x].labels : x \in GroupsBelow(g)}
GroupIps(g) == UNION {LabelIps(l) : l \in GroupLabels(g)}

Known(actor) ==
    CASE actor.kind = "label" -> \E w \in Workloads : actor.ref \in Inventory[w].labels
      [] actor.kind = "label_group" -> actor.ref \in DOMAIN LabelGroups
      [] actor.kind = "ip_list" -> actor.ref \in DOMAIN IpLists
      [] actor.kind = "workload" -> actor.ref \in Workloads
      [] OTHER -> TRUE
KeyOf(actor) == IF actor.kind = "label" THEN actor.ref[1] ELSE LabelGroups[actor.ref].key
IsLabel(actor) == actor.kind \in {"label", "label_group"}

\* _actor_ips
ActorIps(actor) ==
    CASE actor.kind = "ams" -> AddressesOf(Workloads)
      [] actor.kind = "label" -> LabelIps(actor.ref)
      [] actor.kind = "label_group" -> GroupIps(actor.ref)
      [] actor.kind = "ip_list" -> IpLists[actor.ref]
      [] actor.kind = "workload" -> Inventory[actor.ref].ips
      [] OTHER -> {actor.ref}

Intersection(sets) == IF sets = {} THEN {} ELSE {x \in UNION sets : \A s \in sets : x \in s}
\* Different keys are ANDed, the same key is ORed.
ByKey(actors) == {UNION {ActorIps(a) : a \in {x \in actors : KeyOf(x) = key}} : key \in {KeyOf(a) : a \in actors}}

Unscoped == {{AnyAddress}}
\* _scope_sets: each scope's addresses, kept apart; a scope that names nothing leaves the rule set unscoped.
ScopeIps(scope) ==
    Intersection(ByKey({a \in scope : ~a.exclusion})) \ UNION {ActorIps(a) : a \in {x \in scope : x.exclusion}}
ScopeSets(scopes) ==
    IF scopes = {} \/ {} \in scopes THEN Unscoped ELSE {ScopeIps(s) : s \in scopes}

\* Mutation of SideIps: an explicit workload is not narrowed by the scope.
SideIpsWide(actors, scope) ==
    IF actors = {} THEN {AnyAddress}
    ELSE LET taken == {a \in actors : ~a.exclusion}
             narrow(ips) == IF scope = {AnyAddress} THEN ips ELSE ips \cap scope
             all == IF \E a \in taken : a.kind = "ams" THEN narrow(AddressesOf(Workloads)) ELSE {}
             labelled == Intersection(ByKey({a \in taken : IsLabel(a)}))
             named == UNION {ActorIps(a) : a \in {x \in taken : x.kind = "workload"}}
             explicit == UNION {ActorIps(a) : a \in {x \in taken : x.kind \in {"ip_list", "ip"}}}
         IN (all \cup narrow(labelled) \cup named \cup explicit) \ UNION {ActorIps(a) : a \in actors \ taken}
\* _side_ips: the scope narrows workloads, named or labelled, not IP lists and addresses; exclusions go last.
\* The subnets that use_workload_subnets adds (policy_resolver.py:150) are left out.
SideIps(actors, scope) ==
    IF actors = {} THEN {AnyAddress}
    ELSE LET taken == {a \in actors : ~a.exclusion}
             all == IF \E a \in taken : a.kind = "ams" THEN IF scope = {AnyAddress} THEN AddressesOf(Workloads) ELSE scope ELSE {}
             part == all \cup Intersection(ByKey({a \in taken : IsLabel(a)}))
                         \cup UNION {ActorIps(a) : a \in {x \in taken : x.kind = "workload"}}
             narrowed == IF scope = {AnyAddress} THEN part ELSE part \cap scope
             explicit == UNION {ActorIps(a) : a \in {x \in taken : x.kind \in {"ip_list", "ip"}}}
         IN (narrowed \cup explicit) \ UNION {ActorIps(a) : a \in actors \ taken}

\* _cap_sides: the larger side becomes one token, then the other if that is not enough.
CapSides(srcs, dsts, services) ==
    LET n == Cardinality(srcs)
        m == Cardinality(dsts)
        one == IF n >= m THEN [src |-> {Capped}, dst |-> dsts] ELSE [src |-> srcs, dst |-> {Capped}]
    IN IF n * m * services <= MaxPairs THEN [src |-> srcs, dst |-> dsts]
       ELSE IF Cardinality(one.src) * Cardinality(one.dst) * services <= MaxPairs THEN one
       ELSE [src |-> {Capped}, dst |-> {Capped}]

-----------------------------------------------------------------------------
(* resolve_ruleset_within: rule after rule, scope after scope.             *)

Expand(state, rule, scope) ==
    LET srcs == SideIps(rule.consumers, IF rule.unscoped THEN {AnyAddress} ELSE scope)
        dsts == SideIps(rule.providers, scope)
        sides == CapSides(srcs, dsts, rule.services)
        listed == {<<rule.href, s, d, n>> : s \in sides.src, d \in sides.dst, n \in 1 .. rule.services}
    IN IF srcs = {} \/ dsts = {} THEN state
       ELSE IF Cardinality(state.rows) + Cardinality(listed) > state.limit
       THEN [state EXCEPT !.omitted = @ + Cardinality(listed), !.addressed = @ \cup {rule.href}]
       ELSE [state EXCEPT !.rows = @ \cup listed, !.addressed = @ \cup {rule.href}]

CannotExpand(rule, scopes) ==
    rule.virtual \/ \E a \in rule.consumers \cup rule.providers \cup UNION scopes : ~Known(a)

ResolveRule(state, rule, scopes) ==
    IF ~rule.enabled THEN state
    ELSE IF CannotExpand(rule, scopes) THEN [state EXCEPT !.issues = @ \cup {rule.href}]
    ELSE LET done == FoldLeft(LAMBDA st, scope : Expand(st, rule, scope), state, SetToSeq(ScopeSets(scopes)))
         IN [done EXCEPT !.no_address = IF rule.href \in done.addressed THEN @ ELSE @ \cup {rule.href}]

Resolve(rules, scopes, limit) ==
    FoldLeft(LAMBDA st, rule : ResolveRule(st, rule, scopes),
             [rows |-> {}, omitted |-> 0, issues |-> {}, no_address |-> {}, addressed |-> {}, limit |-> limit], rules)

-----------------------------------------------------------------------------
(* policy_diff: an IP list of Draft against that of active.                *)

\* diff_objects: a list's members are compared as a whole; a member that is new in Draft is an expansion.
DiffObject(draft, active) ==
    IF draft = active THEN {} ELSE {[change |-> "modified", scope_expanded |-> draft \ active # {}]}
DiffPresence(draft, active) ==
    IF draft # {} /\ active = {} THEN {[change |-> "added", scope_expanded |-> FALSE]}
    ELSE IF draft = {} /\ active # {} THEN {[change |-> "removed", scope_expanded |-> FALSE]}
    ELSE DiffObject(draft, active)
\* object_refs: enabled allow rules of enabled rule sets count, deny rules do not.
ObjectRefs(list, rulesInForce) ==
    Cardinality({r \in rulesInForce : r.type = "allow" /\ r.enabled /\ r.ruleset_enabled /\ list \in r.lists})
\* Mutation of Risk: a widened object is graded whether or not a rule uses it only when it was removed.
RiskRemovedOnly(change, refs) == IF change.change = "removed" THEN "medium" ELSE ""
\* _risk of an object
Risk(change, refs) ==
    IF change.change = "removed" THEN "medium"
    ELSE IF change.change = "modified" /\ change.scope_expanded /\ refs > 0 THEN "high" ELSE ""

Covers(members) == UNION {m.ips : m \in {x \in members : ~x.exclusion}} \ UNION {m.ips : m \in {x \in members : x.exclusion}}

-----------------------------------------------------------------------------
NoPolicyCase == [asked |-> "nothing"]
PolicyInit == policyCase = NoPolicyCase

Sides == {s \in SUBSET Actors : Cardinality(s) <= 2}
\* An input of the question.
Rule(href, consumers, providers, unscoped, virtual, services) ==
    [href |-> href, consumers |-> consumers, providers |-> providers, unscoped |-> unscoped, virtual |-> virtual,
     services |-> services, enabled |-> TRUE]
\* A rule set of two rules; the second one is there for the limit and for the rows of another rule.
AskResolve ==
    /\ policyCase = NoPolicyCase
    /\ \E consumers, providers \in Sides, unscoped \in BOOLEAN, scopes \in Scopes, limit \in Limits :
       \E services \in {1, 2}, enabled, virtual \in BOOLEAN :
          /\ Cardinality(consumers) + Cardinality(providers) <= 3
          /\ virtual => enabled /\ services = 1
          /\ LET rules == <<Rule("r1", consumers, providers, unscoped, virtual, services),
                            [Rule("r2", providers, consumers, FALSE, FALSE, 1) EXCEPT !.enabled = enabled]>>
             IN policyCase' = [asked |-> "resolve", rules |-> rules, scopes |-> scopes, answer |-> Resolve(rules, scopes, limit)]

AskDiff ==
    /\ policyCase = NoPolicyCase
    /\ \E draft, active \in SUBSET Ranges, type \in {"allow", "deny"}, enabled, ruleset_enabled, uses \in BOOLEAN :
          LET rule == [type |-> type, enabled |-> enabled, ruleset_enabled |-> ruleset_enabled, lists |-> IF uses THEN {"list"} ELSE {}]
              changes == DiffPresence(draft, active)
          IN policyCase' = [asked |-> "diff", draft |-> draft, active |-> active, rule |-> rule,
                            grades |-> {Risk(c, ObjectRefs("list", {rule})) : c \in changes}]

PolicyNext == AskResolve \/ AskDiff

-----------------------------------------------------------------------------
(* What a rule means, workload by workload.                                *)

Carries(w, actor) ==
    CASE actor.kind = "label" -> actor.ref \in Inventory[w].labels
      [] actor.kind = "label_group" -> GroupLabels(actor.ref) \cap Inventory[w].labels # {}
      [] OTHER -> actor.kind = "ams" \/ (actor.kind = "workload" /\ w = actor.ref)
LabelsFit(w, actors) == \A a \in actors : \E b \in actors : KeyOf(b) = KeyOf(a) /\ Carries(w, b)
InScope(w, scope) ==
    \/ scope = {}
    \/ /\ \E a \in scope : ~a.exclusion
       /\ LabelsFit(w, {a \in scope : ~a.exclusion}) /\ \A a \in scope : a.exclusion => ~Carries(w, a)
\* The addresses of one side of a rule: of the workloads it takes, in the scope, and of its IP lists.
MeantBy(actors, scope) ==
    LET taken == {a \in actors : ~a.exclusion}
        labels == {a \in taken : IsLabel(a)}
        ws == {w \in Workloads : InScope(w, scope) /\ (\/ \E a \in taken \ labels : Carries(w, a)
                                                       \/ labels # {} /\ LabelsFit(w, labels))}
    IN IF actors = {} THEN {AnyAddress}
       ELSE (AddressesOf(ws) \cup UNION {ActorIps(a) : a \in {x \in taken : x.kind \in {"ip_list", "ip"}}})
            \ UNION {ActorIps(a) : a \in actors \ taken}
Meaning(rule, scopes) ==
    UNION {MeantBy(rule.consumers, IF rule.unscoped THEN {} ELSE s) \X MeantBy(rule.providers, s) :
             s \in IF scopes = {} \/ {} \in scopes THEN {{}} ELSE scopes}

\* The rows of a rule set say what its rules say: never wider, never across two scopes, and what is not
\* written out is capped, counted as omitted or named as not expanded, never silently left out.
RowsSayTheRules ==
    policyCase.asked = "resolve" =>
       LET answer == policyCase.answer
           rowsOf(r) == {<<x[2], x[3]>> : x \in {y \in answer.rows : y[1] = r.href}}
       IN \A i \in DOMAIN policyCase.rules :
             LET rule == policyCase.rules[i]
                 listed == rowsOf(rule)
                 closed == rule.enabled /\ rule.href \notin answer.issues
             IN /\ rule.enabled /\ CannotExpand(rule, policyCase.scopes) <=> rule.href \in answer.issues
                /\ ~closed => listed = {}
                /\ closed =>
                     LET meaning == Meaning(rule, policyCase.scopes)
                     IN /\ \A row \in listed : Capped \in {row[1], row[2]} \/ row \in meaning
                        /\ answer.omitted = 0 => \A p \in meaning : \/ p \in listed
                                                                    \/ \E row \in listed : Capped \in {row[1], row[2]}
                        /\ rule.href \in answer.no_address <=> meaning = {}

\* A change that opens more addresses to a rule in force is graded high (where no exclusion changes, README section 6).
WideningIsHigh ==
    policyCase.asked = "diff" =>
       LET c == policyCase
           wider == ~(Covers(c.draft) \subseteq Covers(c.active))
           sameExclusions == {m \in c.draft : m.exclusion} = {m \in c.active : m.exclusion}
           inForce == c.rule.type = "allow" /\ c.rule.enabled /\ c.rule.ruleset_enabled /\ c.rule.lists # {}
       IN sameExclusions /\ c.active # {} /\ wider /\ inForce => c.grades = {"high"}

\* What the two policy reports print is true of the rules (resolve_rules, diff_rows).
PolicyReportsAreTrue == RowsSayTheRules /\ WideningIsHigh
=============================================================================
