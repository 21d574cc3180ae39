------------------------------ MODULE MCAnalysis ------------------------------
(***************************************************************************)
(* What is worked out from the collected traffic, checked side by side:    *)
(* alert rules on detections, the filter in its three readings, the        *)
(* reports on policy and on the use of rules, the detection run and its    *)
(* detectors.  They meet only in tables one writes and another reads, so a *)
(* behaviour is one of one of them.                                        *)
(***************************************************************************)
EXTENDS AlertRules, FlowFilter, PolicyRules, RuleUsage, Detection, Anomalies, TLC

VARIABLE part

-----------------------------------------------------------------------------
(* Filters and records.                                                    *)

Env(vs) == [key |-> "env", values |-> vs]
Web == [key |-> "app", values |-> {"Web"}]
SomeHosts ==
    {[hrefs |-> {}, ips |-> {}, nets |-> {}, lists |-> {}, public |-> FALSE],
     [hrefs |-> {"w1"}, ips |-> {"i1"}, nets |-> {}, lists |-> {}, public |-> FALSE],
     [hrefs |-> {}, ips |-> {}, nets |-> {{"i1"}}, lists |-> {"l1"}, public |-> FALSE],
     [hrefs |-> {}, ips |-> {}, nets |-> {}, lists |-> {}, public |-> TRUE]}
SomeEndpoints ==
    {[labels |-> l, groups |-> g, hrefs |-> h.hrefs, ips |-> h.ips, nets |-> h.nets, lists |-> h.lists,
      public |-> h.public, match |-> m] :
       l \in {{}, {Env({"Prod", "Dev"})}, {Env({"Prod"}), Web}, {Env({"Prod"}), Env({"Dev"})}},
       g \in {{}, {"g1"}, {"g1", "g2"}}, h \in SomeHosts, m \in {"any", "all"}}
SomeEnds ==
    {[labels |-> l, href |-> h, ip |-> i] :
       l \in {<<>>, "env" :> "Dev", ("env" :> "Prod") @@ ("app" :> "Web")}, h \in {None, "w1"}, i \in {"i1", "p1"}}
LabelGroup(k, ms) == [key |-> k, members |-> ms]
Ssh == [port |-> 22, to |-> None, proto |-> 6]
SomeKnowledge ==
    {[lists |-> "l1" :> {"i1"}, services |-> "s1" :> {Ssh},
      groups |-> ("g1" :> LabelGroup("env", {"Dev"})) @@ ("g2" :> LabelGroup("app", {"Web"}))],
     [lists |-> <<>>, services |-> <<>>, groups |-> "g1" :> LabelGroup("env", {"Dev"})]}
SomePortConds ==
    {Ssh, [port |-> -1, to |-> None, proto |-> None], [port |-> 21, to |-> 22, proto |-> None],
     [port |-> None, to |-> None, proto |-> 17]}
SomeTexts ==
    {[base |-> b, cap |-> c, ascii |-> a, domain |-> d] :
       b \in {"root", "anna"}, c \in BOOLEAN, a \in BOOLEAN, d \in BOOLEAN}

-----------------------------------------------------------------------------
(* Policy.                                                                 *)

Prod == <<"env", "Prod">>
Dev == <<"env", "Dev">>
WebApp == <<"app", "Web">>
Actor(k, r, x) == [kind |-> k, ref |-> r, exclusion |-> x]
SomeInventory ==
    "w1" :> [ips |-> {"a1"}, labels |-> {Prod, WebApp}] @@ "w2" :> [ips |-> {"a2"}, labels |-> {Dev, WebApp}]
    @@ "w3" :> [ips |-> {"a3"}, labels |-> {Prod}]
\* Two groups that name each other.
SomeGroups ==
    "g1" :> [key |-> "env", labels |-> {Dev}, subs |-> {"g2"}] @@ "g2" :> [key |-> "env", labels |-> {Prod}, subs |-> {"g1"}]
SomeIpLists == "l1" :> {"a1", "x"}
SomeActors ==
    {Actor("ams", "", FALSE), Actor("label", Prod, FALSE), Actor("label", WebApp, FALSE), Actor("label", Dev, TRUE),
     Actor("label_group", "g2", FALSE), Actor("ip_list", "l1", FALSE), Actor("workload", "w3", FALSE),
     Actor("label_group", "gone", FALSE)}
SomeScopes ==
    {{}, {{Actor("label", Prod, FALSE)}}, {{Actor("label", Prod, FALSE)}, {Actor("label", Dev, FALSE)}},
     {{Actor("label", WebApp, FALSE), Actor("label", Dev, TRUE)}}, {{Actor("label", Dev, TRUE)}}}
SomeRanges ==
    {[ips |-> {"a1"}, exclusion |-> FALSE], [ips |-> {"a2"}, exclusion |-> FALSE],
     [ips |-> {"a1", "a2"}, exclusion |-> FALSE], [ips |-> {"a1"}, exclusion |-> TRUE]}

\* A connection allowed across two windows, beside the one that is looked at.
SomeFellows == {{}, {[out |-> [first |-> 2, last |-> 3, decision |-> "allowed"], in |-> NotSeen]}}

-----------------------------------------------------------------------------
(* Detections and anomalies.                                               *)

BeganBefore == [t \in Targets |-> IF t = "a" THEN 0 ELSE 3]
Machines == {"w1", "w2", "w3", "dc", "x"}
SomePairs == {<<"w1", "dc">>, <<"w2", "dc">>, <<"dc", "w1">>, <<"w1", "x">>}
HostGroup == [h \in Machines |-> IF h \in {"w1", "w2", "w3"} THEN "web" ELSE IF h = "dc" THEN "ad" ELSE NoGroup]
Services_ == {"ssh", "ldap", "app", "web"}
PortClass == [p \in Services_ |-> IF p = "ssh" THEN "remote" ELSE IF p = "ldap" THEN "directory" ELSE "service"]
OpenedBy == [p \in Services_ |-> IF p = "ssh" THEN "psexec" ELSE IF p = "ldap" THEN "" ELSE "java"]
RunBy == [p \in Services_ |-> IF p = "ldap" THEN "" ELSE "ann"]
OnList == [p \in {"ssh"} |-> {"sshd"}]
Finding(k, s, p) == [kind |-> k, subject |-> s, ends |-> {"w1"}, port |-> p, severity |-> 1, at |-> 2]
FindingsOfTwo ==
    {Finding("surge", "w1", 0), Finding("quiet", "w1", 0), Finding("off_hours", "w1", 0), Finding("off_hours", "w2", 0),
     Finding("quiet", "w2", 0), Finding("peer", "w1", 80), Finding("pair_port", "w1", 80), Finding("fanout", "w2", 0),
     Finding("new_dc_client", "w2", 0)}

-----------------------------------------------------------------------------
analysisVars == <<vars, filterCase, policyCase, usageCase, detectionVars, runCase, part>>

\* Only the part that runs begins in every way it can.
AnalysisInit ==
    /\ part \in {"alerts", "filter", "policy", "usage", "detection", "anomalies"}
    /\ Init /\ (part = "alerts" \/ mark = NoMark)
    /\ FilterInit /\ PolicyInit /\ UsageInit /\ DetectionInit /\ AnomalyInit

AnalysisNext ==
    \/ part = "alerts" /\ Next /\ UNCHANGED <<filterCase, policyCase, usageCase, detectionVars, runCase, part>>
    \/ part = "filter" /\ FilterNext /\ UNCHANGED <<vars, policyCase, usageCase, detectionVars, runCase, part>>
    \/ part = "policy" /\ PolicyNext /\ UNCHANGED <<vars, filterCase, usageCase, detectionVars, runCase, part>>
    \/ part = "usage" /\ UsageNext /\ UNCHANGED <<vars, filterCase, policyCase, detectionVars, runCase, part>>
    \/ part = "detection" /\ DetectionNext /\ UNCHANGED <<vars, filterCase, policyCase, usageCase, runCase, part>>
    \/ part = "anomalies" /\ AnomalyNext /\ UNCHANGED <<vars, filterCase, policyCase, usageCase, detectionVars, part>>

\* A detection run judges every record once and reports what is so, whatever fails in between (services/analysis/detect.py,
\* domain/anomaly.py, domain/detectors.py).
DetectionsAreTrue == (part = "detection" => DetectionIsComplete) /\ (part = "anomalies" => AnomaliesAreReal)

\* What the reports say of the policy and of the use of its rules is so (domain/policy_resolver.py, domain/policy_diff.py,
\* services/analysis/rule_usage.py).
PolicyIsShownAsItIs == (part = "policy" => PolicyReportsAreTrue) /\ (part = "usage" => UnusedIsUnused)

AnalysisSpec == AnalysisInit /\ [][AnalysisNext]_analysisVars
=============================================================================
