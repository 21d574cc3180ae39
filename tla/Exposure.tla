------------------------------ MODULE Exposure ------------------------------
(***************************************************************************)
(* The lateral-movement exposure graph: which hosts reach which over       *)
(* management ports, the pivots, the cuts suggested for a critical asset,  *)
(* and the deny rule that simulates a cut.  A host is a number, and the    *)
(* order of numbers is the order of names.                                 *)
(*                                                                         *)
(* exposureCase holds one question and what the program answers; pivots    *)
(* is the iterative Tarjan search, one step at a time.                     *)
(***************************************************************************)
EXTENDS Integers, Sequences, SequencesExt, FiniteSetsExt, TLC

CONSTANTS
    NumHosts,      \* hosts of the directed graphs asked about
    NumPivotHosts, \* hosts of the graphs searched for pivots
    MaxLinks,      \* bound: connections of those
    MaxCandidates, \* max_candidates of suggest_cuts
    TopCuts,       \* top of suggest_cuts
    MaxCrossEnv    \* max_cross_env

ASSUME ExposureAssumption == {NumHosts, NumPivotHosts, MaxLinks, MaxCandidates, TopCuts, MaxCrossEnv} \subseteq Nat

VARIABLES
    exposureCase,  \* the question asked and its answer
    pivots         \* the search: [adj, disc, low, stack, root, children, clock, points]

exposureVars == <<exposureCase, pivots>>

GraphHosts == 1 .. NumHosts
PivotHosts == 1 .. NumPivotHosts
Count == [i \in 1 .. NumHosts |-> i]
NoQuestion == [part |-> "none"]
NotSearching == [adj |-> {}, disc |-> <<>>, low |-> <<>>, stack |-> <<>>, root |-> 0, children |-> 0, clock |-> 0, points |-> {}]
ExposureInit == exposureCase = NoQuestion /\ pivots = NotSearching
AskExposure(part, input, answer) ==
    exposureCase' = [part |-> part, input |-> input, answer |-> answer] /\ UNCHANGED pivots

-----------------------------------------------------------------------------
(* build_graph                                                             *)

Strength == [unknown |-> 0, potentially_blocked |-> 1, allowed |-> 2]
\* edge_state: none is blocked, and no edge.
EdgeState(decision) ==
    IF decision \in DOMAIN Strength THEN decision ELSE IF decision = "blocked" THEN "none" ELSE "unknown"
Stronger(a, b) == IF Strength[a] > Strength[b] THEN a ELSE b
\* Mutation of Merge: the newest state replaces the pair's.
MergeNewest(g, e) ==
    LET pair == <<e.src, e.dst>>
    IN (pair :> [ports |-> (IF pair \in DOMAIN g THEN g[pair].ports ELSE {}) \cup {e.port}, state |-> e.state]) @@ g
Merge(g, e) ==
    LET pair == <<e.src, e.dst>>
        had == IF pair \in DOMAIN g THEN g[pair] ELSE [ports |-> {}, state |-> e.state]
    IN (pair :> [ports |-> had.ports \cup {e.port}, state |-> Stronger(had.state, e.state)]) @@ g
BuildGraph(edges, enforced) ==
    FoldLeft(LAMBDA g, e : IF e.src = e.dst \/ (enforced /\ e.state # "allowed") THEN g ELSE Merge(g, e), <<>>, edges)

AskGraph ==
    \E d1, d2, d3 \in {"allowed", "potentially_blocked", "blocked", "other"}, p1, p2, p3 \in {22, 445}, there \in {1, 2}, enforced \in BOOLEAN :
       LET seen == << [src |-> 1, dst |-> 2, port |-> p1, state |-> EdgeState(d1)], [src |-> 1, dst |-> 2, port |-> p2, state |-> EdgeState(d2)],
                      [src |-> there, dst |-> 1, port |-> p3, state |-> EdgeState(d3)] >>
           edges == SelectSeq(seen, LAMBDA e : e.state # "none")
       IN AskExposure("graph", [edges |-> edges, enforced |-> enforced], BuildGraph(edges, enforced))
\* One edge per pair of hosts that is left, with the strongest state and every port it was seen with.
GraphHolds(q, g) ==
    LET listed == {e \in Range(q.edges) : e.src # e.dst /\ (q.enforced => e.state = "allowed")}
    IN /\ DOMAIN g = {<<e.src, e.dst>> : e \in listed}
       /\ \A pair \in DOMAIN g :
             LET own == {e \in listed : <<e.src, e.dst>> = pair}
             IN /\ g[pair].ports = {e.port : e \in own} /\ \E e \in own : e.state = g[pair].state
                /\ \A e \in own : Strength[e.state] <= Strength[g[pair].state]

-----------------------------------------------------------------------------
(* reach_counts, paths_to, suggest_cuts, apply_deny and collapse, on every *)
(* directed graph; the ports and the state of an edge follow from its ends.*)

PortsOf(e) == IF e[1] < e[2] THEN {22} ELSE {22, 445}
StateOf(e) == IF e[1] % 2 = 1 THEN "allowed" ELSE IF e[2] % 2 = 1 THEN "unknown" ELSE "potentially_blocked"
Enforced(g) == {e \in g : StateOf(e) = "allowed"}
EdgesOf(g) == {[src |-> e[1], dst |-> e[2], port |-> p] : e \in g, p \in {22, 445}} \cap
              UNION {{[src |-> e[1], dst |-> e[2], port |-> p] : p \in PortsOf(e)} : e \in g}

\* R(i+1)[v]: R(i)[v] and R(i)[u] of v's neighbours u.
\* Mutation of Pass: the rows already widened are read.
PassInPlace(g, reach) ==
    FoldLeft(LAMBDA r, v : [r EXCEPT ![v] = @ \cup UNION {r[u] : u \in {u \in GraphHosts : <<v, u>> \in g}}], reach, Count)
Pass(g, reach) == [v \in GraphHosts |-> reach[v] \cup UNION {reach[u] : u \in {u \in GraphHosts : <<v, u>> \in g}}]
ReachCounts(g, hops) ==
    LET direct == [v \in GraphHosts |-> {u \in GraphHosts : <<v, u>> \in g}]
        reach == FoldLeft(LAMBDA r, i : Pass(g, r), direct, [i \in 1 .. hops - 1 |-> i])
    IN [v \in GraphHosts |-> Cardinality(reach[v] \ {v})]

NoSkip == [edge |-> <<0, 0>>, into |-> 0]
\* _paths_to: breadth first from the target; the i-th turn of the loop takes the i-th host queued.
\* Mutation of Ahead: hosts on the last hop are widened too.
AheadOneMore(s, node, hops) == s.dist[node] <= hops
Ahead(s, node, hops) == s.dist[node] < hops
PathsTo(g, target, hops, skip) ==
    FoldLeft(LAMBDA s, i :
                IF i > Len(s.queue) \/ ~Ahead(s, s.queue[i], hops) THEN s
                ELSE LET node == s.queue[i]
                         new == {p \in GraphHosts \ DOMAIN s.dist : <<p, node>> \in g /\ node # skip.into /\ <<p, node>> # skip.edge}
                     IN [queue |-> s.queue \o SetToSortSeq(new, <),
                         dist |-> [p \in new |-> s.dist[node] + 1] @@ s.dist, nxt |-> [p \in new |-> node] @@ s.nxt],
             [queue |-> <<target>>, dist |-> (target :> 0), nxt |-> <<>>], Count).nxt
\* _path: the next hops followed to the target.
PathFrom(nxt, source, target) ==
    FoldLeft(LAMBDA p, i : IF Last(p) = target THEN p ELSE Append(p, nxt[Last(p)]), <<source>>, Count)

EdgesOn(p) == {<<p[i], p[i + 1]>> : i \in 1 .. Len(p) - 1}
Between(p) == {p[i] : i \in 2 .. Len(p) - 1}
\* Candidates by how many shortest paths go through them, edges before hosts, then by name.
Candidates(base, target) ==
    LET paths == {PathFrom(base, s, target) : s \in DOMAIN base}
        Uses(c) == Cardinality({p \in paths : IF c.kind = "edge" THEN <<c.src, c.dst>> \in EdgesOn(p) ELSE c.src \in Between(p)})
        all == {[kind |-> "edge", src |-> e[1], dst |-> e[2]] : e \in UNION {EdgesOn(p) : p \in paths}}
               \cup {[kind |-> "node", src |-> v, dst |-> 0] : v \in UNION {Between(p) : p \in paths}}
        Before(a, b) == LET x == <<-Uses(a), IF a.kind = "edge" THEN 0 ELSE 1, a.src, a.dst>>
                            y == <<-Uses(b), IF b.kind = "edge" THEN 0 ELSE 1, b.src, b.dst>>
                        IN \E i \in 1 .. 4 : x[i] < y[i] /\ \A j \in 1 .. i - 1 : x[j] = y[j]
    IN LET sorted == SetToSortSeq(all, Before) IN SubSeq(sorted, 1, Min({Len(sorted), MaxCandidates}))
SkipOf(c) == IF c.kind = "edge" THEN [edge |-> <<c.src, c.dst>>, into |-> 0] ELSE [edge |-> <<0, 0>>, into |-> c.src]
SuggestCuts(g, target, hops) ==
    LET base == PathsTo(g, target, hops, NoSkip)
        cuts == {[kind |-> c.kind, src |-> c.src, dst |-> c.dst, ports |-> IF c.kind = "edge" THEN PortsOf(<<c.src, c.dst>>) ELSE {},
                  before |-> Cardinality(DOMAIN base), after |-> Cardinality(DOMAIN PathsTo(g, target, hops, SkipOf(c)))] :
                 c \in Range(Candidates(base, target))}
        Narrower(a, b) == LET x == <<a.after, IF a.kind = "edge" THEN 0 ELSE 1, Cardinality(a.ports), a.src, a.dst>>
                              y == <<b.after, IF b.kind = "edge" THEN 0 ELSE 1, Cardinality(b.ports), b.src, b.dst>>
                          IN \E i \in 1 .. 5 : x[i] < y[i] /\ \A j \in 1 .. i - 1 : x[j] = y[j]
    IN LET sorted == SetToSortSeq(cuts, Narrower) IN SubSeq(sorted, 1, Min({Len(sorted), TopCuts}))

\* cut_to_proposal: the pair's ports, or everything into the host; apply_deny: what the proposal leaves.
DenyMatches(cut, e) == IF cut.kind = "edge" THEN e.src = cut.src /\ e.dst = cut.dst /\ e.port \in cut.ports ELSE e.dst = cut.src
ApplyDeny(g, cut) == {<<e.src, e.dst>> : e \in {e \in EdgesOf(g) : ~DenyMatches(cut, e)}}

GroupOf(v) == IF v < 3 THEN "web" ELSE IF v = 3 THEN "db" ELSE "none"
Collapse(g) ==
    [k \in {<<GroupOf(e[1]), GroupOf(e[2])>> : e \in g} |->
        LET own == {e \in g : <<GroupOf(e[1]), GroupOf(e[2])>> = k}
        IN [edges |-> Cardinality(own), state |-> FoldSet(LAMBDA e, best : Stronger(StateOf(e), best), "unknown", own)]]

\* A graph is asked about, and answered in a step of its own.
AskReach ==
    /\ \E g \in SUBSET {e \in GraphHosts \X GraphHosts : e[1] # e[2]}, hops \in 2 .. NumHosts - 1 :
          exposureCase' = [part |-> "asked", g |-> g, hops |-> hops, target |-> 2]
    /\ UNCHANGED pivots
AnswerReach ==
    /\ exposureCase.part = "asked"
    /\ LET q == exposureCase
       IN AskExposure("reach", q,
                      [reach |-> ReachCounts(q.g, q.hops), paths |-> PathsTo(q.g, q.target, q.hops, NoSkip),
                       enforced |-> PathsTo(Enforced(q.g), q.target, q.hops, NoSkip),
                       cuts |-> SuggestCuts(q.g, q.target, q.hops), groups |-> Collapse(q.g)])

\* The reference: ways through the graph that visit no host twice.
Ways == {w \in UNION {[1 .. n -> GraphHosts] : n \in 2 .. NumHosts} : Cardinality(Range(w)) = Len(w)}
WaysIn(g, hops) == {w \in Ways : Len(w) - 1 <= hops /\ EdgesOn(w) \subseteq g}
SourcesOf(ways, target) == {w[1] : w \in {w \in ways : Last(w) = target}}
\* Reach, sources and paths are those of the graph within the hops; paths are shortest; enforcement adds no source; no
\* single cut leaves fewer sources than the first suggested; the deny rule of a cut leaves what the cut said.
ReachHolds(q, a) ==
    LET ways == WaysIn(q.g, q.hops) before == SourcesOf(ways, q.target) IN
    /\ \A v \in GraphHosts : a.reach[v] = Cardinality({Last(w) : w \in {w \in ways : w[1] = v}})
    /\ DOMAIN a.paths = before /\ DOMAIN a.enforced \subseteq before
    /\ \A s \in before : LET p == PathFrom(a.paths, s, q.target)
                         IN p \in ways /\ \A w \in ways : w[1] = s /\ Last(w) = q.target => Len(p) <= Len(w)
    /\ (a.cuts = <<>>) = (before = {})
    /\ \A i \in 1 .. Len(a.cuts) :
          /\ a.cuts[i].before = Cardinality(before)
          /\ a.cuts[i].after = Cardinality(SourcesOf(WaysIn(ApplyDeny(q.g, a.cuts[i]), q.hops), q.target))
    /\ a.cuts # <<>> =>
          /\ \A e \in q.g : a.cuts[1].after <= Cardinality(SourcesOf({w \in ways : e \notin EdgesOn(w)}, q.target))
          /\ \A v \in GraphHosts \ {q.target} :
                a.cuts[1].after <= Cardinality(SourcesOf({w \in ways : v \notin {w[i] : i \in 2 .. Len(w)}}, q.target))
    /\ MapThenSumSet(LAMBDA k : a.groups[k].edges, DOMAIN a.groups) = Cardinality(q.g)

-----------------------------------------------------------------------------
(* articulation_points: iterative Tarjan.  A frame is [node, parent, left];*)
(* the neighbours are a list made of a set, so they come in any order.     *)

Neighbours(adj, v) == {u \in PivotHosts : {u, v} \in adj}
Frame(v, parent, adj) == [node |-> v, parent |-> parent, left |-> Neighbours(adj, v)]
BeginSearch ==
    /\ exposureCase = NoQuestion /\ pivots = NotSearching
    /\ \E adj \in UNION {kSubset(k, kSubset(2, PivotHosts)) : k \in 1 .. MaxLinks} :
          pivots' = [NotSearching EXCEPT !.adj = adj, !.disc = [v \in PivotHosts |-> -1], !.low = [v \in PivotHosts |-> 0]]
    /\ UNCHANGED exposureCase
Searching == pivots.adj # {} /\ pivots.root <= NumPivotHosts
\* The next root: what the last one's children make of it first.
NextRoot ==
    /\ Searching /\ pivots.stack = <<>>
    /\ LET done == [pivots EXCEPT !.points = IF pivots.children > 1 THEN @ \cup {pivots.root} ELSE @, !.root = @ + 1, !.children = 0]
           r == done.root
       IN pivots' = IF r > NumPivotHosts \/ pivots.disc[r] # -1 THEN done
                    ELSE [done EXCEPT !.disc[r] = pivots.clock, !.low[r] = pivots.clock, !.clock = @ + 1, !.stack = <<Frame(r, 0, pivots.adj)>>]
    /\ UNCHANGED exposureCase
Lower(a, b) == IF a < b THEN a ELSE b
\* One neighbour of the host on top: the parent is passed over, an undiscovered one is gone into.
TakeNeighbour ==
    /\ Searching /\ pivots.stack # <<>> /\ Last(pivots.stack).left # {}
    /\ \E u \in Last(pivots.stack).left :
          LET top == Last(pivots.stack)
              taken == [pivots EXCEPT !.stack[Len(pivots.stack)].left = @ \ {u}]
          IN pivots' = IF u = top.parent THEN taken
                       ELSE IF pivots.disc[u] # -1 THEN [taken EXCEPT !.low[top.node] = Lower(@, pivots.disc[u])]
                       ELSE [taken EXCEPT !.disc[u] = pivots.clock, !.low[u] = pivots.clock, !.clock = @ + 1,
                                          !.children = IF top.node = pivots.root THEN @ + 1 ELSE @,
                                          !.stack = Append(@, Frame(u, top.node, pivots.adj))]
    /\ UNCHANGED exposureCase
\* Mutation of Splits: a host below that reaches the parent itself is thought to go around it.
SplitsStrictly(child, parent) == pivots.low[child] > pivots.disc[parent]
Splits(child, parent) == pivots.low[child] >= pivots.disc[parent]
LeaveHost ==
    /\ Searching /\ pivots.stack # <<>> /\ Last(pivots.stack).left = {}
    /\ LET top == Last(pivots.stack) parent == top.parent
           popped == [pivots EXCEPT !.stack = Front(@)]
       IN pivots' = IF parent = 0 THEN popped
                    ELSE [popped EXCEPT !.low[parent] = Lower(@, pivots.low[top.node]),
                                        !.points = IF parent # pivots.root /\ Splits(top.node, parent) THEN @ \cup {parent} ELSE @]
    /\ UNCHANGED exposureCase

\* The hosts connected to one without going through another.
ConnectedTo(adj, from, without) ==
    FoldLeft(LAMBDA reached, i : reached \cup (UNION {Neighbours(adj, v) : v \in reached} \ {without}), {from}, [i \in 1 .. NumPivotHosts |-> i])
\* The search finds exactly the hosts between two neighbours that nothing else connects, in whatever order it goes.
PivotsHold ==
    pivots.adj # {} /\ pivots.root > NumPivotHosts =>
       pivots.points = {v \in PivotHosts : \E a, b \in Neighbours(pivots.adj, v) : b \notin ConnectedTo(pivots.adj, a, v)}

-----------------------------------------------------------------------------
(* cross_env and the focus item read from what is kept of it.              *)

\* Mutation of Crossing: by name alone.
CrossingByName(a, b) == a.src < b.src
Crossing(a, b) == \/ a.state = "allowed" /\ b.state # "allowed"
                  \/ (a.state = "allowed") = (b.state = "allowed") /\ a.src < b.src
CrossEnv(edges) == LET sorted == SetToSortSeq(edges, Crossing) IN SubSeq(sorted, 1, Min({Len(sorted), MaxCrossEnv}))
FocusSeverity(listed) == IF \E i \in 1 .. Len(listed) : listed[i].state = "allowed" THEN "high" ELSE IF listed = <<>> THEN "none" ELSE "medium"
AskCrossEnv ==
    \E states \in [1 .. MaxCrossEnv + 1 -> DOMAIN Strength], env \in [1 .. MaxCrossEnv + 1 -> {"prod", "dev", "none"}] :
       LET edges == {[src |-> i, state |-> states[i]] : i \in {i \in DOMAIN env : env[i] \notin {"none", "prod"}}}
       IN AskExposure("crossEnv", edges, FocusSeverity(CrossEnv(edges)))
\* "listed first, so the cap never hides one": the severity is that of all the crossings.
CrossEnvHolds(edges, severity) ==
    severity = IF edges = {} THEN "none" ELSE IF \E e \in edges : e.state = "allowed" THEN "high" ELSE "medium"

-----------------------------------------------------------------------------
(* The management ports: protocol 0 is any.                                *)

Gone(e, removed) == \E r \in removed : r.port = e.port /\ r.proto \in {0, e.proto}
EffectivePorts(builtin, known, extra, removed) == SelectSeq(builtin \o known \o extra, LAMBDA e : ~Gone(e, removed))
\* The first entry of the port and protocol, else the first for any protocol.
ClassOf(entries, port, proto) ==
    LET Own(p) == SelectSeq(entries, LAMBDA e : e.port = port /\ e.proto = p)
    IN IF Own(proto) # <<>> THEN Head(Own(proto)).class ELSE IF Own(0) # <<>> THEN Head(Own(0)).class ELSE "none"
PortFilters(entries, classes) == {[port |-> e.port, proto |-> e.proto] : e \in {e \in Range(entries) : e.class \in classes}}
AskPortClasses ==
    \E extra \in {<<>>} \cup {<<[port |-> 22, proto |-> p, class |-> c]>> : p \in {0, 6, 17}, c \in {"remote", "database"}},
       known \in {<<>>, <<[port |-> 22, proto |-> 17, class |-> "remote"]>>}, removed \in SUBSET {[port |-> 22, proto |-> p] : p \in {0, 6, 17}} :
       LET entries == EffectivePorts(<<[port |-> 22, proto |-> 6, class |-> "remote"]>>, known, extra, removed)
       IN AskExposure("ports", removed, entries)
\* A port removed whatever the protocol is none; what a detector reads, its evidence shows.
PortsHold(removed, entries) ==
    \A proto \in {6, 17}, class \in {"remote", "database"} :
       /\ [port |-> 22, proto |-> 0] \in removed => ClassOf(entries, 22, proto) = "none"
       /\ ClassOf(entries, 22, proto) = class =>
             \E f \in PortFilters(entries, {class}) : f.port = 22 /\ f.proto \in {0, proto}

-----------------------------------------------------------------------------
ExposureNext ==
    \/ exposureCase = NoQuestion /\ pivots = NotSearching /\ (AskGraph \/ AskReach \/ AskCrossEnv \/ AskPortClasses)
    \/ AnswerReach \/ BeginSearch \/ NextRoot \/ TakeNeighbour \/ LeaveHost

\* What the lateral page, the focus list and the posture report say of the graph is so (domain/exposure.py, domain/deny.py).
ExposureIsTrue ==
    LET q == exposureCase
    IN CASE q.part = "graph" -> GraphHolds(q.input, q.answer)
         [] q.part = "reach" -> ReachHolds(q.input, q.answer)
         [] q.part = "crossEnv" -> CrossEnvHolds(q.input, q.answer)
         [] q.part = "ports" -> PortsHold(q.input, q.answer)
         [] OTHER -> PivotsHold
=============================================================================
