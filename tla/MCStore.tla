------------------------------- MODULE MCStore -------------------------------
(***************************************************************************)
(* What the flow store keeps and answers from, checked side by side: the   *)
(* archive and retention, the rows of connections and their rollups, and   *)
(* the coverage of an answer.  They share the file but not the tables, so  *)
(* a behaviour is one of one of them.                                      *)
(***************************************************************************)
EXTENDS Archive, Connections, Coverage

VARIABLE part

\* Two records of one connection.
MCConn == [r \in 1 .. 2 |-> "pair"]

\* Records of one connection seen from both ends, in parts that overlap and repeat.
Seen_(o, f, l, n, b, p) == [out |-> o, first |-> f, last |-> l, num |-> n, bytes |-> b, process |-> p]
SomeSightings ==
    {Seen_(TRUE, 0, 0, 1, NoBytes, ""), Seen_(TRUE, 0, 3, 2, 1, "p"), Seen_(TRUE, 2, 2, 1, 2, "q"),
     Seen_(FALSE, 1, 1, 1, NoBytes, "s"), Seen_(FALSE, 1, 4, 3, 3, "s"), Seen_(FALSE, 4, 4, 2, 1, "")}
SomeArrivals ==
    {{s} : s \in SomeSightings}
    \cup {{Seen_(TRUE, 0, 3, 2, 1, "p"), Seen_(FALSE, 4, 4, 2, 1, "")}, {Seen_(TRUE, 2, 2, 1, 2, "q"), Seen_(FALSE, 1, 1, 1, NoBytes, "s")},
          SomeSightings}

\* The whole period and a window inside it.
SomeRequests == {<<0, 3>>, <<1, 2>>}

storeVars == <<vars, connectionVars, answer, part>>

StoreInit ==
    /\ part \in {"archive", "connections", "coverage"}
    /\ Init /\ (part = "archive" \/ flowDays = 1) /\ ConnectionInit /\ (part = "connections" \/ flowRows = <<>>)
    /\ CoverageInit

\* A step of the archive leaves the others alone.
ArchivePart(action) == part = "archive" /\ action /\ UNCHANGED <<connectionVars, answer, part>>

StoreNext ==
    \/ part = "archive" /\ Next /\ UNCHANGED <<connectionVars, answer, part>>
    \/ part = "connections" /\ ConnectionNext /\ UNCHANGED <<vars, answer, part>>
    \/ part = "coverage" /\ AskCoverage /\ UNCHANGED <<vars, connectionVars, part>>

\* The fairness of Archive's Spec, in its own behaviours.
StoreFairness ==
    /\ WF_storeVars(ArchivePart(ArchiveJob)) /\ WF_storeVars(ArchivePart(Retention))
    /\ WF_storeVars(ArchivePart(ResetGoesOn))

StoreSpec == StoreInit /\ [][StoreNext]_storeVars /\ StoreFairness

\* ConnectionsAreSound, of the states that have connections: what the store shows of a connection does not depend on
\* how its records came to it (upsert_flows, refresh_rollups, delete_connections_before, _live_rows).
ConnectionsStaySound == part = "connections" => ConnectionsAreSound
=============================================================================
