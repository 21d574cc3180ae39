------------------------------- MODULE MCPages -------------------------------
(***************************************************************************)
(* Pages that meet the jobs and the PCE, and what the hourly analysis gives*)
(* them to show, checked side by side: the SIEM page against the forwarder *)
(* and a switch, questions that pull traffic, the pull itself, the hourly  *)
(* analysis, and the answers of the lateral, host and alert rule pages.  A *)
(* behaviour is one of one of them.                                        *)
(***************************************************************************)
EXTENDS SiemSwitch, Interactive, OnDemand, Exposure, HourlyAnalysis, AlertMatching, TLC

VARIABLE part

\* Destinations and PCEs of the SIEM page, and requests and PCEs of the pulls, are interchangeable.
MCSymmetry == Permutations(Dests) \cup Permutations(Pces) \cup Permutations(Clicks) \cup Permutations(PceNames)

\* SkipsOnlyWhenOvertaken says nothing more once it has happened: no successors are looked at.
MCNotOvertaken == ~overtaken

pagesVars == <<vars, interactiveVars, pullVars, exposureVars, hourlyVars, findingCase, matchCase, part>>

\* Only the part that runs begins in every way it can.
PagesInit ==
    /\ part \in {"siem", "questions", "pull", "exposure", "hourly", "findings", "rules"}
    /\ Init /\ (part = "siem" \/ (takes = {} /\ pce = CHOOSE p \in Pces : TRUE))
    /\ InteractiveInit /\ (part = "questions" \/ configured = CHOOSE p \in PceNames : TRUE)
    /\ OnDemandInit /\ (part = "pull" \/ \A s \in DOMAIN held : held[s] = 0)
    /\ ExposureInit /\ HourlyInit /\ MatchingInit

PagesNext ==
    \/ part = "siem" /\ Next /\ UNCHANGED <<interactiveVars, pullVars, exposureVars, hourlyVars, findingCase, matchCase, part>>
    \/ part = "questions" /\ InteractiveNext /\ UNCHANGED <<vars, pullVars, exposureVars, hourlyVars, findingCase, matchCase, part>>
    \/ part = "pull" /\ OnDemandNext /\ UNCHANGED <<vars, interactiveVars, exposureVars, hourlyVars, findingCase, matchCase, part>>
    \/ part = "exposure" /\ ExposureNext /\ UNCHANGED <<vars, interactiveVars, pullVars, hourlyVars, findingCase, matchCase, part>>
    \/ part = "hourly" /\ HourlyNext /\ UNCHANGED <<vars, interactiveVars, pullVars, exposureVars, findingCase, matchCase, part>>
    \/ part = "findings" /\ FindingsNext /\ UNCHANGED <<vars, interactiveVars, pullVars, exposureVars, hourlyVars, matchCase, part>>
    \/ part = "rules" /\ MatchingNext /\ UNCHANGED <<vars, interactiveVars, pullVars, exposureVars, hourlyVars, part>>

PagesSpec == PagesInit /\ [][PagesNext]_pagesVars

\* A pull accounts for its whole period, and its store and what was made of it are of the PCE it was asked of.
PullsAreSound == (part = "questions" => PulledStoresAreSound) /\ (part = "pull" => PeriodIsAccountedFor)
\* What the lateral, host and focus pages show of the estate is so, and is of the configured PCE (domain/exposure.py,
\* services/analysis/).
PagesTellTheTruth ==
    /\ part = "exposure" => ExposureIsTrue
    /\ part = "findings" => FindingsAreTrue
    /\ part = "hourly" => FocusIsSound
=============================================================================
