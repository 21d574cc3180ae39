------------------------------ MODULE MCOutgoing ------------------------------
(***************************************************************************)
(* What leaves the service, checked side by side: alert deliveries, the    *)
(* report queue and report schedules, and what people and rule schedules   *)
(* write to the PCE.  They keep their state in different tables and write  *)
(* different objects of the PCE, so a behaviour is one of one of them.     *)
(***************************************************************************)
EXTENDS AlertDispatch, ReportQueue, RuleSchedules, FleetWrites, Quarantine, RuleHitCount

VARIABLE part

OneMinute == <<1>>
FiveDays == 0 .. 4
WhoAsks(p) == IF p = "ann" THEN 3 ELSE 2
\* Handlers are alike: the first batch is ann's, the second anybody's.
AnnFirst == {<<1, "ann">>, <<2, "ann">>, <<2, "bob">>}

outgoingVars == <<dispatchVars, reportVars, scheduleVars, ruleVars, fleetVars, quarantineVars, rhcVars, part>>

OutgoingInit ==
    /\ part \in {"alerts", "reports", "schedules", "rules", "fleet", "quarantine", "hitcount"}
    /\ DispatchInit /\ ReportInit /\ ScheduleInit
    /\ RuleInit /\ FleetInit /\ QuarantineInit /\ (part = "quarantine" \/ keyed)
    /\ RhcInit /\ (part = "hitcount" \/ (template /\ fwActive.scopes))

\* A step of one part leaves the others alone.
Alerts(action) ==
    part = "alerts" /\ action /\ UNCHANGED <<reportVars, scheduleVars, ruleVars, fleetVars, quarantineVars, rhcVars, part>>
Reports(action) ==
    part = "reports" /\ action /\ UNCHANGED <<dispatchVars, scheduleVars, ruleVars, fleetVars, quarantineVars, rhcVars, part>>
Rules(action) ==
    part = "rules" /\ action /\ UNCHANGED <<dispatchVars, reportVars, scheduleVars, fleetVars, quarantineVars, rhcVars, part>>
Fleet(action) ==
    part = "fleet" /\ action /\ UNCHANGED <<dispatchVars, reportVars, scheduleVars, ruleVars, quarantineVars, rhcVars, part>>

OutgoingNext ==
    \/ part = "alerts" /\ DispatchNext /\ UNCHANGED <<reportVars, scheduleVars, ruleVars, fleetVars, quarantineVars, rhcVars, part>>
    \/ part = "reports" /\ ReportNext /\ UNCHANGED <<dispatchVars, scheduleVars, ruleVars, fleetVars, quarantineVars, rhcVars, part>>
    \/ part = "schedules" /\ ScheduleNext /\ UNCHANGED <<dispatchVars, reportVars, ruleVars, fleetVars, quarantineVars, rhcVars, part>>
    \/ part = "rules" /\ RuleNext /\ UNCHANGED <<dispatchVars, reportVars, scheduleVars, fleetVars, quarantineVars, rhcVars, part>>
    \/ part = "fleet" /\ FleetNext /\ UNCHANGED <<dispatchVars, reportVars, scheduleVars, ruleVars, quarantineVars, rhcVars, part>>
    \/ part = "quarantine" /\ QuarantineNext
       /\ UNCHANGED <<dispatchVars, reportVars, scheduleVars, ruleVars, fleetVars, rhcVars, part>>
    \/ part = "hitcount" /\ RhcNext
       /\ UNCHANGED <<dispatchVars, reportVars, scheduleVars, ruleVars, fleetVars, quarantineVars, part>>

\* The fairness of DispatchSpec, ReportSpec, RuleSpec and FleetSpec, each in its own behaviours.
OutgoingFairness ==
    /\ WF_outgoingVars(Alerts(DispatchRuns)) /\ WF_outgoingVars(Alerts(DispatchTick))
    /\ WF_outgoingVars(Reports(ReportJob))
    /\ WF_outgoingVars(Rules(CheckBegin("tick"))) /\ WF_outgoingVars(Rules(Page))
    /\ \A c \in Checkers : WF_outgoingVars(Rules(Check(c)))
    /\ \A p \in People : WF_outgoingVars(Fleet(FleetWorks(p)))

OutgoingSpec == OutgoingInit /\ [][OutgoingNext]_outgoingVars /\ OutgoingFairness

\* Reports are whole and made once a run time (services/reports/).
ReportsKeepTheirPromise == (part = "reports" => ReportsAreSound) /\ (part = "schedules" => SchedulesAreKept)

\* What people confirmed is what is written to the PCE (services/fleet_write.py, services/quarantine.py,
\* services/rhc.py).
WritesAreAsConfirmed ==
    /\ part = "fleet" => MovesAreSound
    /\ part = "quarantine" => QuarantineIsSound
    /\ part = "hitcount" => EnablingIsSound

\* Everything that was begun comes to its end: a delivery is settled, a queued report made or failed, a rule follows
\* its plan, and a batch of writes lets the next one in.
WorkComesToItsEnd == <>[](AllSettled /\ NoReportWaits /\ RuleIsAsPlanned /\ NobodyWaits)
=============================================================================
