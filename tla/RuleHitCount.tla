---------------------------- MODULE RuleHitCount ----------------------------
(***************************************************************************)
(* Turning on Rule Hit Count (services/rhc.py, enable_rhc): whichever half *)
(* is off is written, first the PCE's report template, then the VENs'      *)
(* scopes in the draft firewall_settings, and firewall_settings is         *)
(* provisioned.  Around it: another person doing the same, edits and       *)
(* provisioning in the PCE's own console, refused and lost answers, and a  *)
(* change of the configured PCE.                                           *)
(***************************************************************************)
EXTENDS Naturals, FiniteSets

CONSTANTS Enablers,      \* who may confirm at the same time
          MaxEnables,    \* bound: confirmations in all
          MaxFwEdits,    \* bound: console steps
          MaxRhcFaults   \* bound: requests that are refused or whose answer is lost

ASSUME RhcAssumption == {MaxEnables, MaxFwEdits, MaxRhcFaults} \subseteq Nat /\ "nobody" \notin Enablers

VARIABLES template,   \* the report template is enabled on the PCE
          fwActive,   \* its provisioned firewall_settings: our scopes, and everything else in it
          fwDraft,    \* the draft of it
          samePce,    \* the settings are still those the enabling began with (_cache_key)
          enabling,   \* each person's enable_rhc
          enableLock, \* who is inside _ENABLE_LOCK
          enables, fwEdits, rhcFaults,
          rhcEnds     \* how each run ended, with what it wrote and what had changed under it

rhcVars == <<template, fwActive, fwDraft, samePce, enabling, enableLock, enables, fwEdits, rhcFaults, rhcEnds>>

\* A run of enable_rhc: `edited` notes console steps since the draft was last compared, `console` any since it began,
\* `leftBefore` whether an earlier run had left its own draft unprovisioned.
NotEnabling == [at |-> "none", tpl |-> FALSE, ven |-> FALSE, other |-> 0, edited |-> FALSE, console |-> FALSE,
                leftBefore |-> FALSE, shipped |-> "nothing", done |-> {}, wrote |-> {}, late |-> 0]
At(run, stage) == [run EXCEPT !.at = stage]
Contents == 0 .. MaxFwEdits

\* What the PCE holds before: the halves on or off, and perhaps an edit of the draft nobody provisioned.
RhcInit ==
    /\ template \in BOOLEAN
    /\ fwActive \in [scopes : BOOLEAN, content : {0}]
    /\ fwDraft = fwActive
    /\ samePce = TRUE /\ enabling = [p \in Enablers |-> NotEnabling] /\ enableLock = "nobody"
    /\ enables = 0 /\ fwEdits = 0 /\ rhcFaults = 0 /\ rhcEnds = {}

\* The person confirmed; without a write key nothing is asked.
LeftBehind == fwDraft.scopes # fwActive.scopes
BeginEnable(p) ==
    /\ enabling[p].at = "none" /\ enables < MaxEnables /\ enables' = enables + 1 /\ samePce
    /\ enabling' = [enabling EXCEPT ![p] = At(NotEnabling, "waits")]
    /\ UNCHANGED <<template, fwActive, fwDraft, samePce, enableLock, fwEdits, rhcFaults, rhcEnds>>

\* Mutation of EnableFree: runs do not wait for one another.
EnableFreeAlways == TRUE
\* with _ENABLE_LOCK.
EnableFree == enableLock = "nobody"
EnterEnable(p) ==
    /\ enabling[p].at = "waits" /\ EnableFree /\ enableLock' = p
    /\ enabling' = [enabling EXCEPT ![p] = At([NotEnabling EXCEPT !.leftBefore = LeftBehind], "template")]
    /\ UNCHANGED <<template, fwActive, fwDraft, samePce, enables, fwEdits, rhcFaults, rhcEnds>>

\* The run is over; the lock is given back.
EndsAs(p, run, result) ==
    /\ rhcEnds' = rhcEnds \cup {[result |-> result, done |-> run.done, wrote |-> run.wrote, late |-> run.late,
                                 leftBefore |-> run.leftBefore, console |-> run.console, shipped |-> run.shipped,
                                 on |-> template' /\ fwActive'.scopes]}
    /\ enabling' = [enabling EXCEPT ![p] = NotEnabling] /\ enableLock' = "nobody"
Goes(p, run) == enabling' = [enabling EXCEPT ![p] = run] /\ UNCHANGED <<enableLock, rhcEnds>>
RhcTrouble == rhcFaults < MaxRhcFaults /\ rhcFaults' = rhcFaults + 1

\* A request that reads and is refused, fails or answers with something that is not JSON ends the run.
ReadFails(p) ==
    /\ enabling[p].at \in {"template", "active", "draft", "activeAgain", "draftAgain"} /\ RhcTrouble
    /\ UNCHANGED <<template, fwActive, fwDraft, samePce, enables, fwEdits>> /\ EndsAs(p, enabling[p], "unreachable")

\* What a run does after it read everything: the template first, then the scopes, else nothing.
WhatNext(run) == IF ~run.tpl THEN "putTemplate" ELSE IF ~run.ven THEN "putDraft" ELSE "end"

\* GET of the template, then of the active firewall_settings, then (scopes off) of the draft.
ReadTemplate(p) ==
    /\ enabling[p].at = "template" /\ Goes(p, At([enabling[p] EXCEPT !.tpl = template], "active"))
    /\ UNCHANGED <<template, fwActive, fwDraft, samePce, enables, fwEdits, rhcFaults>>
ReadActive(p) ==
    /\ enabling[p].at = "active"
    /\ LET run == [enabling[p] EXCEPT !.ven = fwActive.scopes] IN
       Goes(p, At(run, IF run.ven THEN "switched" ELSE "draft"))
    /\ UNCHANGED <<template, fwActive, fwDraft, samePce, enables, fwEdits, rhcFaults>>

\* draft_body["update_type"]: something of firewall_settings waits to be provisioned.
PendingChange == fwDraft # fwActive
ReadDraft(p) ==
    /\ enabling[p].at = "draft"
    /\ UNCHANGED <<template, fwActive, fwDraft, samePce, enables, fwEdits, rhcFaults>>
    /\ IF PendingChange THEN EndsAs(p, enabling[p], "pending_firewall")
       ELSE Goes(p, At(enabling[p], "switched"))

\* Mutation of StillSame: the configured PCE is not looked at again.
StillSameTrusted == TRUE
\* switched(), asked before each write.
StillSame == samePce
CheckSwitched(p) ==
    /\ enabling[p].at \in {"switched", "switchedAgain"}
    /\ LET run == enabling[p]
           next == IF run.at = "switchedAgain" THEN "provision" ELSE WhatNext(run) IN
       \/ next = "end" /\ UNCHANGED <<template, fwActive>> /\ EndsAs(p, run, "ok")
       \/ next # "end" /\ ~StillSame /\ UNCHANGED <<template, fwActive>> /\ EndsAs(p, run, "pce_changed")
       \/ next # "end" /\ StillSame /\ UNCHANGED <<template, fwActive>> /\ Goes(p, At(run, next))
    /\ UNCHANGED <<fwDraft, samePce, enables, fwEdits, rhcFaults>>

\* A write the PCE took: the run goes on when it was answered, and ends without naming the step when it was not.
Wrote(run, step) ==
    LET writes == [run EXCEPT !.wrote = @ \cup {step}] IN [writes EXCEPT !.late = IF samePce THEN @ ELSE @ + 1]
Did(run, step) == [run EXCEPT !.done = @ \cup {step}]
Took(p, run, step, next) ==
    \/ Goes(p, At(Did(Wrote(run, step), step), next)) /\ UNCHANGED rhcFaults
    \/ RhcTrouble /\ EndsAs(p, Wrote(run, step), "unreachable")
\* A write the PCE refused or never saw.
Refuses(p) == RhcTrouble /\ UNCHANGED <<template, fwActive, fwDraft>> /\ EndsAs(p, enabling[p], "step_failed")

PutTemplate(p) ==
    /\ enabling[p].at = "putTemplate"
    /\ \/ /\ template' = TRUE /\ UNCHANGED <<fwActive, fwDraft>>
          /\ Took(p, [enabling[p] EXCEPT !.tpl = TRUE], "template", "switched")
       \/ Refuses(p)
    /\ UNCHANGED <<samePce, enables, fwEdits>>
PutDraft(p) ==
    /\ enabling[p].at = "putDraft"
    /\ \/ /\ fwDraft' = [fwDraft EXCEPT !.scopes = TRUE] /\ UNCHANGED <<template, fwActive>>
          /\ Took(p, enabling[p], "draft", "activeAgain")
       \/ Refuses(p)
    /\ UNCHANGED <<samePce, enables, fwEdits>>

\* The two versions are read again and compared but for who changed them and our scopes (_fw_content).
ReadActiveAgain(p) ==
    /\ enabling[p].at = "activeAgain"
    /\ LET compared == [enabling[p] EXCEPT !.other = fwActive.content] IN
       Goes(p, At([compared EXCEPT !.edited = FALSE], "draftAgain"))
    /\ UNCHANGED <<template, fwActive, fwDraft, samePce, enables, fwEdits, rhcFaults>>
\* Mutation of OnlyOurs: the draft is provisioned as it is.
OnlyOursTrusted(p) == TRUE
\* active_now = draft_now.
OnlyOurs(p) == enabling[p].other = fwDraft.content
ReadDraftAgain(p) ==
    /\ enabling[p].at = "draftAgain"
    /\ UNCHANGED <<template, fwActive, fwDraft, samePce, enables, fwEdits, rhcFaults>>
    /\ IF OnlyOurs(p) THEN Goes(p, At(enabling[p], "switchedAgain"))
       ELSE EndsAs(p, enabling[p], "firewall_changed")

\* POST /sec_policy: the whole draft object becomes active, whatever is in it by then.
Shipped(run) ==
    IF fwDraft.content = fwActive.content THEN "ours" ELSE IF run.edited THEN "edited since" ELSE "known"
ProvisionFirewall(p) ==
    /\ enabling[p].at = "provision"
    /\ LET run == Wrote([enabling[p] EXCEPT !.shipped = Shipped(enabling[p])], "provisioned") IN
       \/ /\ fwActive' = fwDraft /\ UNCHANGED <<template, fwDraft>>
          /\ \/ EndsAs(p, Did(run, "provisioned"), "ok") /\ UNCHANGED rhcFaults
             \/ RhcTrouble /\ EndsAs(p, run, "unreachable")
       \/ Refuses(p)
    /\ UNCHANGED <<samePce, enables, fwEdits>>

-----------------------------------------------------------------------------
\* A step in the PCE's console: the draft is edited, provisioned or reverted, the scopes or the template changed.
Noticed(run) == LET edits == [run EXCEPT !.edited = TRUE] IN [edits EXCEPT !.console = TRUE]
ConsoleStep(tpl, activeNow, draftNow) ==
    /\ fwEdits < MaxFwEdits /\ fwEdits' = fwEdits + 1
    /\ <<tpl, activeNow, draftNow>> # <<template, fwActive, fwDraft>>
    /\ template' = tpl /\ fwActive' = activeNow /\ fwDraft' = draftNow
    /\ enabling' = [p \in Enablers |-> IF enabling[p].at \in {"none", "waits"} THEN enabling[p]
                                        ELSE Noticed(enabling[p])]
    /\ UNCHANGED <<samePce, enableLock, enables, rhcFaults, rhcEnds>>
RhcConsole ==
    \/ \E c \in Contents : ConsoleStep(template, fwActive, [fwDraft EXCEPT !.content = c])
    \/ ConsoleStep(template, fwDraft, fwDraft)
    \/ ConsoleStep(template, fwActive, fwActive)
    \/ ConsoleStep(template, [fwActive EXCEPT !.scopes = FALSE], [fwDraft EXCEPT !.scopes = FALSE])
    \/ ConsoleStep(~template, fwActive, fwDraft)
\* The PCE page saves another PCE, key or TLS check; the run's client keeps the old one.
RhcSwitch ==
    /\ samePce /\ samePce' = FALSE
    /\ UNCHANGED <<template, fwActive, fwDraft, enabling, enableLock, enables, fwEdits, rhcFaults, rhcEnds>>

Enable(p) ==
    \/ EnterEnable(p) \/ ReadTemplate(p) \/ ReadActive(p) \/ ReadDraft(p) \/ CheckSwitched(p) \/ PutTemplate(p)
    \/ PutDraft(p) \/ ReadActiveAgain(p) \/ ReadDraftAgain(p) \/ ProvisionFirewall(p) \/ ReadFails(p)
RhcNext == (\E p \in Enablers : BeginEnable(p) \/ Enable(p)) \/ RhcConsole \/ RhcSwitch

-----------------------------------------------------------------------------
\* Provisioning ships the whole draft object: what goes out beside our scopes was put there after the two
\* versions were compared, never before ("someone's unreviewed edits would reach every VEN", rhc.py:229).
OthersEditsStay == \A e \in rhcEnds : e.shipped # "known"

\* A refusal because firewall_settings has pending edits wrote nothing ("Everything is read first, so a refusal
\* writes nothing", rhc.py:192), and names a real edit: the console's, or the draft an earlier run left.
RefusalWritesNothing ==
    \A e \in rhcEnds : e.result = "pending_firewall" => e.wrote = {} /\ (e.console \/ e.leftBefore \/ fwEdits > 0)

\* The steps a run says it did are the ones it did, but for the one whose answer was lost; it ends well only with both
\* halves on, or with one the console turned off meanwhile; and after a switch it writes at most once more.
StepsAreTrue ==
    \A e \in rhcEnds :
       /\ e.done \subseteq e.wrote /\ Cardinality(e.wrote \ e.done) <= (IF e.result = "unreachable" THEN 1 ELSE 0)
       /\ e.result = "ok" => e.on \/ e.console
       /\ e.late <= 1

\* Enabling Rule Hit Count writes what was confirmed and nothing else (services/rhc.py).
EnablingIsSound == OthersEditsStay /\ RefusalWritesNothing /\ StepsAreTrue
=============================================================================
