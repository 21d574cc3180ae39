----------------------------- MODULE FleetWrites -----------------------------
(***************************************************************************)
(* Progressing workloads to a stronger enforcement mode                    *)
(* (services/fleet_write.py, domain/fleet.py): a person confirms what a    *)
(* preview showed, the batch reads each host on the PCE right before it    *)
(* writes it, writes one field once and keeps a record of every host.      *)
(* Around it: another person doing the same, a change in the PCE's own     *)
(* console, the inventory read, a switch of the PCE and a stop of the      *)
(* process.  Modes are 0..3 for idle, visibility_only, selective, full.    *)
(***************************************************************************)
EXTENDS Naturals, Sequences, FiniteSets

CONSTANTS NumHosts,      \* workloads of the first PCE, in the order a batch takes them
          People,        \* who may confirm at the same time
          Asks(_),       \* the target mode each of them asks for
          MaxConfirms,   \* bound: confirmations in all
          MaxConsole,    \* bound: changes made in the PCE's console and inventory reads
          MaxWriteFaults \* bound: lost answers, refusals and stops

ASSUME FleetAssumption == /\ "nobody" \notin People /\ \A p \in People : Asks(p) \in 1..3
                          /\ {NumHosts, MaxConfirms, MaxConsole, MaxWriteFaults} \subseteq Nat

VARIABLES mode,      \* the mode each host has on the PCE
          held,      \* the mode the collected inventory holds, "none" when the store was switched away
          invRead,   \* what an inventory read has fetched and not yet stored
          ident,     \* which PCE is configured (url, org and store generation move together here)
          batch,     \* each person's confirmation under way
          lockedBy,  \* who is inside _PROGRESSION
          fleetLog,  \* rows of fleet_actions
          confirms, consoles, writeFaults,
          moved      \* what the tool's own writes did: each change, with what the preview had shown,
                     \* whether the console changed the host since the read and whether the PCE was switched

fleetVars == <<mode, held, invRead, ident, batch, lockedBy, fleetLog, confirms, consoles,
               writeFaults, moved>>

FModes == 0..3
FHosts == 1..NumHosts
Unseen == 9
\* A confirmation: its number stands for _Batch.id, which every row of it carries.
Confirmation(at, no, toMode, shown) ==
    [at |-> at, no |-> no, target |-> toMode, shown |-> shown, todo |-> {}, fit |-> {}, host |-> 0, live |-> 0, stale |-> FALSE]
NoBatch == Confirmation("none", 0, 0, <<>>)

\* VALID_PROGRESSIONS and refusal(): only forward, from a mode that is named.
Refusal(current, toMode) ==
    IF current = toMode THEN "same_mode"
    ELSE IF current \in FModes /\ current < toMode THEN "ok" ELSE "not_forward"

FleetInit ==
    /\ mode \in [FHosts -> {0}] /\ held = mode /\ invRead = <<>> /\ ident = 1
    /\ batch = [p \in People |-> NoBatch] /\ lockedBy = "nobody" /\ fleetLog = {}
    /\ confirms = 0 /\ consoles = 0 /\ writeFaults = 0
    /\ moved = {}

\* preview(): the page shows the inventory's mode of each host that can move, and the person
\* confirms exactly these (EnforcementHost.from_mode).  It is answered before the lock is asked for.
Confirm(p, hosts) ==
    LET toMode == Asks(p) IN
    /\ batch[p].at = "none" /\ confirms < MaxConfirms
    /\ ident = 1 /\ hosts # {} /\ \A h \in hosts : Refusal(held[h], toMode) = "ok"
    /\ confirms' = confirms + 1
    /\ batch' = [batch EXCEPT ![p] = Confirmation("waits", confirms + 1, toMode, [h \in hosts |-> held[h]])]
    /\ UNCHANGED <<mode, held, invRead, ident, lockedBy, fleetLog, consoles, writeFaults, moved>>

\* _targets() again under the lock, then mode_changed for a host whose inventory moved on.
Fits(p, h) == Refusal(held[h], batch[p].target) = "ok" /\ held[h] = batch[p].shown[h]

\* Mutation of LockFree: batches do not wait for one another.
LockFreeAlways == TRUE
\* One row of fleet_actions: which batch, who, which host, to which mode (0 for the reporting rate), what came of it.
RowOf(no, p, h, toMode, result) == [no |-> no, who |-> p, host |-> h, target |-> toMode, result |-> result]
Row(p, h, result) == RowOf(batch[p].no, p, h, batch[p].target, result)

\* apply(): the lock, then the PCE's identity and the targets.  A store switched away meanwhile
\* refuses (require_same_pce); a missing write key records every host as refused.
LockFree == lockedBy = "nobody"
BeginBatch(p) ==
    /\ batch[p].at = "waits" /\ LockFree
    /\ \/ /\ ident = 1
          /\ lockedBy' = p
          /\ batch' = [batch EXCEPT ![p] = [@ EXCEPT !.at = "host", !.todo = DOMAIN batch[p].shown,
                                                     !.fit = {h \in DOMAIN batch[p].shown : Fits(p, h)}]]
          /\ UNCHANGED <<fleetLog, writeFaults>>
       \/ /\ ident # 1 /\ batch' = [batch EXCEPT ![p] = NoBatch]
          /\ UNCHANGED <<lockedBy, fleetLog, writeFaults>>
       \/ /\ ident = 1 /\ writeFaults < MaxWriteFaults /\ writeFaults' = writeFaults + 1
          /\ fleetLog' = fleetLog \cup {Row(p, h, "refused") : h \in {g \in DOMAIN batch[p].shown : Fits(p, g)}}
          /\ batch' = [batch EXCEPT ![p] = NoBatch] /\ UNCHANGED lockedBy
    /\ UNCHANGED <<mode, held, invRead, ident, confirms, consoles, moved>>

Log(p, h, result) == fleetLog \cup {Row(p, h, result)}
After(b, h) ==
    [at |-> "host", no |-> b.no, target |-> b.target, shown |-> b.shown, todo |-> b.todo \ {h}, fit |-> b.fit,
     host |-> 0, live |-> 0, stale |-> FALSE]
Next1(p, h) == [batch EXCEPT ![p] = After(@, h)]

\* The batch takes its hosts one by one.
Turn(p, h) == h \in batch[p].todo /\ \A g \in batch[p].todo : h <= g

\* Mutation of SamePce: the batch does not look which PCE is configured.
SamePceTrusted == TRUE
\* _ident() against the identity the batch started with.
SamePce == ident = 1

\* A host that is not read: the PCE was switched, or the targets said no.
PassOver(p, h) ==
    /\ batch[p].at = "host" /\ Turn(p, h)
    /\ \/ ~SamePce /\ fleetLog' = Log(p, h, "failed")
       \/ SamePce /\ h \notin batch[p].fit /\ fleetLog' = Log(p, h, "skipped")
    /\ batch' = Next1(p, h)
    /\ UNCHANGED <<mode, held, invRead, ident, lockedBy, confirms, consoles, writeFaults, moved>>

\* GET of the workload, as it is now; an answer that never comes is a failed row.
ReadHost(p, h) ==
    /\ batch[p].at = "host" /\ Turn(p, h) /\ SamePce /\ h \in batch[p].fit
    /\ \/ /\ batch' = [batch EXCEPT ![p] = [@ EXCEPT !.at = "read", !.host = h, !.live = mode[h]]]
          /\ UNCHANGED <<fleetLog, writeFaults>>
       \/ /\ writeFaults < MaxWriteFaults /\ writeFaults' = writeFaults + 1
          /\ batch' = Next1(p, h) /\ fleetLog' = Log(p, h, "failed")
    /\ UNCHANGED <<mode, held, invRead, ident, lockedBy, confirms, consoles, moved>>

\* Mutation of Agrees: the mode just read is not compared with the one shown.
AgreesSamePce(p) == SamePce
\* The checks on what was read (the last case: the workload is no longer managed), and the intent on record before the write.
Agrees(p) == SamePce /\ batch[p].live = batch[p].shown[batch[p].host]
\* Mutation of Intent: the row is added after the write.
IntentLater(p) == fleetLog
\* _apply: the row goes in before the write.
Intent(p) == Log(p, batch[p].host, "pending")
CheckHost(p) ==
    /\ batch[p].at = "read"
    /\ LET h == batch[p].host IN
       \/ /\ Agrees(p)
          /\ batch' = [batch EXCEPT ![p].at = "put"] /\ fleetLog' = Intent(p)
          /\ UNCHANGED writeFaults
       \/ /\ ~Agrees(p) /\ UNCHANGED writeFaults
          /\ batch' = Next1(p, h) /\ fleetLog' = Log(p, h, IF ~SamePce THEN "failed" ELSE "skipped")
       \/ /\ Agrees(p) /\ writeFaults < MaxWriteFaults /\ writeFaults' = writeFaults + 1
          /\ batch' = Next1(p, h) /\ fleetLog' = Log(p, h, "skipped")
    /\ UNCHANGED <<mode, held, invRead, ident, lockedBy, confirms, consoles, moved>>

\* actions.finish on the pending row of this host.
Finish(p, result) ==
    (fleetLog \ {Row(p, batch[p].host, "pending")}) \cup {Row(p, batch[p].host, result)}

Written(p) == /\ mode' = [mode EXCEPT ![batch[p].host] = batch[p].target]
              /\ moved' = moved \cup {[from |-> mode[batch[p].host], to |-> batch[p].target, no |-> batch[p].no,
                                       shown |-> batch[p].shown[batch[p].host], who |-> p, host |-> batch[p].host,
                                       unseen |-> batch[p].stale, late |-> ident # 1]}

\* The PUT, sent once: taken and answered, refused, taken with the answer lost, or never taken.
\* When it is answered 200/204 the inventory row follows unless the store was switched.
PutMode(p) ==
    /\ batch[p].at = "put"
    /\ batch' = Next1(p, batch[p].host)
    /\ \/ /\ Written(p) /\ fleetLog' = Finish(p, "ok")
          /\ held' = IF ident = 1 THEN [held EXCEPT ![batch[p].host] = batch[p].target] ELSE held
          /\ UNCHANGED writeFaults
       \/ /\ writeFaults < MaxWriteFaults /\ writeFaults' = writeFaults + 1 /\ UNCHANGED held
          /\ \/ fleetLog' = Finish(p, "failed") /\ UNCHANGED <<mode, moved>>
             \/ fleetLog' = Finish(p, "unknown") /\ (Written(p) \/ UNCHANGED <<mode, moved>>)
    /\ UNCHANGED <<invRead, ident, lockedBy, confirms, consoles>>

\* Mutation of EndBatch: the lock is not given back.
EndBatchKeepsLock(p) ==
    /\ batch[p].at = "host" /\ batch[p].todo = {}
    /\ batch' = [batch EXCEPT ![p] = NoBatch]
    /\ UNCHANGED <<mode, held, invRead, ident, lockedBy, fleetLog, confirms, consoles, writeFaults, moved>>
\* The last host is done and the lock is released.
EndBatch(p) ==
    /\ batch[p].at = "host" /\ batch[p].todo = {}
    /\ batch' = [batch EXCEPT ![p] = NoBatch] /\ lockedBy' = "nobody"
    /\ UNCHANGED <<mode, held, invRead, ident, fleetLog, confirms, consoles, writeFaults, moved>>

\* increase_rate(): pending rows for the hosts in the inventory, then one POST for all of them on
\* the PCE configured at the start; neither the lock nor the identity is asked again.
AskRate(p, hosts) ==
    /\ batch[p].at = "none" /\ confirms < MaxConfirms /\ confirms' = confirms + 1
    /\ ident = 1 /\ hosts # {}
    /\ batch' = [batch EXCEPT ![p] = Confirmation("rate", confirms + 1, 0, [h \in hosts |-> held[h]])]
    /\ fleetLog' = fleetLog \cup {RowOf(confirms + 1, p, h, 0, "pending") : h \in hosts}
    /\ UNCHANGED <<mode, held, invRead, ident, lockedBy, consoles, writeFaults, moved>>
PostRate(p) ==
    /\ batch[p].at = "rate" /\ batch' = [batch EXCEPT ![p] = NoBatch]
    /\ \E result \in {"ok", "failed", "unknown"} :
         /\ result = "ok" \/ writeFaults < MaxWriteFaults
         /\ writeFaults' = IF result = "ok" THEN writeFaults ELSE writeFaults + 1
         /\ fleetLog' = (fleetLog \ {Row(p, h, "pending") : h \in FHosts})
                          \cup {Row(p, h, result) : h \in DOMAIN batch[p].shown}
    /\ UNCHANGED <<mode, held, invRead, ident, lockedBy, confirms, consoles, moved>>

\* Someone changes a host in the PCE's console, in any direction.
ConsoleMoves(h, to) ==
    /\ consoles < MaxConsole /\ to # mode[h] /\ ident = 1 /\ consoles' = consoles + 1
    /\ mode' = [mode EXCEPT ![h] = to]
    /\ batch' = [p \in People |-> IF batch[p].at \in {"read", "put"} /\ batch[p].host = h
                                  THEN [batch[p] EXCEPT !.stale = TRUE] ELSE batch[p]]
    /\ UNCHANGED <<held, invRead, ident, lockedBy, fleetLog, confirms, writeFaults, moved>>

\* The inventory collector: fetched in one step, stored in another, dropped by a switch.
InventoryReads ==
    /\ ident = 1 /\ invRead = <<>> /\ consoles < MaxConsole /\ consoles' = consoles + 1 /\ invRead' = <<mode>>
    /\ UNCHANGED <<mode, held, ident, batch, lockedBy, fleetLog, confirms, writeFaults, moved>>
InventoryStores ==
    /\ invRead # <<>> /\ invRead' = <<>>
    /\ held' = IF ident = 1 THEN invRead[1] ELSE held
    /\ UNCHANGED <<mode, ident, batch, lockedBy, fleetLog, confirms, consoles, writeFaults, moved>>

\* The PCE page binds the store to another PCE: its inventory starts empty.
FleetSwitch ==
    /\ ident = 1 /\ writeFaults < MaxWriteFaults /\ writeFaults' = writeFaults + 1
    /\ ident' = 2 /\ held' = [h \in FHosts |-> Unseen]
    /\ UNCHANGED <<mode, invRead, batch, lockedBy, fleetLog, confirms, consoles, moved>>

\* The process stops: batches and the lock are in memory, rows and the PCE are not.
FleetStop ==
    /\ \E p \in People : batch[p].at # "none"
    /\ writeFaults < MaxWriteFaults /\ writeFaults' = writeFaults + 1
    /\ \/ UNCHANGED <<mode, moved>>
       \/ \E p \in People : batch[p].at = "put" /\ Written(p)
    /\ batch' = [p \in People |-> NoBatch] /\ lockedBy' = "nobody" /\ invRead' = <<>>
    /\ UNCHANGED <<held, ident, fleetLog, confirms, consoles>>

FleetWorks(p) == PostRate(p) \/ BeginBatch(p) \/ CheckHost(p) \/ PutMode(p) \/ EndBatch(p)
                 \/ \E h \in FHosts : PassOver(p, h) \/ ReadHost(p, h)
FleetNext ==
    \/ \E p \in People : FleetWorks(p) \/ \E hs \in SUBSET FHosts : Confirm(p, hs) \/ AskRate(p, hs)
    \/ \E h \in FHosts, to \in FModes : ConsoleMoves(h, to)
    \/ InventoryReads \/ InventoryStores \/ FleetSwitch \/ FleetStop
FleetSpec == FleetInit /\ [][FleetNext]_fleetVars /\ \A p \in People : WF_fleetVars(FleetWorks(p))
-----------------------------------------------------------------------------
FleetTypeOK ==
    /\ mode \in [FHosts -> FModes] /\ held \in [FHosts -> FModes \cup {Unseen}] /\ ident \in 1..2
    /\ lockedBy \in People \cup {"nobody"}
    /\ \A p \in People : batch[p].at \in {"none", "waits", "host", "read", "put", "rate"}
    /\ \A p \in People : batch[p].at \notin {"none", "waits", "rate"} => lockedBy = p
    /\ \A r \in fleetLog : r.result \in {"pending", "ok", "failed", "unknown", "skipped", "refused"}

\* Enforcement only goes forward, and only from the mode the preview showed: a write that found
\* another mode did so because the console changed the host after the read right before it.
OnlyForwardAsShown ==
    \A w \in moved : w.unseen \/ (w.from < w.to /\ w.from = w.shown)

\* Every host the tool changed has a row saying so, or saying that it is not known, also when the
\* process stopped or the answer was lost ("the intent first": fleet_write.py:348).
EveryMoveOnRecord ==
    \A w \in moved : \E r \in fleetLog :
        /\ r.no = w.no /\ r.who = w.who /\ r.host = w.host /\ r.target = w.to
        /\ r.result \in {"pending", "ok", "unknown"}

\* The batch is bound to the PCE it started on: once another PCE is configured only the one write
\* that had passed its second check may still go out ("nothing more is written", fleet_write.py:323).
LittleAfterSwitch == Cardinality({w \in moved : w.late}) <= 1

\* Nobody's batch is under way or waits for another's.
NobodyWaits == \A p \in People : batch[p].at = "none"
\* A confirmed batch ends and lets the next person in (there are MaxConfirms of them).
BatchEnds == <>[]NobodyWaits

\* A batch writes what was confirmed, forward, on record and to its own PCE (services/fleet_write.py).
MovesAreSound == FleetTypeOK /\ OnlyForwardAsShown /\ EveryMoveOnRecord /\ LittleAfterSwitch
=============================================================================
