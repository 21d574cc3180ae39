---------------------------- MODULE SettingsFile ----------------------------
(***************************************************************************)
(* config/settings.json and its one reader and writer, SettingsStore: the  *)
(* pages of the running service save sections of it, the rescue commands   *)
(* do while the service is stopped, and people edit, restore or remove the *)
(* file by hand at any time.  The service and the rescue commands exclude  *)
(* each other by the service lock, so one store is alive at a time.        *)
(***************************************************************************)
EXTENDS Integers, FiniteSets, SequencesExt

CONSTANTS
    Editors,      \* pages of the web UI that may be open at once
    Sections,     \* parts of the settings a page saves
    MaxFileSaves, \* bound: saves and rescue updates
    MaxEdits,     \* bound: changes of the file by hand
    MaxStops      \* bound: stops of the service and failed writes

ASSUME SettingsAssumption == Editors # {} /\ Sections # {} /\ "rescue" \notin Editors

VARIABLES
    settings,     \* the file: [rev, sec, kind]; kind: current or older schema, newer schema, not valid, or no file
    memory,       \* SettingsStore._current of the process that is alive
    digest,       \* _disk_digest: the file as the store last read or wrote it
    service,      \* the service process: down, checked (before the lock), locked, loaded, up
    lockedBy,     \* the service lock
    appDb,        \* data/app.sqlite exists
    form,         \* per page and for the rescue command: [step, section, rev, saw, cand]
    byHand,       \* history: the file was changed by hand since a store read or wrote it
    rewound,      \* history: a change by hand did not raise the revision above all before
    customised,   \* history: settings were saved from a page
    count         \* [saves, edits, stops, top]: top: the highest revision so far

settingsVars == <<settings, memory, digest, service, lockedBy, appDb, form, byHand, rewound, customised, count>>

NoFile == [rev |-> 0, sec |-> [s \in Sections |-> 0], kind |-> "none"]
\* default_settings
Default == [NoFile EXCEPT !.rev = 1, !.kind = "ok"]
NoForm == [step |-> "closed", section |-> CHOOSE s \in Sections : TRUE, rev |-> 0, saw |-> 0, cand |-> NoFile]

\* validate_settings: an older schema is upgraded in memory, a newer one or anything else refused.
Valid(f) == f.kind \in {"ok", "old"}
Validated(f) == [f EXCEPT !.kind = "ok"]

Savers == Editors \cup {"rescue"}
StoreIsFree == \A p \in Savers : form[p].step \notin {"writing", "written"}
Alive(p) == IF p = "rescue" THEN lockedBy = "rescue" ELSE service = "up"
Larger(a, b) == IF a > b THEN a ELSE b

SettingsInit ==
    /\ settings = NoFile /\ memory = NoFile /\ digest = NoFile /\ service = "down" /\ lockedBy = "nobody" /\ appDb = FALSE
    /\ form = [p \in Savers |-> NoForm] /\ byHand = FALSE /\ rewound = FALSE /\ customised = FALSE
    /\ count = [saves |-> 0, edits |-> 0, stops |-> 0, top |-> 0]

-----------------------------------------------------------------------------
(* SettingsStore.load, update, create_initial.                             *)

Load == memory' = Validated(settings) /\ digest' = settings /\ byHand' = FALSE

\* A page shows a section with the revision it goes with.
OpenForm(p, s) ==
    /\ service = "up" /\ form[p].step \in {"closed", "open"}
    /\ form' = [form EXCEPT ![p] = [NoForm EXCEPT !.step = "open", !.section = s, !.rev = memory.rev, !.saw = memory.sec[s]]]
    /\ UNCHANGED <<settings, memory, digest, service, lockedBy, appDb, byHand, rewound, customised, count>>

\* Mutation of Unchanged: the file is taken to be what the store wrote last.
UnchangedByAssumption(p) == settings.kind # "none"
Unchanged(p) == digest = settings

\* update: the store's lock is taken; a file changed by hand is adopted and reported instead of overwritten.
Adopts(p) ==
    /\ form[p].step = "open" /\ Alive(p) /\ StoreIsFree /\ ~Unchanged(p)
    /\ IF Valid(settings) THEN Load ELSE UNCHANGED <<memory, digest, byHand>>
    /\ form' = [form EXCEPT ![p] = IF p = "rescue" THEN NoForm ELSE @]
    /\ lockedBy' = IF p = "rescue" THEN "nobody" ELSE lockedBy
    /\ UNCHANGED <<settings, service, appDb, rewound, customised, count>>

\* Mutation of Conflict: the revision of the form is not looked at.
ConflictNever(p) == FALSE
Conflict(p) == form[p].rev # memory.rev

SaveBegins(p) ==
    /\ form[p].step = "open" /\ Alive(p) /\ StoreIsFree /\ Unchanged(p) /\ ~Conflict(p) /\ count.saves < MaxFileSaves
    /\ LET cand == [memory EXCEPT !.sec[form[p].section] = count.saves + 1, !.rev = @ + 1]
       IN form' = [form EXCEPT ![p].step = "writing", ![p].cand = cand]
    /\ count' = [count EXCEPT !.saves = @ + 1]
    /\ UNCHANGED <<settings, memory, digest, service, lockedBy, appDb, byHand, rewound, customised>>

\* _write: a whole new file takes the place of the old one; what the file is expected to hold is noted first.
WriteFile(p) ==
    /\ form[p].step = "writing"
    /\ settings' = form[p].cand /\ digest' = form[p].cand /\ byHand' = FALSE /\ customised' = (customised \/ p \in Editors)
    /\ form' = [form EXCEPT ![p].step = "written"] /\ count' = [count EXCEPT !.top = Larger(@, form[p].cand.rev)]
    /\ UNCHANGED <<memory, service, lockedBy, appDb, rewound>>
\* Mutation of WriteFails: memory is ahead of the file.
WriteFailsAhead(p) ==
    /\ form[p].step = "writing" /\ count.stops < MaxStops /\ count' = [count EXCEPT !.stops = @ + 1]
    /\ digest' = form[p].cand /\ memory' = form[p].cand /\ form' = [form EXCEPT ![p] = [@ EXCEPT !.step = "open", !.cand = NoFile]]
    /\ UNCHANGED <<settings, service, lockedBy, appDb, byHand, rewound, customised>>
WriteFails(p) ==
    /\ form[p].step = "writing" /\ count.stops < MaxStops /\ count' = [count EXCEPT !.stops = @ + 1]
    /\ digest' = form[p].cand /\ form' = [form EXCEPT ![p] = [@ EXCEPT !.step = "open", !.cand = NoFile]]
    /\ UNCHANGED <<settings, memory, service, lockedBy, appDb, byHand, rewound, customised>>
SaveEnds(p) ==
    /\ form[p].step = "written" /\ memory' = form[p].cand
    /\ form' = [form EXCEPT ![p] = NoForm] /\ lockedBy' = IF p = "rescue" THEN "nobody" ELSE lockedBy
    /\ UNCHANGED <<settings, digest, service, appDb, byHand, rewound, customised, count>>

\* create_initial: the first file, never in the place of another.
CreateInitial == settings' = Default /\ memory' = Default /\ digest' = Default /\ count' = [count EXCEPT !.top = Larger(@, 1)]

-----------------------------------------------------------------------------
(* runtime.prepare: an invalid file stops the start before anything is     *)
(* written; a lost one is not replaced by defaults.                        *)

StartChecks ==
    /\ service = "down" /\ (settings.kind = "none" \/ Valid(settings)) /\ service' = "checked"
    /\ UNCHANGED <<settings, memory, digest, lockedBy, appDb, form, byHand, rewound, customised, count>>
StartLocks ==
    /\ service = "checked"
    /\ IF lockedBy = "nobody" THEN lockedBy' = "service" /\ service' = "locked" ELSE service' = "down" /\ UNCHANGED lockedBy
    /\ UNCHANGED <<settings, memory, digest, appDb, form, byHand, rewound, customised, count>>
\* Mutation of BrandNew: any installation without a settings file is taken for a new one.
BrandNewAlways == settings.kind = "none"
BrandNew == settings.kind = "none" /\ ~appDb
StartLoads ==
    /\ service = "locked"
    /\ \/ Valid(settings) /\ Load /\ service' = "loaded" /\ UNCHANGED <<settings, lockedBy, count>>
       \/ BrandNew /\ CreateInitial /\ byHand' = FALSE /\ service' = "loaded" /\ UNCHANGED lockedBy
       \/ /\ ~Valid(settings) /\ ~BrandNew /\ service' = "down" /\ lockedBy' = "nobody"
          /\ UNCHANGED <<settings, memory, digest, byHand, count>>
    /\ UNCHANGED <<appDb, form, rewound, customised>>
StartServes ==
    /\ service = "loaded" /\ appDb' = TRUE /\ service' = "up"
    /\ UNCHANGED <<settings, memory, digest, lockedBy, form, byHand, rewound, customised, count>>

\* The service ends, or is ended: its forms are gone with it, an update of the file is done or not done.
Stops ==
    /\ service \in {"checked", "locked", "loaded", "up"} /\ count.stops < MaxStops /\ count' = [count EXCEPT !.stops = @ + 1]
    /\ service' = "down" /\ lockedBy' = IF lockedBy = "service" THEN "nobody" ELSE lockedBy
    /\ memory' = IF lockedBy = "rescue" THEN memory ELSE NoFile
    /\ form' = [p \in Savers |-> IF p = "rescue" THEN form[p] ELSE NoForm]
    /\ UNCHANGED <<settings, digest, appDb, byHand, rewound, customised>>

-----------------------------------------------------------------------------
(* rescue.main: reset-password, clear-allowed-ips and reset-tls load and   *)
(* update; init creates the first file; check-settings only reads.         *)

RescueLoads ==
    /\ lockedBy = "nobody" /\ Valid(settings) /\ Load /\ lockedBy' = "rescue"
    /\ \E s \in Sections :
          form' = [form EXCEPT !["rescue"] = [NoForm EXCEPT !.step = "open", !.section = s, !.rev = settings.rev, !.saw = settings.sec[s]]]
    /\ UNCHANGED <<settings, service, appDb, rewound, customised, count>>
RescueGivesUp ==
    /\ form["rescue"].step = "open" /\ form' = [form EXCEPT !["rescue"] = NoForm] /\ lockedBy' = "nobody"
    /\ UNCHANGED <<settings, memory, digest, service, appDb, byHand, rewound, customised, count>>
RescueInit ==
    /\ lockedBy = "nobody" /\ settings.kind = "none" /\ CreateInitial /\ byHand' = FALSE /\ customised' = FALSE
    /\ UNCHANGED <<service, lockedBy, appDb, form, rewound>>

-----------------------------------------------------------------------------
\* Someone edits the file, restores another one, spoils it or removes it.
EditByHand ==
    /\ count.edits < MaxEdits
    /\ \/ \E s \in Sections, rev \in 1 .. count.top + 1, kind \in {"ok", "old"} :
             /\ settings' = [settings EXCEPT !.sec[s] = -1 - count.edits, !.rev = rev, !.kind = kind]
             /\ rewound' = (rewound \/ rev <= count.top) /\ count' = [count EXCEPT !.edits = @ + 1, !.top = Larger(@, rev)]
       \/ \E kind \in {"bad", "newer", "none"} :
             /\ settings' = IF kind = "none" THEN NoFile ELSE [settings EXCEPT !.sec[CHOOSE s \in Sections : TRUE] = -1 - count.edits, !.kind = kind]
             /\ settings' # settings /\ count' = [count EXCEPT !.edits = @ + 1] /\ UNCHANGED rewound
    /\ byHand' = TRUE
    /\ UNCHANGED <<memory, digest, service, lockedBy, appDb, form, customised>>

SettingsNext ==
    \/ \E p \in Editors, s \in Sections : OpenForm(p, s)
    \/ \E p \in Savers : Adopts(p) \/ SaveBegins(p) \/ WriteFile(p) \/ WriteFails(p) \/ SaveEnds(p)
    \/ StartChecks \/ StartLocks \/ StartLoads \/ StartServes \/ Stops
    \/ RescueLoads \/ RescueGivesUp \/ RescueInit \/ EditByHand

-----------------------------------------------------------------------------
\* A save begins only on settings its form showed and on a file nobody changed behind the store's back: as long as
\* changes by hand raise the revision, nothing is overwritten unseen.
OverwritesUnseen ==
    \E p \in Savers : /\ form[p].step = "open" /\ form'[p].step = "writing"
                      /\ byHand \/ (~rewound /\ form[p].saw # memory.sec[form[p].section])

\* What the pages are served is what the file holds, also after a failed write, unless it was changed by hand since.
MemoryFollowsFile == (service = "up" \/ lockedBy = "rescue") /\ StoreIsFree /\ ~byHand => memory = Validated(settings)

\* A file that is not valid is neither rewritten nor defaulted: only a save that was checked before it was spoilt
\* still takes its place.
RewritesInvalid ==
    /\ settings.kind \in {"bad", "newer"} /\ settings' # settings /\ count'.edits = count.edits
    /\ \A p \in Savers : form[p].step # "writing"

\* An installation whose settings were ever saved from a page does not come back on defaults, unless rescue init is asked for.
ReturnsToDefaults == customised /\ customised' /\ settings' = Default /\ settings # Default

\* The settings are kept: nothing is overwritten unseen, an invalid file is left alone, a lost one is not replaced by
\* defaults, and memory follows the file (SettingsStore.load, update, create_initial; runtime.prepare; rescue.main).
SettingsAreKept == [][~OverwritesUnseen /\ ~RewritesInvalid /\ ~ReturnsToDefaults /\ MemoryFollowsFile']_settingsVars
-----------------------------------------------------------------------------
(***************************************************************************)
(* settings.upgrade: a settings file of any older schema, brought to the   *)
(* present one step by step in memory.  A file is its sections, with what  *)
(* the steps look at: the collection mode, which detector settings are     *)
(* there and whose value they have, which rules of the pack, the report    *)
(* thresholds and the SIEM destinations.                                   *)
(***************************************************************************)

VARIABLE upgradeCase    \* the file asked about, its version, and what upgrade makes of it

SchemaVersion == 13
Unset == "unset"
\* Sections that are not in the file.
NoLateral == [detectors |-> <<>>, exclude_public |-> "absent"]
NoRules == {[key |-> "absent", notify |-> FALSE, exclude |-> Unset]}
NoSiem == {"absent"}

\* Groups of detector settings and of pack rules, by the version they came with.
KeysOf(v) == {"base"} \cup (IF v >= 5 THEN {"anomaly"} ELSE {}) \cup (IF v >= 13 THEN {"batch2"} ELSE {})
Anomaly == {"anomaly", "batch2"}
PackOf(v) == {"event", "fanout"} \cup (IF v >= 5 THEN {"anomaly"} ELSE {}) \cup (IF v >= 9 THEN {"siem_backlog"} ELSE {})
             \cup (IF v >= 13 THEN {"batch2"} ELSE {})
Type(key) == IF key = "event" THEN "event" ELSE IF key = "siem_backlog" THEN "system" ELSE "lateral"

\* best_practice_rules, anomaly_rules, system_rule
PackRule(key, notify) ==
    [key |-> key, notify |-> notify, exclude |-> IF Type(key) = "lateral" THEN "public" ELSE Unset]
AnomalyRules == {PackRule(key, FALSE) : key \in Anomaly}

\* default_collection, default_lateral, default_alerts, default_reports, default_siem
DefaultLateral == [detectors |-> [k \in KeysOf(SchemaVersion) |-> "fresh"], exclude_public |-> Unset]
DefaultRules == {PackRule(key, TRUE) : key \in PackOf(SchemaVersion)}

-----------------------------------------------------------------------------
PackKeys(rules) == {r.key : r \in rules}
\* rules the file does not have yet
Joining(rules, more) == rules \cup {r \in more : r.key \notin PackKeys(rules)}
WithKeys(keys) == [k \in KeysOf(SchemaVersion) \cup DOMAIN keys |-> IF k \in DOMAIN keys THEN keys[k] ELSE "fresh"]

V4(f) ==
    [f EXCEPT !.lateral = IF @ # NoLateral THEN [@ EXCEPT !.detectors = WithKeys(@)] ELSE DefaultLateral,
              !.rules = IF @ # NoRules THEN Joining(@, AnomalyRules) ELSE @]
V8(f) ==
    [f EXCEPT !.siem = {}, !.rules = IF @ # NoRules THEN Joining(@, {PackRule("siem_backlog", TRUE)}) ELSE @]
V11(f) ==
    LET public == f.lateral = NoLateral \/ f.lateral.exclude_public \in {"yes", Unset}
        Filled(r) == IF Type(r.key) = "lateral" /\ r.exclude = Unset
                     THEN [r EXCEPT !.exclude = IF public THEN "public" ELSE "none"] ELSE r
    IN [f EXCEPT !.lateral = IF @ # NoLateral THEN [@ EXCEPT !.exclude_public = Unset] ELSE @,
                 !.rules = IF @ # NoRules THEN {Filled(r) : r \in @} ELSE @]
\* Mutation of V12: everything of the pack that is missing is added.
V12WholePack(f) ==
    [f EXCEPT !.lateral = IF @ # NoLateral THEN [@ EXCEPT !.detectors = WithKeys(@)] ELSE @,
              !.rules = IF @ # NoRules THEN Joining(@, AnomalyRules) ELSE @]
V12(f) ==
    [f EXCEPT !.lateral = IF @ # NoLateral THEN [@ EXCEPT !.detectors = WithKeys(@)] ELSE @,
              !.rules = IF @ # NoRules THEN Joining(@, {PackRule("batch2", FALSE)}) ELSE @]

\* UPGRADES: version -> the file one version on
Step(v, f) ==
    CASE v = 1 -> [f EXCEPT !.mode = "lightweight"]
      [] v = 2 -> [f EXCEPT !.lateral = DefaultLateral]
      [] v = 3 -> [f EXCEPT !.rules = DefaultRules]
      [] v = 4 -> V4(f)
      [] v = 5 -> [f EXCEPT !.thresholds = "fresh"]
      [] v = 6 -> [f EXCEPT !.thresholds = IF @ = Unset THEN "fresh" ELSE @]
      [] v = 7 -> [f EXCEPT !.mode = IF @ = "events_only" THEN "lightweight" ELSE @]
      [] v = 8 -> V8(f)
      [] v = 9 -> [f EXCEPT !.siem = IF @ # NoSiem THEN {IF d = Unset THEN "internal" ELSE d : d \in @} ELSE @]
      [] v = 10 -> [f EXCEPT !.lateral = IF @ # NoLateral /\ @.exclude_public = Unset THEN [@ EXCEPT !.exclude_public = "yes"] ELSE @]
      [] v = 11 -> V11(f)
      [] v = 12 -> V12(f)

\* upgrade: from the file's version on; a newer one is refused before.
Upgrade(f, version) ==
    FoldLeft(LAMBDA g, v : IF v < version THEN g ELSE Step(v, g), f, [i \in 1 .. SchemaVersion - 1 |-> i])

-----------------------------------------------------------------------------
\* Files as a program of that version writes them, the operator having chosen values, deleted pack rules and written
\* a lateral rule; a file edited by hand may lack the lateral section.
Rules(v, keys, notify, exclude) ==
    {[key |-> k, notify |-> notify, exclude |-> IF v >= 12 /\ Type(k) = "lateral" THEN exclude ELSE Unset] :
        k \in keys \cup {"own"}}
NoUpgradeCase == [version |-> 0]
UpgradeInit == upgradeCase = NoUpgradeCase
AskUpgrade ==
    /\ upgradeCase = NoUpgradeCase
    /\ \E v \in 1 .. SchemaVersion, value \in {"fresh", "mine"}, notify \in BOOLEAN, exclude \in {"public", "none"} :
       \E mode \in {"full"} \cup (IF v < 8 THEN {"events_only"} ELSE {"lightweight"}), public \in {"yes", "no"} :
       \E keys \in SUBSET PackOf(v), dests \in {{}, {"internal"}, {"all"}} :
          LET lateral == [detectors |-> [k \in KeysOf(v) |-> value], exclude_public |-> IF v = 11 THEN public ELSE Unset]
              f == [mode |-> IF v >= 2 THEN mode ELSE Unset, lateral |-> IF v >= 3 THEN lateral ELSE NoLateral,
                    rules |-> IF v >= 4 THEN Rules(v, keys, notify, exclude) ELSE NoRules,
                    thresholds |-> IF v >= 7 THEN value ELSE Unset,
                    siem |-> IF v < 9 THEN NoSiem ELSE IF v = 9 THEN {Unset : d \in dests} ELSE dests]
          IN \E before \in {f, [f EXCEPT !.lateral = IF v = 4 THEN NoLateral ELSE @]} :
                upgradeCase' = [version |-> v, before |-> before, after |-> Upgrade(before, v)]

-----------------------------------------------------------------------------
\* The present schema takes the file: every section and key is there, none is left over, a rule is there once and
\* says what it excludes (StrictModel, _unique_ids).
UpgradedLoads(f) ==
    /\ f.mode \in {"full", "lightweight"} /\ f.thresholds # Unset /\ f.siem # NoSiem /\ Unset \notin f.siem
    /\ DOMAIN f.lateral.detectors = KeysOf(SchemaVersion) /\ f.lateral.exclude_public = Unset
    /\ \A r \in f.rules : /\ (Type(r.key) = "lateral") = (r.exclude # Unset)
                          /\ \A q \in f.rules : q.key = r.key => q = r

\* What the operator had stays: values, the rules and whether they notify, and a rule of the pack that was deleted.
NothingIsUndone(v, before, after) ==
    /\ v >= 3 /\ before.lateral # NoLateral =>
          \A k \in DOMAIN before.lateral.detectors : after.lateral.detectors[k] = before.lateral.detectors[k]
    /\ v >= 4 => /\ \A r \in before.rules : \E q \in after.rules : q.key = r.key /\ q.notify = r.notify
                 /\ PackKeys(after.rules) \cap PackOf(v) \subseteq PackKeys(before.rules)
    /\ v >= 10 => after.siem = before.siem

\* "what was quiet stays quiet": no rule joins that notifies but the SIEM check, and a rule leaves public ends out
\* exactly if detection or the rule left them out before.
QuietStaysQuiet(v, before, after) ==
    v >= 4 => \A r \in after.rules :
        /\ r.key \notin PackKeys(before.rules) => ~r.notify \/ r.key = "siem_backlog"
        /\ v = 11 /\ Type(r.key) = "lateral" /\ r.key \in PackKeys(before.rules) =>
              (r.exclude = "public" <=> before.lateral.exclude_public = "yes")

\* Every file a v6 program wrote is read by this one, with nothing the operator chose undone (settings/upgrade.py).
UpgradeKeepsWhatWasChosen ==
    upgradeCase # NoUpgradeCase =>
        LET c == upgradeCase
        IN UpgradedLoads(c.after) /\ NothingIsUndone(c.version, c.before, c.after) /\ QuietStaysQuiet(c.version, c.before, c.after)
=============================================================================
