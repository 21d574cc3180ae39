----------------------------- MODULE FlowStore -----------------------------
(***************************************************************************)
(* The flow database (data/flows.sqlite) and everyone who may change which *)
(* PCE it belongs to: FlowDb's write lock, generation and reset gate, the  *)
(* binding row, the collector jobs, the PCE page (save, keep, clear) and   *)
(* the "clear collected data" action, with FlowDbBusy and process crashes. *)
(*                                                                         *)
(* Data is abstracted to what tells one PCE from another: an address is a  *)
(* model value (normalize_target already applied), Ident names the PCE     *)
(* that answers there, and the file holds the set of PCEs whose records    *)
(* are in it.  Addresses are those of one org; a save for another org      *)
(* takes the same path as the choice "clear".                              *)
(***************************************************************************)
EXTENDS Integers, FiniteSets

CONSTANTS
    Addrs,        \* PCE addresses an operator may save
    NoAddr,       \* no PCE configured (settings), or an unbound database (binding)
    Ident,        \* Ident[a]: the PCE that answers at address a
    Collectors,   \* the collector jobs (each at most one instance, jobs/scheduler.py)
    Pages,        \* requests to the PCE page or to "clear collected data"
    Readers,      \* lock-free holders of a connection: GUI reads, detection, SIEM, checkpoint
    NoOne,        \* the write lock is free
    MaxSaves,     \* bound: saves of the settings (the revision)
    MaxClears,    \* bound: uses of "clear collected data"
    MaxCrashes,   \* bound: stops of the service
    MaxBusy       \* bound: resets that give up with FlowDbBusy

ASSUME FlowStoreAssumption ==
    /\ NoAddr \notin Addrs
    /\ DOMAIN Ident = Addrs
    /\ NoOne \notin Collectors \cup Pages
    /\ Collectors \cap Pages = {}
    /\ MaxSaves \in Nat /\ MaxClears \in Nat /\ MaxCrashes \in Nat /\ MaxBusy \in Nat

VARIABLES
    saved,        \* settings.pce, the same in memory and on disk
    rev,          \* settings.revision
    binding,      \* pce_binding row of the file, NoAddr when unbound
    rows,         \* the PCEs whose records the file holds
    generation,   \* FlowDb.generation
    lock,         \* FlowDb.write_lock: its holder
    resetting,    \* FlowDb._resetting, the gate connect() waits at
    conn,         \* per reader: "closed", "opening" (FlowDb._opening) or "open"
    view,         \* per reader: the binding its require_same_pce check saw
    pc,           \* per job and request: the next step
    seen,         \* per request: body.revision, the revision its page was loaded with
    old,          \* per request: the settings' address when it was submitted
    new,          \* per request: the address asked for; per job: its settings snapshot
    gen,          \* per job and request: the generation it noted
    stale,        \* app.sqlite tables that still describe a store that was cleared
    fresh,        \* (history) per request: no reset since its verification read the store
    overtaken,    \* (history) a keep was applied although a reset overtook its verification
    interrupted,  \* (history) a switch was left unfinished by a crash or FlowDbBusy
    clears,       \* uses of "clear collected data" so far
    crashes,      \* stops so far
    busies        \* FlowDbBusy so far

vars == <<saved, rev, binding, rows, generation, lock, resetting, conn, view, pc, seen,
          old, new, gen, stale, fresh, overtaken, interrupted, clears, crashes, busies>>

Procs == Collectors \cup Pages
Targets == Addrs \cup {NoAddr}

\* app.sqlite tables that describe one PCE, in the order _reset clears them.
Derived == {"pce_probe", "alert_eval_state", "siem_cursor"}

\* The steps of a process that holds the write lock.
Holding == {"waiting", "unlinked", "rebind"}

\* The connections a reset waits for: those being opened and those open.
StillOpen == {r \in Readers : conn[r] # "closed"}

\* The file is bound to another PCE than the settings name.
Mismatch == binding \notin {NoAddr, saved}

Goto(p, step) == pc' = [pc EXCEPT ![p] = step]

\* The service starts on an installation with or without a PCE, and with the file unbound or
\* bound to it by earlier cycles.
Init ==
    /\ saved \in Targets /\ rev = 0
    /\ binding \in {NoAddr, saved}
    /\ rows \in SUBSET (IF binding = NoAddr THEN {} ELSE {Ident[binding]})
    /\ generation = 0 /\ lock = NoOne /\ resetting = FALSE
    /\ conn = [r \in Readers |-> "closed"]
    /\ view = [r \in Readers |-> NoAddr]
    /\ pc = [p \in Procs |-> "idle"]
    /\ seen = [p \in Pages |-> 0]
    /\ old = [p \in Pages |-> NoAddr]
    /\ new = [p \in Procs |-> NoAddr]
    /\ gen = [p \in Procs |-> 0]
    /\ stale = {}
    /\ fresh = [p \in Pages |-> FALSE]
    /\ overtaken = FALSE /\ interrupted = FALSE
    /\ clears = 0 /\ crashes = 0 /\ busies = 0

history == <<overtaken, interrupted, clears, crashes, busies>>
settings == <<saved, rev>>
file == <<binding, rows>>
flowdb == <<generation, lock, resetting>>
readers == <<conn, view>>
request == <<seen, old>>

-----------------------------------------------------------------------------
(* FlowDb.connect / close for a reader that holds no lock.                 *)

\* Mutation of Opening: connect does not wait at the gate.
OpeningUngated(r) ==
    /\ conn[r] = "closed"
    /\ conn' = [conn EXCEPT ![r] = "opening"]
    /\ UNCHANGED <<settings, file, flowdb, view, pc, request, new, gen, stale, fresh, history>>

\* connect: past the gate, the connection is being opened.
Opening(r) ==
    /\ conn[r] = "closed" /\ ~resetting
    /\ conn' = [conn EXCEPT ![r] = "opening"]
    /\ UNCHANGED <<settings, file, flowdb, view, pc, request, new, gen, stale, fresh, history>>

\* _opened, then the reader's require_same_pce: refuse another PCE's data, or go on to read.
\* Readers that go by a cursor or by nothing (the SIEM run, the checkpoint) do not ask.
Opened(r) ==
    /\ conn[r] = "opening"
    /\ \/ /\ Mismatch
          /\ conn' = [conn EXCEPT ![r] = "closed"]
          /\ view' = [view EXCEPT ![r] = NoAddr]
       \/ /\ ~Mismatch
          /\ conn' = [conn EXCEPT ![r] = "open"]
          /\ view' = [view EXCEPT ![r] = binding]
       \/ /\ conn' = [conn EXCEPT ![r] = "open"]
          /\ view' = [view EXCEPT ![r] = NoAddr]
    /\ UNCHANGED <<settings, file, flowdb, pc, request, new, gen, stale, fresh, history>>

Close(r) ==
    /\ conn[r] = "open"
    /\ conn' = [conn EXCEPT ![r] = "closed"]
    /\ view' = [view EXCEPT ![r] = NoAddr]
    /\ UNCHANGED <<settings, file, flowdb, pc, request, new, gen, stale, fresh, history>>

-----------------------------------------------------------------------------
(* FlowDb.reset, one step per thing another thread can come between.       *)

\* Mutation of StillWanted: the question is not asked again under the lock.
StillWantedUnasked(p) == p \in Procs

\* Asked again under the lock by finish_pending_switch; a page's reset is unconditional.
StillWanted(p) == p \in Collectors => Mismatch

\* Under the write lock: the generation moves on first, then the gate closes.
ResetBegin(p) ==
    /\ pc[p] = "reset" /\ lock = NoOne
    /\ \/ /\ ~StillWanted(p)
          /\ Goto(p, "note")   \* finish_pending_switch returns None; the cycle follows
          /\ UNCHANGED flowdb
       \/ /\ StillWanted(p)
          /\ generation' = generation + 1
          /\ lock' = p /\ resetting' = TRUE
          /\ Goto(p, "waiting")
    /\ UNCHANGED <<settings, file, readers, request, new, gen, stale, fresh, history>>

\* _wait_for_connections timed out: FlowDbBusy, nothing deleted, the generation stays moved.
ResetBusy(p) ==
    /\ pc[p] = "waiting" /\ StillOpen # {}
    /\ busies < MaxBusy
    /\ busies' = busies + 1
    /\ resetting' = FALSE /\ lock' = NoOne
    /\ interrupted' = IF Mismatch THEN TRUE ELSE interrupted
    /\ Goto(p, "idle")
    /\ UNCHANGED <<settings, file, generation, readers, request, new, gen, stale, fresh, overtaken,
                   clears, crashes>>

\* Mutation of ResetUnlink: the file goes although connections are left.
ResetUnlinkAnyway(p) ==
    /\ pc[p] = "waiting"
    /\ binding' = NoAddr /\ rows' = {}
    /\ stale' = Derived
    /\ fresh' = [q \in Pages |-> FALSE]
    /\ interrupted' = FALSE
    /\ Goto(p, "unlinked")
    /\ UNCHANGED <<settings, flowdb, readers, request, new, gen, overtaken, clears, crashes, busies>>

\* No connection is left: the archive goes aside and the file is deleted.
ResetUnlink(p) ==
    /\ pc[p] = "waiting" /\ StillOpen = {}
    /\ binding' = NoAddr /\ rows' = {}
    /\ stale' = Derived
    /\ fresh' = [q \in Pages |-> FALSE]
    /\ interrupted' = FALSE
    /\ Goto(p, "unlinked")
    /\ UNCHANGED <<settings, flowdb, readers, request, new, gen, overtaken, clears, crashes, busies>>

\* The gate opens, the file is created again, the write lock is released.
ResetEnd(p) ==
    /\ pc[p] = "unlinked"
    /\ resetting' = FALSE /\ lock' = NoOne
    /\ Goto(p, "pce_probe")
    /\ UNCHANGED <<settings, file, generation, readers, request, new, gen, stale, fresh, history>>

AfterClearer == [pce_probe |-> "alert_eval_state", alert_eval_state |-> "siem_cursor"]

\* _reset's loop over APP_DB_PCE_DERIVED, outside the write lock, one app.sqlite
\* transaction each; a collector job goes on to its cycle after the last.
Clearer(p) ==
    /\ pc[p] \in Derived
    /\ stale' = stale \ {pc[p]}
    /\ Goto(p, IF pc[p] # "siem_cursor" THEN AfterClearer[pc[p]]
               ELSE IF p \in Collectors THEN "note" ELSE "idle")
    /\ UNCHANGED <<settings, file, flowdb, readers, request, new, gen, fresh, history>>

-----------------------------------------------------------------------------
(* A collector job: finish_pending_switch, then one cycle.                 *)

\* Mutation of FinishPendingSwitch: the jobs leave an unfinished switch alone.
LeavePendingSwitch(c) ==
    /\ pc[c] = "idle" /\ saved # NoAddr /\ ~resetting
    /\ Goto(c, "note")
    /\ UNCHANGED <<settings, file, flowdb, readers, request, new, gen, stale, fresh, history>>

\* The job starts: it reads the binding without the write lock and decides on a reset.
FinishPendingSwitch(c) ==
    /\ pc[c] = "idle" /\ saved # NoAddr /\ ~resetting
    /\ Goto(c, IF Mismatch THEN "reset" ELSE "note")
    /\ UNCHANGED <<settings, file, flowdb, readers, request, new, gen, stale, fresh, history>>

\* The generation is noted before the settings it goes with.
NoteGeneration(c) ==
    /\ pc[c] = "note"
    /\ gen' = [gen EXCEPT ![c] = generation]
    /\ Goto(c, "settings")
    /\ UNCHANGED <<settings, file, flowdb, readers, request, new, stale, fresh, history>>

\* Mutation of SnapshotSettings: a PCE removed since the job started is not noticed.
SnapshotUnchecked(c) ==
    /\ pc[c] = "settings"
    /\ new' = [new EXCEPT ![c] = saved]
    /\ Goto(c, "fetch")
    /\ UNCHANGED <<settings, file, flowdb, readers, request, gen, stale, fresh, history>>

\* One settings snapshot for the client and the binding check; no PCE: nothing to do.
SnapshotSettings(c) ==
    /\ pc[c] = "settings"
    /\ new' = [new EXCEPT ![c] = saved]
    /\ Goto(c, IF saved = NoAddr THEN "idle" ELSE "fetch")
    /\ UNCHANGED <<settings, file, flowdb, readers, request, gen, stale, fresh, history>>

\* begin and the PCE calls: a moved generation or a failed fetch ends the cycle unwritten.
Fetch(c) ==
    /\ pc[c] = "fetch"
    /\ \/ lock = NoOne /\ gen[c] = generation /\ Goto(c, "write")
       \/ Goto(c, "idle")
    /\ UNCHANGED <<settings, file, flowdb, readers, request, new, gen, stale, fresh, history>>

\* Mutation of WriteCycle: no ensure_binding, the first to write binds and all may store.
WriteUnbound(c) ==
    /\ pc[c] = "write" /\ lock = NoOne
    /\ IF gen[c] = generation
       THEN /\ binding' = IF binding = NoAddr THEN new[c] ELSE binding
            /\ \E got \in SUBSET {Ident[new[c]]} : rows' = rows \cup got
       ELSE UNCHANGED file
    /\ Goto(c, "idle")
    /\ UNCHANGED <<settings, flowdb, readers, request, new, gen, stale, fresh, history>>

\* Mutation of WriteCycle: writing() does not compare the generation.
WriteLate(c) ==
    /\ pc[c] = "write" /\ lock = NoOne
    /\ IF binding \in {NoAddr, new[c]}
       THEN /\ binding' = new[c]
            /\ \E got \in SUBSET {Ident[new[c]]} : rows' = rows \cup got
       ELSE UNCHANGED file
    /\ Goto(c, "idle")
    /\ UNCHANGED <<settings, flowdb, readers, request, new, gen, stale, fresh, history>>

\* writing(gen) and ensure_binding: dropped when the generation moved, refused when bound to
\* another PCE, otherwise bound (if unbound) and what was fetched, if anything, stored.
WriteCycle(c) ==
    /\ pc[c] = "write" /\ lock = NoOne
    /\ IF gen[c] = generation /\ binding \in {NoAddr, new[c]}
       THEN /\ binding' = new[c]
            /\ \E got \in SUBSET {Ident[new[c]]} : rows' = rows \cup got
       ELSE UNCHANGED file
    /\ Goto(c, "idle")
    /\ UNCHANGED <<settings, flowdb, readers, request, new, gen, stale, fresh, history>>

-----------------------------------------------------------------------------
(* The PCE page and "clear collected data".                                *)

\* The operator opens the page (its revision) ...
LoadPage(p) ==
    /\ pc[p] = "idle" /\ rev < MaxSaves
    /\ seen' = [seen EXCEPT ![p] = rev]
    /\ Goto(p, "loaded")
    /\ UNCHANGED <<settings, file, flowdb, readers, old, new, gen, stale, fresh, history>>

\* ... and submits an address: update_connection up to the save.  Whether the store is bound
\* decides if "keep" is offered at all; the gate makes that read wait for a reset.
Submit(p, a, choice) ==
    /\ pc[p] = "loaded" /\ ~resetting
    /\ choice = "keep" => saved # NoAddr /\ a # saved /\ binding # NoAddr
    /\ old' = [old EXCEPT ![p] = saved]
    /\ new' = [new EXCEPT ![p] = a]
    /\ Goto(p, IF choice = "keep" THEN "verify" ELSE "save")
    /\ UNCHANGED <<settings, file, flowdb, readers, seen, gen, stale, fresh, history>>

\* SettingsStore.update: a stale revision is a conflict; another target then clears the store.
Save(p) ==
    /\ pc[p] = "save"
    /\ IF rev # seen[p]
       THEN UNCHANGED settings /\ Goto(p, "idle")
       ELSE /\ saved' = new[p] /\ rev' = rev + 1
            /\ Goto(p, IF old[p] # NoAddr /\ new[p] # old[p] THEN "reset" ELSE "idle")
    /\ UNCHANGED <<file, flowdb, readers, request, new, gen, stale, fresh, history>>

\* same_pce.verify: the new address answers for a stored workload, or the request ends (no
\* workload stored, the PCE unreachable, or another PCE).
Verify(p) ==
    /\ pc[p] = "verify" /\ ~resetting
    /\ \/ /\ new[p] # NoAddr /\ Ident[new[p]] \in rows
          /\ fresh' = [fresh EXCEPT ![p] = TRUE]
          /\ Goto(p, "verified")
       \/ Goto(p, "idle") /\ UNCHANGED fresh
    /\ UNCHANGED <<settings, file, flowdb, readers, request, new, gen, stale, history>>

\* writing(fdb.generation): the argument is evaluated before the write lock is awaited.
NoteKeep(p) ==
    /\ pc[p] = "verified"
    /\ gen' = [gen EXCEPT ![p] = generation]
    /\ Goto(p, "keep")
    /\ UNCHANGED <<settings, file, flowdb, readers, request, new, stale, fresh, history>>

\* Under the write lock: the settings are saved first ...
KeepSave(p) ==
    /\ pc[p] = "keep" /\ lock = NoOne
    /\ IF gen[p] # generation \/ rev # seen[p]
       THEN UNCHANGED <<settings, lock>> /\ Goto(p, "idle")
       ELSE /\ saved' = new[p] /\ rev' = rev + 1
            /\ lock' = p
            /\ Goto(p, "rebind")
    /\ UNCHANGED <<file, generation, resetting, readers, request, new, gen, stale, fresh, history>>

\* ... and then the file is rebound, in the same hold (an unbound file stays unbound).
KeepRebind(p) ==
    /\ pc[p] = "rebind"
    /\ binding' = IF binding = NoAddr THEN NoAddr ELSE new[p]
    /\ overtaken' = (overtaken \/ ~fresh[p])
    /\ interrupted' = FALSE
    /\ lock' = NoOne
    /\ Goto(p, "idle")
    /\ UNCHANGED <<settings, rows, generation, resetting, readers, request, new, gen, stale,
                   fresh, clears, crashes, busies>>

\* clear_collected_data: the same clearing for the same PCE.
ClearCollected(p) ==
    /\ pc[p] = "idle" /\ clears < MaxClears
    /\ clears' = clears + 1
    /\ Goto(p, "reset")
    /\ UNCHANGED <<settings, file, flowdb, readers, request, new, gen, stale, fresh, overtaken,
                   interrupted, crashes, busies>>

-----------------------------------------------------------------------------
(* The service stops and starts again: settings.json and the databases     *)
(* stay, every thread, lock, connection and the generation are gone.       *)
Crash ==
    /\ crashes < MaxCrashes
    /\ crashes' = crashes + 1
    /\ interrupted' = IF Mismatch THEN TRUE ELSE interrupted
    /\ generation' = 0 /\ lock' = NoOne /\ resetting' = FALSE
    /\ conn' = [r \in Readers |-> "closed"]
    /\ view' = [r \in Readers |-> NoAddr]
    /\ pc' = [p \in Procs |-> "idle"]
    /\ fresh' = [p \in Pages |-> FALSE]
    /\ UNCHANGED <<settings, file, request, new, gen, stale, overtaken, clears, busies>>

Reset(p) == ResetBegin(p) \/ ResetBusy(p) \/ ResetUnlink(p) \/ ResetEnd(p) \/ Clearer(p)

Collect(c) ==
    \/ FinishPendingSwitch(c) \/ NoteGeneration(c) \/ SnapshotSettings(c)
    \/ Fetch(c) \/ WriteCycle(c)

Page(p) ==
    \/ LoadPage(p)
    \/ \E a \in Targets, choice \in {"keep", "clear"} : Submit(p, a, choice)
    \/ Save(p) \/ Verify(p) \/ NoteKeep(p) \/ KeepSave(p) \/ KeepRebind(p)
    \/ ClearCollected(p)

Next ==
    \/ \E r \in Readers : Opening(r) \/ Opened(r) \/ Close(r)
    \/ \E p \in Procs : Reset(p)
    \/ \E c \in Collectors : Collect(c)
    \/ \E p \in Pages : Page(p)
    \/ Crash

Spec == Init /\ [][Next]_vars

\* Jobs run on their intervals, a started request or reset goes on, readers finish their read;
\* nobody has to open a page or a connection.
Fairness ==
    /\ \A r \in Readers : WF_vars(Opened(r) \/ Close(r))
    /\ \A p \in Procs : WF_vars(Reset(p))
    /\ \A c \in Collectors : WF_vars(Collect(c))
    /\ \A p \in Pages : WF_vars(Save(p) \/ Verify(p) \/ NoteKeep(p) \/ KeepSave(p) \/ KeepRebind(p))

FairSpec == Spec /\ Fairness

-----------------------------------------------------------------------------
(* What makes it correct.                                                  *)

TypeOK ==
    /\ saved \in Targets /\ rev \in Nat
    /\ binding \in Targets
    /\ rows \subseteq {Ident[a] : a \in Addrs}
    /\ generation \in Nat
    /\ lock \in Procs \cup {NoOne}
    /\ resetting \in BOOLEAN
    /\ conn \in [Readers -> {"closed", "opening", "open"}]
    /\ view \in [Readers -> Targets]
    /\ pc \in [Procs -> {"idle", "reset", "note", "settings", "fetch", "write", "loaded", "save",
                        "verify", "verified", "keep"} \cup Holding \cup Derived]
    /\ seen \in [Pages -> Nat]
    /\ old \in [Pages -> Targets]
    /\ new \in [Procs -> Targets]
    /\ gen \in [Procs -> Nat]
    /\ stale \subseteq Derived
    /\ fresh \in [Pages -> BOOLEAN]
    /\ overtaken \in BOOLEAN /\ interrupted \in BOOLEAN
    /\ clears \in Nat /\ crashes \in Nat /\ busies \in Nat
    /\ \A c \in Collectors : pc[c] \in {"fetch", "write"} => new[c] # NoAddr

\* "A connection still open on the deleted file would, closing last on it, delete the new
\* file's WAL": from the deletion to the end of the reset nobody has, or is opening, a connection.
NoConnectionOnDeletedFile == (\E p \in Procs : pc[p] = "unlinked") => StillOpen = {}

\* The store is in order: its types hold, and no connection is on a file that a reset deletes (FlowDb.reset, connect).
StoreIsInOrder == TypeOK /\ NoConnectionOnDeletedFile

\* "The flow database belongs to one PCE": every record in the file came from the PCE that
\* answers at the address the file is bound to, and an unbound file holds none.
StoreBelongsToOnePce == rows \subseteq (IF binding = NoAddr THEN {} ELSE {Ident[binding]})

\* The same, with the one way it can fail named: a keep applied after a reset had overtaken
\* the verification it rests on.
OnePceUnlessOvertaken == overtaken \/ StoreBelongsToOnePce

\* A file bound to another PCE than the settings name is always somebody's to clear: a page
\* that is about to reset or to rebind it, or a switch that was interrupted and is left to
\* finish_pending_switch.  In particular, once a switch is done no cycle begun before it can
\* bind the new file back to the old PCE (FlowDb.generation).
MismatchIsOwed ==
    Mismatch => \/ overtaken \/ interrupted
                \/ \E p \in Pages : pc[p] \in {"reset", "waiting", "rebind"}

\* A reader whose require_same_pce check found the file bound to an address reads that PCE's
\* records only, however long it reads and whatever is switched, cleared or collected meanwhile.
ReadersSeeOnePce ==
    \A r \in Readers :
        conn[r] = "open" /\ view[r] # NoAddr => overtaken \/ rows \subseteq {Ident[view[r]]}

\* finish_pending_switch never deletes the records of the PCE the settings name, unless a page's own
\* reset of them is owed or was left unfinished (A, then B, then none, then A again, the clearing of A
\* still to come): a rebind to the same PCE's new address is seen under the lock.
CollectorsKeepCurrentData ==
    [][\A c \in Collectors :
        ResetUnlink(c) /\ binding = saved => interrupted \/ \E p \in Pages : pc[p] = "reset"]_vars

\* A store that is bound to the configured PCE and that nobody is clearing comes with
\* application tables that describe it: "If clearing failed or the service stopped in between
\* ... each collector run calls this first ... to finish the switch".
SwitchIsFinished ==
    binding # NoAddr /\ binding = saved /\ (\A p \in Procs : pc[p] \notin Derived \cup {"unlinked"})
        => stale = {}

\* An unfinished switch is finished: a file bound to another PCE than the configured one is
\* cleared, rebound, or the settings go back to it, whatever crashes and busy resets came before.
SwitchCompletes == Mismatch /\ saved # NoAddr ~> ~Mismatch \/ saved = NoAddr

-----------------------------------------------------------------------------
(* The inductive strengthening of the safety properties (FlowStoreProofs). *)

\* A process in a step that holds the write lock is its holder, and a reset under way has the
\* gate closed.
LockInv == \A p \in Procs : /\ pc[p] \in Holding => lock = p
                            /\ pc[p] \in {"waiting", "unlinked"} => resetting

\* Until a reset overtakes it, what a keep verified is still in the store.
FreshInv == \A p \in Pages : pc[p] \in {"verified", "keep", "rebind"} =>
                /\ new[p] \in Addrs
                /\ fresh[p] => Ident[new[p]] \in rows

\* A reader's PCE stays the store's PCE while it reads.
ViewInv == \A r \in Readers : conn[r] = "open" /\ view[r] # NoAddr /\ ~overtaken =>
                binding # NoAddr /\ Ident[binding] = Ident[view[r]]

\* The address a request was submitted against is still the settings' if no save came since.
RequestInv == \A p \in Pages : pc[p] \in {"loaded", "save", "verify", "verified", "keep"} =>
                /\ seen[p] <= rev
                /\ pc[p] # "loaded" /\ seen[p] = rev => old[p] = saved

\* A page that is about to clear the store.
ResetOwed == \E q \in Pages : pc[q] = "reset"

\* A cycle that could still bind an unbound store to an address the settings have left.
Outdated(c) == pc[c] \in {"fetch", "write"} /\ gen[c] = generation /\ new[c] # saved

CycleInv == \A c \in Collectors :
    /\ pc[c] \in {"settings", "fetch", "write"} => gen[c] <= generation
    /\ Outdated(c) => \/ binding # NoAddr \/ overtaken \/ interrupted
                      \/ \E p \in Pages : pc[p] \in {"reset", "waiting", "rebind"}
    /\ Outdated(c) /\ (\E p \in Procs : pc[p] = "waiting") => overtaken \/ ResetOwed

\* A save that comes between a keep's save and its rebind owes a reset of its own.
KeepInv == \A p \in Pages : pc[p] = "rebind" => saved = new[p] \/ ResetOwed

StoreInv == /\ LockInv /\ NoConnectionOnDeletedFile
            /\ OnePceUnlessOvertaken /\ FreshInv /\ ViewInv
SwitchInv == MismatchIsOwed /\ RequestInv /\ CycleInv /\ KeepInv
=============================================================================
