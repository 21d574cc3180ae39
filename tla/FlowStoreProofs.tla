-------------------------- MODULE FlowStoreProofs --------------------------
(***************************************************************************)
(* Theorems about FlowStore for every set of addresses, jobs, requests and *)
(* readers, every assignment of PCEs to addresses and every bound.         *)
(***************************************************************************)
EXTENDS FlowStore, TLAPS

\* A clearer leaves its process in the next one, or done.
LEMMA ClearerStep ==
    ASSUME NEW p \in Procs, Clearer(p)
    PROVE  \E s \in {"idle", "note"} \cup Derived : pc' = [pc EXCEPT ![p] = s]
<1>1. CASE pc[p] = "siem_cursor"
  BY <1>1 DEF Clearer, Goto
<1>2. CASE pc[p] # "siem_cursor"
  <2>1. AfterClearer[pc[p]] \in Derived
    BY <1>2 DEF Clearer, AfterClearer, Derived
  <2>2. pc' = [pc EXCEPT ![p] = AfterClearer[pc[p]]]
    BY <1>2 DEF Clearer, Goto
  <2> QED BY <2>1, <2>2
<1> QED BY <1>1, <1>2

\* TypeOK holds initially.
LEMMA InitType == Init => TypeOK
<1> SUFFICES ASSUME Init PROVE TypeOK
  OBVIOUS
<1>1. rows \subseteq {Ident[a] : a \in Addrs}
  BY DEF Init, Targets
<1> QED BY <1>1 DEF Init, TypeOK, Targets, Procs, Derived, Holding

\* Every step keeps TypeOK.
LEMMA NextType == TypeOK /\ [Next]_vars => TypeOK'
<1> SUFFICES ASSUME TypeOK, [Next]_vars PROVE TypeOK'
  OBVIOUS
<1> USE FlowStoreAssumption DEF FlowStoreAssumption, TypeOK, Targets, Procs, Derived, Holding, Goto, settings, file, flowdb,
        readers, request, history
<1>1. ASSUME NEW r \in Readers, Opening(r) \/ Opened(r) \/ Close(r) PROVE TypeOK'
  <2>1. CASE Opening(r)
    BY <2>1 DEF Opening
  <2>2. CASE Opened(r)
    BY <2>2 DEF Opened
  <2>3. CASE Close(r)
    BY <2>3 DEF Close
  <2> QED BY <1>1, <2>1, <2>2, <2>3
<1>2. ASSUME NEW p \in Procs, Reset(p) PROVE TypeOK'
  <2>1. CASE ResetBegin(p)
    <3>1. CASE ~StillWanted(p)
      BY <2>1, <3>1 DEF ResetBegin
    <3>2. CASE StillWanted(p)
      BY <2>1, <3>2 DEF ResetBegin
    <3> QED BY <3>1, <3>2
  <2>2. CASE ResetBusy(p)
    <3>1. interrupted' \in BOOLEAN
      <4>1. CASE Mismatch
        BY <2>2, <4>1 DEF ResetBusy
      <4>2. CASE ~Mismatch
        BY <2>2, <4>2 DEF ResetBusy
      <4> QED BY <4>1, <4>2
    <3>2. pc' = [pc EXCEPT ![p] = "idle"] /\ busies' \in Nat /\ lock' = NoOne /\ resetting' = FALSE
      BY <2>2 DEF ResetBusy
    <3>3. UNCHANGED <<settings, file, generation, readers, request, new, gen, stale, fresh, overtaken,
                      clears, crashes>>
      BY <2>2 DEF ResetBusy
    <3> QED BY <3>1, <3>2, <3>3
  <2>3. CASE ResetUnlink(p)
    BY <2>3 DEF ResetUnlink
  <2>4. CASE ResetEnd(p)
    BY <2>4 DEF ResetEnd
  <2>5. CASE Clearer(p)
    <3>1. PICK s \in {"idle", "note"} \cup Derived : pc' = [pc EXCEPT ![p] = s]
      BY <2>5, ClearerStep
    <3>2. stale' \subseteq Derived
      BY <2>5 DEF Clearer
    <3>3. UNCHANGED <<settings, file, flowdb, readers, request, new, gen, fresh, history>>
      BY <2>5 DEF Clearer
    <3> QED BY <3>1, <3>2, <3>3
  <2> QED BY <1>2, <2>1, <2>2, <2>3, <2>4, <2>5 DEF Reset
<1>3. ASSUME NEW c \in Collectors, Collect(c) PROVE TypeOK'
  <2>1. CASE FinishPendingSwitch(c)
    BY <2>1 DEF FinishPendingSwitch
  <2>2. CASE NoteGeneration(c)
    BY <2>2 DEF NoteGeneration
  <2>3. CASE SnapshotSettings(c)
    BY <2>3 DEF SnapshotSettings
  <2>4. CASE Fetch(c)
    BY <2>4 DEF Fetch
  <2>5. CASE WriteCycle(c)
    <3>0. new[c] \in Addrs
      BY <2>5 DEF WriteCycle
    <3>1. CASE gen[c] = generation /\ binding \in {NoAddr, new[c]}
      <4>1. rows' \subseteq {Ident[a] : a \in Addrs}
        BY <2>5, <3>0, <3>1 DEF WriteCycle
      <4> QED BY <2>5, <3>1, <4>1 DEF WriteCycle
    <3>2. CASE ~(gen[c] = generation /\ binding \in {NoAddr, new[c]})
      BY <2>5, <3>2 DEF WriteCycle
    <3> QED BY <3>1, <3>2
  <2> QED BY <1>3, <2>1, <2>2, <2>3, <2>4, <2>5 DEF Collect
<1>4. ASSUME NEW p \in Pages, Page(p) PROVE TypeOK'
  <2>1. CASE LoadPage(p)
    BY <2>1 DEF LoadPage
  <2>2. ASSUME NEW a \in Targets, NEW choice \in {"keep", "clear"}, Submit(p, a, choice) PROVE TypeOK'
    BY <2>2 DEF Submit
  <2>3. CASE Save(p)
    BY <2>3 DEF Save
  <2>4. CASE Verify(p)
    BY <2>4 DEF Verify
  <2>5. CASE NoteKeep(p)
    BY <2>5 DEF NoteKeep
  <2>6. CASE KeepSave(p)
    BY <2>6 DEF KeepSave
  <2>7. CASE KeepRebind(p)
    BY <2>7 DEF KeepRebind
  <2>8. CASE ClearCollected(p)
    BY <2>8 DEF ClearCollected
  <2> QED BY <1>4, <2>1, <2>2, <2>3, <2>4, <2>5, <2>6, <2>7, <2>8 DEF Page
<1>5. CASE Crash
  <2>1. interrupted' \in BOOLEAN
    <3>1. CASE Mismatch
      BY <1>5, <3>1 DEF Crash
    <3>2. CASE ~Mismatch
      BY <1>5, <3>2 DEF Crash
    <3> QED BY <3>1, <3>2
  <2>2. pc' = [p \in Procs |-> "idle"]
    BY <1>5 DEF Crash
  <2>3. conn' \in [Readers -> {"closed", "opening", "open"}] /\ view' \in [Readers -> Targets]
        /\ fresh' \in [Pages -> BOOLEAN]
    BY <1>5 DEF Crash
  <2>4. generation' = 0 /\ lock' = NoOne /\ resetting' = FALSE /\ crashes' \in Nat
    BY <1>5 DEF Crash
  <2>5. UNCHANGED <<settings, file, request, new, gen, stale, overtaken, clears, busies>>
    BY <1>5 DEF Crash
  <2> QED BY <2>1, <2>2, <2>3, <2>4, <2>5
<1>6. CASE UNCHANGED vars
  BY <1>6 DEF vars
<1> QED BY <1>1, <1>2, <1>3, <1>4, <1>5, <1>6 DEF Next

\* Type correctness of the flow store, its jobs and its requests.
THEOREM TypeCorrect == Spec => []TypeOK
  BY InitType, NextType, PTL DEF Spec

-----------------------------------------------------------------------------
(* The store belongs to one PCE, and a reset deletes it only when closed.  *)

\* StoreInv holds initially.
LEMMA InitStore == Init => StoreInv
  BY FlowStoreAssumption DEF FlowStoreAssumption, Init, StoreInv, LockInv, NoConnectionOnDeletedFile,
     OnePceUnlessOvertaken, StoreBelongsToOnePce, FreshInv, ViewInv, Procs, Targets, Holding, StillOpen

\* Every step keeps StoreInv.
LEMMA NextStore == TypeOK /\ StoreInv /\ [Next]_vars => StoreInv'
<1> SUFFICES ASSUME TypeOK, StoreInv, [Next]_vars PROVE StoreInv'
  OBVIOUS
<1> USE FlowStoreAssumption DEF FlowStoreAssumption, TypeOK, StoreInv, Targets, Procs, Derived, Holding,
        Goto, settings, file, flowdb, readers, request, history, LockInv, NoConnectionOnDeletedFile,
        OnePceUnlessOvertaken, StoreBelongsToOnePce, FreshInv, ViewInv, StillOpen
<1>1. ASSUME NEW r \in Readers, Opening(r) \/ Opened(r) \/ Close(r) PROVE StoreInv'
  <2>1. CASE Opening(r)
    BY <2>1 DEF Opening
  <2>2. CASE Opened(r)
    BY <2>2 DEF Opened
  <2>3. CASE Close(r)
    BY <2>3 DEF Close
  <2> QED BY <1>1, <2>1, <2>2, <2>3
<1>2. ASSUME NEW p \in Procs, Reset(p) PROVE StoreInv'
  <2>1. CASE ResetBegin(p)
    BY <2>1 DEF ResetBegin
  <2>2. CASE ResetBusy(p)
    BY <2>2 DEF ResetBusy
  <2>3. CASE ResetUnlink(p)
    BY <2>3 DEF ResetUnlink
  <2>4. CASE ResetEnd(p)
    BY <2>4 DEF ResetEnd
  <2>5. CASE Clearer(p)
    <3>1. PICK s \in {"idle", "note"} \cup Derived : pc' = [pc EXCEPT ![p] = s]
      BY <2>5, ClearerStep
    <3>2. UNCHANGED <<settings, file, flowdb, readers, request, new, gen, fresh, history>>
      BY <2>5 DEF Clearer
    <3> QED BY <3>1, <3>2
  <2> QED BY <1>2, <2>1, <2>2, <2>3, <2>4, <2>5 DEF Reset
<1>3. ASSUME NEW c \in Collectors, Collect(c) PROVE StoreInv'
  <2>1. CASE FinishPendingSwitch(c)
    BY <2>1 DEF FinishPendingSwitch
  <2>2. CASE NoteGeneration(c)
    BY <2>2 DEF NoteGeneration
  <2>3. CASE SnapshotSettings(c)
    BY <2>3 DEF SnapshotSettings
  <2>4. CASE Fetch(c)
    BY <2>4 DEF Fetch
  <2>5. CASE WriteCycle(c)
    BY <2>5 DEF WriteCycle
  <2> QED BY <1>3, <2>1, <2>2, <2>3, <2>4, <2>5 DEF Collect
<1>4. ASSUME NEW p \in Pages, Page(p) PROVE StoreInv'
  <2>1. CASE LoadPage(p)
    BY <2>1 DEF LoadPage
  <2>2. ASSUME NEW a \in Targets, NEW choice \in {"keep", "clear"}, Submit(p, a, choice) PROVE StoreInv'
    BY <2>2 DEF Submit
  <2>3. CASE Save(p)
    BY <2>3 DEF Save
  <2>4. CASE Verify(p)
    BY <2>4 DEF Verify
  <2>5. CASE NoteKeep(p)
    BY <2>5 DEF NoteKeep
  <2>6. CASE KeepSave(p)
    BY <2>6 DEF KeepSave
  <2>7. CASE KeepRebind(p)
    <3>1. LockInv' /\ NoConnectionOnDeletedFile' /\ FreshInv'
      BY <2>7 DEF KeepRebind
    <3>2. ASSUME ~overtaken'
          PROVE  /\ ~overtaken /\ binding # NoAddr /\ binding' = new[p] /\ new[p] \in Addrs
                 /\ Ident[new[p]] = Ident[binding]
      <4>1. ~overtaken /\ fresh[p]
        BY <2>7, <3>2 DEF KeepRebind
      <4>2. new[p] \in Addrs /\ Ident[new[p]] \in rows
        BY <2>7, <4>1 DEF KeepRebind
      <4>3. binding # NoAddr /\ Ident[new[p]] = Ident[binding]
        BY <4>1, <4>2
      <4> QED BY <2>7, <4>1, <4>2, <4>3 DEF KeepRebind
    <3>3. OnePceUnlessOvertaken'
      BY <2>7, <3>2 DEF KeepRebind
    <3>4. ViewInv'
      BY <2>7, <3>2 DEF KeepRebind
    <3> QED BY <3>1, <3>3, <3>4
  <2>8. CASE ClearCollected(p)
    BY <2>8 DEF ClearCollected
  <2> QED BY <1>4, <2>1, <2>2, <2>3, <2>4, <2>5, <2>6, <2>7, <2>8 DEF Page
<1>5. CASE Crash
  BY <1>5 DEF Crash
<1>6. CASE UNCHANGED vars
  BY <1>6 DEF vars
<1> QED BY <1>1, <1>2, <1>3, <1>4, <1>5, <1>6 DEF Next

\* For every instance: no connection is open, or being opened, on the file a reset deletes.
THEOREM ResetWhenClosed == Spec => []NoConnectionOnDeletedFile
<1>1. Spec => [](TypeOK /\ StoreInv)
  BY InitType, NextType, InitStore, NextStore, PTL DEF Spec
<1>2. StoreInv => NoConnectionOnDeletedFile
  BY DEF StoreInv
<1> QED BY <1>1, <1>2, PTL

\* For every instance: the types hold and no connection is on a file that a reset deletes.
THEOREM StoreInOrder == Spec => []StoreIsInOrder
<1>1. TypeOK /\ NoConnectionOnDeletedFile => StoreIsInOrder
  BY DEF StoreIsInOrder
<1> QED BY <1>1, TypeCorrect, ResetWhenClosed, PTL

\* For every instance: the store holds the records of the PCE it is bound to and of no other,
\* unless a keep was applied whose verification a reset had overtaken.
THEOREM StoreOfOnePce == Spec => []OnePceUnlessOvertaken
<1>1. Spec => [](TypeOK /\ StoreInv)
  BY InitType, NextType, InitStore, NextStore, PTL DEF Spec
<1>2. StoreInv => OnePceUnlessOvertaken
  BY DEF StoreInv
<1> QED BY <1>1, <1>2, PTL

\* For every instance: a reader that passed require_same_pce reads that PCE's records only.
THEOREM ReadersOfOnePce == Spec => []ReadersSeeOnePce
<1>1. Spec => [](TypeOK /\ StoreInv)
  BY InitType, NextType, InitStore, NextStore, PTL DEF Spec
<1>2. StoreInv => ReadersSeeOnePce
  BY DEF StoreInv, ViewInv, OnePceUnlessOvertaken, StoreBelongsToOnePce, ReadersSeeOnePce
<1> QED BY <1>1, <1>2, PTL

-----------------------------------------------------------------------------
(* A store bound to another PCE than the settings name is being cleared.   *)

\* SwitchInv holds initially.
LEMMA InitSwitch == Init => SwitchInv
  BY FlowStoreAssumption DEF FlowStoreAssumption, Init, SwitchInv, MismatchIsOwed, Mismatch, RequestInv,
     CycleInv, Outdated, KeepInv, Procs

\* Every step keeps SwitchInv.
LEMMA NextSwitch == TypeOK /\ StoreInv /\ SwitchInv /\ [Next]_vars => SwitchInv'
<1> SUFFICES ASSUME TypeOK, LockInv, OnePceUnlessOvertaken, FreshInv, SwitchInv, [Next]_vars PROVE SwitchInv'
  BY DEF StoreInv
<1> USE FlowStoreAssumption DEF FlowStoreAssumption, TypeOK, LockInv, SwitchInv, Targets, Procs, Derived,
        Holding, Goto, settings, file, flowdb, readers, request, history, MismatchIsOwed, Mismatch,
        RequestInv, CycleInv, Outdated, KeepInv, ResetOwed
<1>1. ASSUME NEW r \in Readers, Opening(r) \/ Opened(r) \/ Close(r) PROVE SwitchInv'
  <2>1. CASE Opening(r)
    BY <2>1 DEF Opening
  <2>2. CASE Opened(r)
    BY <2>2 DEF Opened
  <2>3. CASE Close(r)
    BY <2>3 DEF Close
  <2> QED BY <1>1, <2>1, <2>2, <2>3
<1>2. ASSUME NEW p \in Procs, Reset(p) PROVE SwitchInv'
  <2>1. CASE ResetBegin(p)
    <3>1. CASE ~StillWanted(p)
      <4>1. p \in Collectors
        BY <3>1 DEF StillWanted
      <4> QED BY <2>1, <3>1, <4>1 DEF ResetBegin
    <3>2. CASE StillWanted(p)
      <4>1. /\ pc' = [pc EXCEPT ![p] = "waiting"] /\ generation' = generation + 1
            /\ \A q \in Procs : pc[q] \notin Holding
            /\ UNCHANGED <<settings, file, request, new, gen, history>>
        BY <2>1, <3>2 DEF ResetBegin
      <4>2. MismatchIsOwed' /\ RequestInv' /\ KeepInv'
        BY <2>1, <4>1 DEF ResetBegin
      <4>3. \A c \in Collectors : ~Outdated(c)' /\ (pc'[c] \in {"settings", "fetch", "write"} => gen[c] <= generation')
        BY <4>1
      <4>4. CycleInv'
        BY <4>1, <4>3
      <4> QED BY <4>2, <4>4
    <3> QED BY <3>1, <3>2
  <2>2. CASE ResetBusy(p)
    <3>1. MismatchIsOwed'
      BY <2>2 DEF ResetBusy
    <3>2. RequestInv'
      BY <2>2 DEF ResetBusy
    <3>3. CycleInv'
      BY <2>2 DEF ResetBusy
    <3>4. KeepInv'
      BY <2>2 DEF ResetBusy
    <3> QED BY <3>1, <3>2, <3>3, <3>4
  <2>3. CASE ResetUnlink(p)
    <3>1. MismatchIsOwed'
      BY <2>3 DEF ResetUnlink
    <3>2. RequestInv'
      BY <2>3 DEF ResetUnlink
    <3>3. CycleInv'
      BY <2>3 DEF ResetUnlink
    <3>4. KeepInv'
      BY <2>3 DEF ResetUnlink
    <3> QED BY <3>1, <3>2, <3>3, <3>4
  <2>4. CASE ResetEnd(p)
    BY <2>4 DEF ResetEnd
  <2>5. CASE Clearer(p)
    <3>1. PICK s \in {"idle", "note"} \cup Derived : pc' = [pc EXCEPT ![p] = s]
      BY <2>5, ClearerStep
    <3>2. pc[p] \in Derived /\ UNCHANGED <<settings, file, flowdb, readers, request, new, gen, fresh, history>>
      BY <2>5 DEF Clearer
    <3> QED BY <3>1, <3>2
  <2> QED BY <1>2, <2>1, <2>2, <2>3, <2>4, <2>5 DEF Reset
<1>3. ASSUME NEW c \in Collectors, Collect(c) PROVE SwitchInv'
  <2>1. CASE FinishPendingSwitch(c)
    BY <2>1 DEF FinishPendingSwitch
  <2>2. CASE NoteGeneration(c)
    BY <2>2 DEF NoteGeneration
  <2>3. CASE SnapshotSettings(c)
    BY <2>3 DEF SnapshotSettings
  <2>4. CASE Fetch(c)
    BY <2>4 DEF Fetch
  <2>5. CASE WriteCycle(c)
    <3>1. MismatchIsOwed'
      BY <2>5 DEF WriteCycle
    <3>2. RequestInv'
      BY <2>5 DEF WriteCycle
    <3>3. CycleInv'
      BY <2>5 DEF WriteCycle
    <3>4. KeepInv'
      BY <2>5 DEF WriteCycle
    <3> QED BY <3>1, <3>2, <3>3, <3>4
  <2> QED BY <1>3, <2>1, <2>2, <2>3, <2>4, <2>5 DEF Collect
<1>4. ASSUME NEW p \in Pages, Page(p) PROVE SwitchInv'
  <2>1. CASE LoadPage(p)
    BY <2>1 DEF LoadPage
  <2>2. ASSUME NEW a \in Targets, NEW choice \in {"keep", "clear"}, Submit(p, a, choice) PROVE SwitchInv'
    BY <2>2 DEF Submit
  <2>3. CASE Save(p)
    <3>1. MismatchIsOwed'
      BY <2>3 DEF Save
    <3>2. RequestInv'
      BY <2>3 DEF Save
    <3>3. CycleInv'
      BY <2>3 DEF Save
    <3>4. KeepInv'
      BY <2>3 DEF Save, FreshInv
    <3> QED BY <3>1, <3>2, <3>3, <3>4
  <2>4. CASE Verify(p)
    BY <2>4 DEF Verify
  <2>5. CASE NoteKeep(p)
    BY <2>5 DEF NoteKeep
  <2>6. CASE KeepSave(p)
    <3>1. MismatchIsOwed'
      BY <2>6 DEF KeepSave
    <3>2. RequestInv'
      BY <2>6 DEF KeepSave
    <3>3. CycleInv'
      BY <2>6 DEF KeepSave
    <3>4. KeepInv'
      BY <2>6 DEF KeepSave
    <3> QED BY <3>1, <3>2, <3>3, <3>4
  <2>7. CASE KeepRebind(p)
    <3>1. MismatchIsOwed'
      BY <2>7 DEF KeepRebind
    <3>2. RequestInv'
      BY <2>7 DEF KeepRebind
    <3>3. CycleInv'
      <4>1. overtaken' \/ binding # NoAddr
        BY <2>7 DEF KeepRebind, FreshInv, OnePceUnlessOvertaken, StoreBelongsToOnePce
      <4>2. \A q \in Procs : pc[q] # "waiting" /\ pc'[q] # "waiting"
        BY <2>7 DEF KeepRebind
      <4>3. new[p] # NoAddr
        BY <2>7 DEF KeepRebind, FreshInv
      <4> QED BY <2>7, <4>1, <4>2, <4>3 DEF KeepRebind
    <3>4. KeepInv'
      BY <2>7 DEF KeepRebind
    <3> QED BY <3>1, <3>2, <3>3, <3>4
  <2>8. CASE ClearCollected(p)
    BY <2>8 DEF ClearCollected
  <2> QED BY <1>4, <2>1, <2>2, <2>3, <2>4, <2>5, <2>6, <2>7, <2>8 DEF Page
<1>5. CASE Crash
  BY <1>5 DEF Crash
<1>6. CASE UNCHANGED vars
  BY <1>6 DEF vars
<1> QED BY <1>1, <1>2, <1>3, <1>4, <1>5, <1>6 DEF Next

\* For every instance: a store bound to another PCE than the configured one is always about to be
\* cleared or rebound by a page, or left to finish_pending_switch by a crash or FlowDbBusy.
THEOREM NoMismatchLeftBehind == Spec => []MismatchIsOwed
<1>1. Spec => [](TypeOK /\ StoreInv /\ SwitchInv)
  BY InitType, NextType, InitStore, NextStore, InitSwitch, NextSwitch, PTL DEF Spec
<1>2. SwitchInv => MismatchIsOwed
  BY DEF SwitchInv
<1> QED BY <1>1, <1>2, PTL

-----------------------------------------------------------------------------
(* A collector deletes only what a switch has left.                        *)

\* A store that stays bound while no PCE is configured is about to be cleared by a page, or was left to
\* finish_pending_switch; and a cycle that could bind it again has a page's reset before it.
LeftInv ==
    /\ saved = NoAddr /\ binding # NoAddr => interrupted \/ \E q \in Pages : pc[q] \in {"reset", "waiting"}
    /\ \A c \in Collectors : Outdated(c) /\ saved = NoAddr => ResetOwed

\* What a collector is about to delete was not the configured PCE's when it took the lock; if it is again,
\* it came by way of no PCE at all, or its own page clears it.
DeleteInv == \A c \in Collectors : pc[c] = "waiting" =>
    binding # NoAddr /\ (binding = saved => interrupted \/ ResetOwed)

KeepCurrentInv == LeftInv /\ DeleteInv

\* KeepCurrentInv holds initially.
LEMMA InitKeepCurrent == Init => KeepCurrentInv
  BY FlowStoreAssumption DEF FlowStoreAssumption, Init, KeepCurrentInv, LeftInv, DeleteInv, Outdated, Procs

\* Every step keeps KeepCurrentInv.
LEMMA NextKeepCurrent == TypeOK /\ StoreInv /\ SwitchInv /\ KeepCurrentInv /\ [Next]_vars => KeepCurrentInv'
<1> SUFFICES ASSUME TypeOK, LockInv, FreshInv, RequestInv, CycleInv, KeepInv, KeepCurrentInv, [Next]_vars
             PROVE  KeepCurrentInv'
  BY DEF StoreInv, SwitchInv
<1> USE FlowStoreAssumption DEF FlowStoreAssumption, TypeOK, LockInv, KeepCurrentInv, LeftInv, DeleteInv, Targets,
        Procs, Derived, Holding, Goto, settings, file, flowdb, readers, request, history, Outdated, ResetOwed
<1>1. ASSUME NEW r \in Readers, Opening(r) \/ Opened(r) \/ Close(r) PROVE KeepCurrentInv'
  BY <1>1 DEF Opening, Opened, Close
<1>2. ASSUME NEW p \in Procs, Reset(p) PROVE KeepCurrentInv'
  <2>1. CASE ResetBegin(p)
    <3>1. CASE ~StillWanted(p)
      BY <2>1, <3>1 DEF ResetBegin, StillWanted
    <3>2. CASE StillWanted(p)
      <4>1. /\ pc' = [pc EXCEPT ![p] = "waiting"] /\ generation' = generation + 1
            /\ UNCHANGED <<settings, file, request, new, gen, history>>
        BY <2>1, <3>2 DEF ResetBegin
      <4>2. \A c \in Collectors : ~Outdated(c)'
        BY <4>1 DEF CycleInv
      <4>3. (saved = NoAddr /\ binding # NoAddr => interrupted \/ \E q \in Pages : pc[q] \in {"reset", "waiting"})'
        BY <4>1
      <4>4. DeleteInv'
        BY <2>1, <3>2, <4>1 DEF ResetBegin, StillWanted, Mismatch
      <4> QED BY <4>2, <4>3, <4>4
    <3> QED BY <3>1, <3>2
  <2>2. CASE ResetBusy(p)
    BY <2>2 DEF ResetBusy, Mismatch
  <2>3. CASE ResetUnlink(p)
    BY <2>3 DEF ResetUnlink
  <2>4. CASE ResetEnd(p)
    BY <2>4 DEF ResetEnd
  <2>5. CASE Clearer(p)
    <3>1. PICK s \in {"idle", "note"} \cup Derived : pc' = [pc EXCEPT ![p] = s]
      BY <2>5, ClearerStep
    <3>2. pc[p] \in Derived /\ UNCHANGED <<settings, file, flowdb, readers, request, new, gen, fresh, history>>
      BY <2>5 DEF Clearer
    <3> QED BY <3>1, <3>2
  <2> QED BY <1>2, <2>1, <2>2, <2>3, <2>4, <2>5 DEF Reset
<1>3. ASSUME NEW c \in Collectors, Collect(c) PROVE KeepCurrentInv'
  <2>1. CASE FinishPendingSwitch(c)
    BY <2>1 DEF FinishPendingSwitch
  <2>2. CASE NoteGeneration(c)
    BY <2>2 DEF NoteGeneration
  <2>3. CASE SnapshotSettings(c)
    BY <2>3 DEF SnapshotSettings
  <2>4. CASE Fetch(c)
    BY <2>4 DEF Fetch
  <2>5. CASE WriteCycle(c)
    BY <2>5 DEF WriteCycle
  <2> QED BY <1>3, <2>1, <2>2, <2>3, <2>4, <2>5 DEF Collect
<1>4. ASSUME NEW p \in Pages, Page(p) PROVE KeepCurrentInv'
  <2>1. CASE LoadPage(p)
    BY <2>1 DEF LoadPage
  <2>2. ASSUME NEW a \in Targets, NEW choice \in {"keep", "clear"}, Submit(p, a, choice) PROVE KeepCurrentInv'
    BY <2>2 DEF Submit
  <2>3. CASE Save(p)
    <3>1. LeftInv'
      BY <2>3 DEF Save, RequestInv
    <3>2. DeleteInv'
      BY <2>3 DEF Save, RequestInv
    <3> QED BY <3>1, <3>2
  <2>4. CASE Verify(p)
    BY <2>4 DEF Verify
  <2>5. CASE NoteKeep(p)
    BY <2>5 DEF NoteKeep
  <2>6. CASE KeepSave(p)
    BY <2>6 DEF KeepSave, FreshInv
  <2>7. CASE KeepRebind(p)
    BY <2>7 DEF KeepRebind, KeepInv, FreshInv
  <2>8. CASE ClearCollected(p)
    BY <2>8 DEF ClearCollected
  <2> QED BY <1>4, <2>1, <2>2, <2>3, <2>4, <2>5, <2>6, <2>7, <2>8 DEF Page
<1>5. CASE Crash
  BY <1>5 DEF Crash, Mismatch
<1>6. CASE UNCHANGED vars
  BY <1>6 DEF vars
<1> QED BY <1>1, <1>2, <1>3, <1>4, <1>5, <1>6 DEF Next

\* For every instance: finish_pending_switch deletes the configured PCE's records only where a page's clearing
\* of them is owed or was left unfinished.
THEOREM CurrentDataKept == Spec => CollectorsKeepCurrentData
<1>1. Spec => [](TypeOK /\ StoreInv /\ SwitchInv /\ KeepCurrentInv)
  BY InitType, NextType, InitStore, NextStore, InitSwitch, NextSwitch, InitKeepCurrent, NextKeepCurrent, PTL DEF Spec
<1>2. KeepCurrentInv /\ [Next]_vars
        => [\A c \in Collectors : ResetUnlink(c) /\ binding = saved => interrupted \/ \E p \in Pages : pc[p] = "reset"]_vars
  BY DEF KeepCurrentInv, DeleteInv, ResetOwed, ResetUnlink
<1> QED BY <1>1, <1>2, PTL DEF Spec, CollectorsKeepCurrentData
=============================================================================
