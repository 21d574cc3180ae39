----------------------------- MODULE SiemSwitch -----------------------------
(***************************************************************************)
(* The SIEM run over several destinations, against what changes under it:  *)
(* a PCE switch or a clearing of the collected data (the flow database is  *)
(* deleted and its record ids start again at 1, the cursors are restarted  *)
(* in the other database), and the SIEM page, which places and forgets     *)
(* cursors.  Every send works here: failed sends, the DLQ and retention    *)
(* are in SiemForward, the reset's own steps in FlowStore.  The theorem is *)
(* at the end.                                                             *)
(***************************************************************************)
EXTENDS Integers, FiniteSets, TLAPS

CONSTANTS
    Dests,          \* destinations, each with one source in the flow database
    Pces,           \* PCE addresses
    None,           \* no PCE (an unbound file), no destination
    BatchSize,      \* dest.batch_size
    MaxRecords,     \* bound: records per flow database
    MaxSwitches,    \* bound: saves of another PCE
    MaxClears,      \* bound: uses of "clear collected data"
    MaxSaves        \* bound: saves of the SIEM page

ASSUME SiemSwitchAssumption ==
    /\ None \notin Dests \cup Pces
    /\ BatchSize \in Nat \ {0} /\ MaxRecords \in Nat
    /\ MaxSwitches \in Nat /\ MaxClears \in Nat /\ MaxSaves \in Nat

VARIABLES
    pce,        \* settings.pce
    takes,      \* settings.siem: the enabled destinations (none: SIEM is off)
    epoch,      \* how often the file was made again; FlowDb.generation moves with it
    bound,      \* the PCE whose records the file holds, None before the first
    newest,     \* the highest record id in the file
    cursor,     \* siem_cursor: per destination its PCE and last id, absent when forgotten
    run,        \* the SIEM run: its step, settings snapshot and what it holds
    switch,     \* the reset: "idle", "reset" or "restart"
    page,       \* the SIEM page's save: its step, settings snapshot and what it holds
    said,       \* (history) <<epoch, id, destination, PCE it was said to come from>>
    past,       \* (history) per destination the records stored when its place was chosen
    overtaken,  \* (history) a cursor was written by what was no longer so
    switches, clears, saves   \* (bounds)

vars == <<pce, takes, epoch, bound, newest, cursor, run, switch, page, said, past, overtaken,
          switches, clears, saves>>

store == <<epoch, bound, newest>>
history == <<said, past, overtaken>>
bounds == <<switches, clears, saves>>

Absent == [pce |-> None, last |-> 0]
NoCursors == [d \in Dests |-> Absent]
IdleRun == [step |-> "idle", pce |-> None, todo |-> {}, gen |-> 0, dest |-> None, have |-> NoCursors,
            last |-> 0, upto |-> 0, epoch |-> 0]
IdlePage == [step |-> "idle", pce |-> None, takes |-> {}, todo |-> {}, dest |-> None, have |-> NoCursors,
             last |-> 0, epoch |-> 0]

\* The service runs with a PCE, an empty or earlier file, and the destinations' cursors placed.
Init ==
    /\ pce \in Pces /\ takes \in SUBSET Dests
    /\ epoch = 0 /\ newest = 0 /\ bound = None
    /\ cursor = [d \in Dests |-> IF d \in takes THEN [pce |-> pce, last |-> 0] ELSE Absent]
    /\ run = IdleRun /\ switch = "idle" /\ page = IdlePage
    /\ said = {} /\ past = [d \in Dests |-> {}] /\ overtaken = FALSE
    /\ switches = 0 /\ clears = 0 /\ saves = 0

\* A collector stores a record of the PCE the file is bound to; an unbound file is bound first, by
\* a cycle with the settings as they are (cycles with older ones are FlowStore's).
Collect ==
    /\ newest < MaxRecords
    /\ newest' = newest + 1
    /\ bound' = IF bound = None THEN pce ELSE bound
    /\ UNCHANGED <<pce, takes, epoch, cursor, run, switch, page, history, bounds>>

-----------------------------------------------------------------------------
(* run_siem.                                                               *)

\* The settings are read ...
RunBegin ==
    /\ run.step = "idle" /\ takes # {}
    /\ run' = [IdleRun EXCEPT !.step = "note", !.pce = pce, !.todo = takes]
    /\ UNCHANGED <<pce, takes, store, cursor, switch, page, history, bounds>>

\* ... and then the generation "noted with the settings snapshot".
RunNote ==
    /\ run.step = "note"
    /\ run' = [run EXCEPT !.step = "next", !.gen = epoch]
    /\ UNCHANGED <<pce, takes, store, cursor, switch, page, history, bounds>>

\* The next destination's cursor: its place, or a new one for a cursor that is absent or counts
\* another PCE's ids.  A destination that was switched away from does not end the run.
RunNext ==
    /\ run.step = "next"
    /\ \/ run.todo = {} /\ run' = IdleRun
       \/ \E d \in run.todo :
            run' = [run EXCEPT !.todo = run.todo \ {d}, !.dest = d, !.have[d] = cursor[d],
                               !.last = cursor[d].last,
                               !.step = IF cursor[d].pce = run.pce THEN "read" ELSE "newest"]
    /\ UNCHANGED <<pce, takes, store, cursor, switch, page, history, bounds>>

\* What is stored now is history to a destination that starts here.
Past(d) == [past EXCEPT ![d] = past[d] \cup {<<epoch, i>> : i \in 1 .. newest}]

\* newest_id, on a connection of its own.  Only for a new destination is what is stored history.
RunNewest ==
    /\ run.step = "newest"
    /\ run' = [run EXCEPT !.step = "start", !.last = newest, !.epoch = epoch]
    /\ past' = IF run.have[run.dest] = Absent THEN Past(run.dest) ELSE past
    /\ UNCHANGED <<pce, takes, store, cursor, switch, page, said, overtaken, bounds>>

\* The settings, the file or the cursor that w goes by are not what they were when w read them.
Overtaken(w) == w.pce # pce \/ w.epoch # epoch \/ w.have[w.dest] # cursor[w.dest]

\* Mutation of StartCursor: one record too far.
StartCursorAfter(w) == cursor' = [cursor EXCEPT ![w.dest] = [pce |-> w.pce, last |-> w.last + 1]]

\* start_cursor: what is stored is not sent.
StartCursor(w) == cursor' = [cursor EXCEPT ![w.dest] = [pce |-> w.pce, last |-> w.last]]

RunStart ==
    /\ run.step = "start"
    /\ StartCursor(run)
    /\ run' = [run EXCEPT !.step = "next"]
    /\ overtaken' = IF Overtaken(run) THEN TRUE ELSE overtaken
    /\ UNCHANGED <<pce, takes, store, switch, page, said, past, bounds>>

\* The batch after the place, on a connection of its own.
RunRead ==
    /\ run.step = "read"
    /\ run' = IF newest <= run.last THEN [run EXCEPT !.step = "next"]
              ELSE [run EXCEPT !.step = "check", !.epoch = epoch,
                               !.upto = IF newest - run.last > BatchSize THEN run.last + BatchSize ELSE newest]
    /\ UNCHANGED <<pce, takes, store, cursor, switch, page, history, bounds>>

\* A moved generation ends this destination's turn; otherwise the batch goes out as the run's PCE.
RunSend ==
    /\ run.step = "check"
    /\ IF run.gen # epoch
       THEN run' = [run EXCEPT !.step = "next"] /\ UNCHANGED said
       ELSE /\ said' = said \cup {<<run.epoch, i, run.dest, run.pce>> : i \in run.last + 1 .. run.upto}
            /\ run' = [run EXCEPT !.step = "advance"]
    /\ UNCHANGED <<pce, takes, store, cursor, switch, page, past, overtaken, bounds>>

\* store.advance: nothing when the cursor is gone or belongs to another PCE by now, which ends
\* this destination's turn; otherwise it moves forward and the next batch is read.
RunAdvance ==
    /\ run.step = "advance"
    /\ LET own == cursor[run.dest].pce = run.pce IN
       /\ cursor' = IF own /\ cursor[run.dest].last < run.upto
                    THEN [cursor EXCEPT ![run.dest].last = run.upto] ELSE cursor
       /\ overtaken' = IF own /\ Overtaken(run) THEN TRUE ELSE overtaken
       /\ run' = IF own THEN [run EXCEPT !.step = "read", !.last = run.upto, !.have = cursor']
                 ELSE [run EXCEPT !.step = "next"]
    /\ UNCHANGED <<pce, takes, store, switch, page, said, past, bounds>>

-----------------------------------------------------------------------------
(* A PCE switch and "clear collected data".                                *)

SwitchPce(q) ==
    /\ switch = "idle" /\ q # pce /\ switches < MaxSwitches
    /\ pce' = q /\ switches' = switches + 1
    /\ switch' = "reset"
    /\ UNCHANGED <<takes, store, cursor, run, page, history, clears, saves>>

ClearCollected ==
    /\ switch = "idle" /\ clears < MaxClears
    /\ clears' = clears + 1
    /\ switch' = "reset"
    /\ UNCHANGED <<pce, takes, store, cursor, run, page, history, switches, saves>>

\* FlowDb.reset: the generation moves on and the file is made again, its ids from 1.
ResetFile ==
    /\ switch = "reset"
    /\ epoch' = epoch + 1 /\ newest' = 0 /\ bound' = None
    /\ switch' = "restart"
    /\ UNCHANGED <<pce, takes, cursor, run, page, history, bounds>>

\* Mutation of RestartCursors: a place before the first id.
RestartBeforeFirst ==
    /\ switch = "restart"
    /\ cursor' = [d \in Dests |-> IF cursor[d] = Absent THEN Absent ELSE [pce |-> pce, last |-> -1]]
    /\ switch' = "idle"
    /\ UNCHANGED <<pce, takes, store, run, page, history, bounds>>

\* restart_flow_cursors, for the PCE the settings name now.
RestartCursors ==
    /\ switch = "restart"
    /\ cursor' = [d \in Dests |-> IF cursor[d] = Absent THEN Absent ELSE [pce |-> pce, last |-> 0]]
    /\ switch' = "idle"
    /\ UNCHANGED <<pce, takes, store, run, page, history, bounds>>

-----------------------------------------------------------------------------
(* The SIEM page: the settings are saved, then place_new_cursors.          *)

SaveSiem(s) ==
    /\ page.step = "idle" /\ saves < MaxSaves
    /\ takes' = s /\ saves' = saves + 1
    /\ page' = [IdlePage EXCEPT !.step = "settings"]
    /\ UNCHANGED <<pce, store, cursor, run, switch, history, switches, clears>>

\* Its settings snapshot and the cursors there are.
PageHave ==
    /\ page.step = "settings"
    /\ LET lacking == {d \in takes : cursor[d].pce # pce} IN
       page' = [page EXCEPT !.step = "next", !.pce = pce, !.takes = takes, !.todo = lacking, !.have = cursor]
    /\ UNCHANGED <<pce, takes, store, cursor, run, switch, history, bounds>>

\* A destination without a cursor for this PCE: what is stored now is history to it.
PageNewest(d) ==
    /\ page.step = "next" /\ d \in page.todo
    /\ page' = [page EXCEPT !.step = "start", !.todo = page.todo \ {d}, !.dest = d,
                            !.last = newest, !.epoch = epoch]
    /\ past' = Past(d)
    /\ UNCHANGED <<pce, takes, store, cursor, run, switch, said, overtaken, bounds>>

PageStart ==
    /\ page.step = "start"
    /\ StartCursor(page)
    /\ page' = [page EXCEPT !.step = "next"]
    /\ overtaken' = IF Overtaken(page) THEN TRUE ELSE overtaken
    /\ UNCHANGED <<pce, takes, store, run, switch, said, past, bounds>>

\* forget_destination for every cursor it found whose destination is not taken any more.
PageForget ==
    /\ page.step = "next" /\ page.todo = {}
    /\ cursor' = [d \in Dests |-> IF d \notin page.takes /\ page.have[d] # Absent THEN Absent ELSE cursor[d]]
    /\ page' = IdlePage
    /\ UNCHANGED <<pce, takes, store, run, switch, history, bounds>>

Run == RunBegin \/ RunNote \/ RunNext \/ RunNewest \/ RunStart \/ RunRead \/ RunSend \/ RunAdvance

SiemPage ==
    \/ \E s \in SUBSET Dests : SaveSiem(s)
    \/ PageHave \/ PageStart \/ PageForget
    \/ \E d \in Dests : PageNewest(d)

Next ==
    \/ Collect \/ Run
    \/ \E q \in Pces : SwitchPce(q)
    \/ ClearCollected \/ ResetFile \/ RestartCursors
    \/ SiemPage

Spec == Init /\ [][Next]_vars

-----------------------------------------------------------------------------
(* What makes it correct.                                                  *)

\* What a cursor, a run and a page hold.
CursorType == [pce : Pces \cup {None}, last : Nat]
RunType == [step : {"idle", "note", "next", "newest", "start", "read", "check", "advance"},
            pce : Pces \cup {None}, todo : SUBSET Dests, gen : Nat, dest : Dests \cup {None},
            have : [Dests -> CursorType], last : Nat, upto : Nat, epoch : Nat]
PageType == [step : {"idle", "settings", "next", "start"}, pce : Pces \cup {None}, takes : SUBSET Dests,
             todo : SUBSET Dests, dest : Dests \cup {None}, have : [Dests -> CursorType], last : Nat, epoch : Nat]

\* The types of the tables, the settings and what the run and the page hold.
TypeOK ==
    /\ pce \in Pces /\ takes \subseteq Dests
    /\ epoch \in Nat /\ bound \in Pces \cup {None} /\ newest \in Nat
    /\ cursor \in [Dests -> CursorType] /\ run \in RunType /\ page \in PageType
    /\ switch \in {"idle", "reset", "restart"}
    /\ overtaken \in BOOLEAN
    /\ switches \in Nat /\ clears \in Nat /\ saves \in Nat

\* "At least once", "nothing stored after it is skipped", "what is collected for it before the
\* next SIEM run is sent": when nothing is being reset, a record of the file that a destination's
\* cursor has passed was sent to it, or was stored when the SIEM page chose its place.
NothingSkipped ==
    switch = "idle" =>
        \A d \in takes : cursor[d].pce = pce =>
            \A i \in 1 .. newest : i <= cursor[d].last =>
                <<epoch, i>> \in past[d] \/ \E q \in Pces : <<epoch, i, d, q>> \in said

\* The same, with the one way it fails named: a cursor written by a run or a page that goes by
\* settings, a file or a cursor that a reset, or the other of the two, had replaced by then.
SkipsOnlyWhenOvertaken == TypeOK /\ (overtaken \/ NothingSkipped)

-----------------------------------------------------------------------------
(* Why nothing is skipped.                                                 *)

\* A record of the file that was sent to a destination, or is history to it.
Accounted(d, i) == <<epoch, i>> \in past[d] \/ \E q \in Pces : <<epoch, i, d, q>> \in said

\* A run and a page that are past their choice work on a destination, and on a file that was made no later than
\* the one there is.
WriterInv ==
    /\ past \in [Dests -> SUBSET (Nat \X Nat)]
    /\ run.step \notin {"idle", "note", "next"} => run.dest \in Dests
    /\ page.step = "start" => page.dest \in Dests
    /\ run.epoch <= epoch /\ page.epoch <= epoch

\* A place that is about to be given is not after the newest record, and what is before it was stored when it was
\* chosen; the run gives one only to a destination whose cursor it found absent or another PCE's.
PlaceInv ==
    /\ run.step = "start" /\ run.epoch = epoch =>
          /\ run.last <= newest
          /\ run.have[run.dest] = Absent => \A i \in 1 .. run.last : <<epoch, i>> \in past[run.dest]
    /\ run.step \in {"newest", "start"} => run.have[run.dest].pce # run.pce
    /\ page.step = "start" /\ page.epoch = epoch =>
          page.last <= newest /\ \A i \in 1 .. page.last : <<epoch, i>> \in past[page.dest]

\* A batch begins no later than the place the run found, is stored, and was sent before the cursor moves over it.
BatchInv ==
    /\ run.step \in {"read", "check", "advance"} => run.last <= run.have[run.dest].last
    /\ run.step \in {"check", "advance"} /\ run.epoch = epoch => run.upto <= newest
    /\ run.step = "advance" =>
          \A i \in run.last + 1 .. run.upto : <<run.epoch, i, run.dest, run.pce>> \in said

\* Between resets a cursor is absent or the configured PCE's, and every record before it is accounted for.
CursorInv ==
    switch = "idle" /\ ~overtaken =>
        \A d \in Dests :
            /\ cursor[d] = Absent \/ cursor[d].pce = pce
            /\ cursor[d].last <= newest
            /\ \A i \in 1 .. cursor[d].last : Accounted(d, i)

\* The inductive invariant.
SkipInv == TypeOK /\ WriterInv /\ PlaceInv /\ BatchInv /\ CursorInv

\* A run and a page that have just begun have the types of one.
LEMMA IdleTypes ==
    /\ IdleRun \in RunType /\ IdleRun.step = "idle" /\ IdleRun.epoch = 0
    /\ IdlePage \in PageType /\ IdlePage.step = "idle" /\ IdlePage.epoch = 0
    /\ [IdlePage EXCEPT !.step = "settings"] \in PageType
<1>1. NoCursors \in [Dests -> CursorType]
  BY DEF NoCursors, Absent, CursorType
<1>2. IdleRun \in RunType
  BY <1>1 DEF IdleRun, RunType
<1>3. IdlePage \in PageType /\ [IdlePage EXCEPT !.step = "settings"] \in PageType
  BY <1>1 DEF IdlePage, PageType
<1> QED BY <1>2, <1>3 DEF IdleRun, IdlePage

\* What is stored when a place is chosen is a set of records.
LEMMA PastType ==
    ASSUME past \in [Dests -> SUBSET (Nat \X Nat)], epoch \in Nat, newest \in Nat, NEW d \in Dests
    PROVE  /\ Past(d) \in [Dests -> SUBSET (Nat \X Nat)]
           /\ \A e \in Dests : past[e] \subseteq Past(d)[e]
           /\ \A i \in 1 .. newest : <<epoch, i>> \in Past(d)[d]
<1>1. {<<epoch, i>> : i \in 1 .. newest} \in SUBSET (Nat \X Nat)
  OBVIOUS
<1> QED BY <1>1 DEF Past

\* SkipInv holds initially.
LEMMA InitSkip == Init => SkipInv
<1> SUFFICES ASSUME Init PROVE SkipInv
  OBVIOUS
<1>1. TypeOK
  BY IdleTypes, SiemSwitchAssumption DEF Init, TypeOK, SiemSwitchAssumption, Absent, CursorType
<1>2. WriterInv
  BY DEF Init, WriterInv, IdleRun, IdlePage
<1>3. PlaceInv /\ BatchInv
  BY DEF Init, PlaceInv, BatchInv, IdleRun, IdlePage
<1>4. CursorInv
  BY DEF Init, CursorInv, Absent
<1> QED BY <1>1, <1>2, <1>3, <1>4 DEF SkipInv

\* Every step keeps the types, and a run and a page that are past their choice on a destination.
LEMMA NextWriter == TypeOK /\ WriterInv /\ [Next]_vars => (TypeOK /\ WriterInv)'
<1> SUFFICES ASSUME TypeOK, WriterInv, [Next]_vars PROVE (TypeOK /\ WriterInv)'
  OBVIOUS
<1> USE SiemSwitchAssumption DEF SiemSwitchAssumption, TypeOK, WriterInv, RunType, PageType, CursorType, store,
        history, bounds
<1>1. CASE Collect
  BY <1>1 DEF Collect
<1>2. CASE RunBegin
  <2>1. run' \in RunType
    BY <1>2, IdleTypes DEF RunBegin
  <2> QED BY <1>2, <2>1 DEF RunBegin, IdleRun
<1>3. CASE RunNote
  BY <1>3 DEF RunNote
<1>4. CASE RunNext
  <2>1. CASE run' = IdleRun
    <3>1. UNCHANGED <<pce, takes, store, cursor, switch, page, history, bounds>>
      BY <1>4 DEF RunNext
    <3>2. run' \in RunType /\ run'.step = "idle" /\ run'.epoch = 0
      BY <2>1, IdleTypes
    <3> HIDE DEF RunType, PageType, CursorType
    <3> QED BY <3>1, <3>2
  <2>2. ASSUME NEW d \in run.todo,
               run' = [run EXCEPT !.todo = run.todo \ {d}, !.dest = d, !.have[d] = cursor[d], !.last = cursor[d].last,
                                  !.step = IF cursor[d].pce = run.pce THEN "read" ELSE "newest"]
        PROVE  (TypeOK /\ WriterInv)'
    BY <1>4, <2>2 DEF RunNext
  <2> QED BY <1>4, <2>1, <2>2 DEF RunNext
<1>5. CASE RunNewest
  <2>1. past' \in [Dests -> SUBSET (Nat \X Nat)]
    BY <1>5, PastType DEF RunNewest
  <2>2. /\ run' = [run EXCEPT !.step = "start", !.last = newest, !.epoch = epoch] /\ run.step = "newest"
        /\ UNCHANGED <<pce, takes, store, cursor, switch, page, overtaken, bounds>>
    BY <1>5 DEF RunNewest
  <2>3. run' \in RunType /\ run'.dest = run.dest /\ run'.epoch = epoch
    BY <2>2
  <2> HIDE DEF RunType, PageType, CursorType
  <2> QED BY <2>1, <2>2, <2>3
<1>6. CASE RunStart
  BY <1>6 DEF RunStart, StartCursor
<1>7. CASE RunRead
  <2>1. CASE newest <= run.last
    BY <1>7, <2>1 DEF RunRead
  <2>2. CASE newest > run.last
    <3> DEFINE u == IF newest - run.last > BatchSize THEN run.last + BatchSize ELSE newest
    <3>1. u \in Nat
      BY <2>2
    <3>2. run' = [run EXCEPT !.step = "check", !.epoch = epoch, !.upto = u] /\ run.step = "read"
      BY <1>7, <2>2 DEF RunRead
    <3>3. run' \in RunType /\ run'.dest = run.dest /\ run'.epoch = epoch
      BY <3>1, <3>2
    <3> HIDE DEF RunType, PageType, CursorType
    <3> QED BY <1>7, <3>2, <3>3 DEF RunRead
  <2> QED BY <2>1, <2>2
<1>8. CASE RunSend
  <2>1. PICK s \in {"next", "advance"} : run' = [run EXCEPT !.step = s]
    BY <1>8 DEF RunSend
  <2> QED BY <1>8, <2>1 DEF RunSend
<1>9. CASE RunAdvance
  <2>1. cursor' \in [Dests -> CursorType]
    BY <1>9 DEF RunAdvance
  <2> QED BY <1>9, <2>1 DEF RunAdvance
<1>10. ASSUME NEW q \in Pces, SwitchPce(q) PROVE (TypeOK /\ WriterInv)'
  BY <1>10 DEF SwitchPce
<1>11. CASE ClearCollected
  BY <1>11 DEF ClearCollected
<1>12. CASE ResetFile
  BY <1>12 DEF ResetFile
<1>13. CASE RestartCursors
  BY <1>13 DEF RestartCursors, Absent
<1>14. ASSUME NEW s \in SUBSET Dests, SaveSiem(s) PROVE (TypeOK /\ WriterInv)'
  <2>1. page' \in PageType
    BY <1>14, IdleTypes DEF SaveSiem
  <2>2. page'.step = "settings" /\ page'.epoch = 0
    BY <1>14, IdleTypes DEF SaveSiem, IdlePage
  <2> HIDE DEF RunType, PageType, CursorType
  <2> QED BY <1>14, <2>1, <2>2 DEF SaveSiem
<1>15. CASE PageHave
  BY <1>15 DEF PageHave
<1>16. ASSUME NEW d \in Dests, PageNewest(d) PROVE (TypeOK /\ WriterInv)'
  <2>1. past' \in [Dests -> SUBSET (Nat \X Nat)]
    BY <1>16, PastType DEF PageNewest
  <2>2. /\ page' = [page EXCEPT !.step = "start", !.todo = page.todo \ {d}, !.dest = d, !.last = newest,
                                !.epoch = epoch]
        /\ UNCHANGED <<pce, takes, store, cursor, run, switch, overtaken, bounds>>
    BY <1>16 DEF PageNewest
  <2>3. page' \in PageType /\ page'.dest = d /\ page'.epoch = epoch
    BY <2>2
  <2> HIDE DEF RunType, PageType, CursorType
  <2> QED BY <2>1, <2>2, <2>3
<1>17. CASE PageStart
  BY <1>17 DEF PageStart, StartCursor
<1>18. CASE PageForget
  <2>1. cursor' \in [Dests -> CursorType]
    BY <1>18 DEF PageForget, Absent
  <2> QED BY <1>18, <2>1, IdleTypes DEF PageForget, IdlePage
<1>19. CASE UNCHANGED vars
  BY <1>19 DEF vars
<1> QED
  BY <1>1, <1>2, <1>3, <1>4, <1>5, <1>6, <1>7, <1>8, <1>9, <1>10, <1>11, <1>12, <1>13, <1>14, <1>15, <1>16, <1>17,
     <1>18, <1>19 DEF Next, Run, SiemPage

\* Every step keeps what a place and a batch go by.
LEMMA NextPlace ==
    TypeOK /\ WriterInv /\ PlaceInv /\ BatchInv /\ [Next]_vars => PlaceInv' /\ BatchInv'
<1> SUFFICES ASSUME TypeOK, WriterInv, PlaceInv, BatchInv, [Next]_vars PROVE PlaceInv' /\ BatchInv'
  OBVIOUS
<1> USE SiemSwitchAssumption DEF SiemSwitchAssumption, TypeOK, WriterInv, RunType, PageType, CursorType, PlaceInv,
        BatchInv, store, history, bounds
<1>1. CASE Collect
  BY <1>1 DEF Collect
<1>2. CASE RunBegin
  BY <1>2 DEF RunBegin, IdleRun
<1>3. CASE RunNote
  BY <1>3 DEF RunNote
<1>4. CASE RunNext
  <2>1. CASE run' = IdleRun
    BY <1>4, <2>1 DEF RunNext, IdleRun
  <2>2. ASSUME NEW d \in run.todo,
               run' = [run EXCEPT !.todo = run.todo \ {d}, !.dest = d, !.have[d] = cursor[d], !.last = cursor[d].last,
                                  !.step = IF cursor[d].pce = run.pce THEN "read" ELSE "newest"]
        PROVE  PlaceInv' /\ BatchInv'
    <3>1. /\ run'.dest = d /\ run'.last = cursor[d].last /\ run'.have[d] = cursor[d] /\ run'.pce = run.pce
          /\ run'.step = IF cursor[d].pce = run.pce THEN "read" ELSE "newest"
      BY <2>2
    <3>2. run'.last <= run'.have[run'.dest].last
      BY <3>1
    <3>3. run'.step = "newest" => run'.have[run'.dest].pce # run'.pce
      BY <3>1
    <3>4. run'.step \in {"read", "newest"} /\ UNCHANGED <<store, page, past>>
      BY <1>4, <3>1 DEF RunNext
    <3> QED BY <3>2, <3>3, <3>4
  <2> QED BY <1>4, <2>1, <2>2 DEF RunNext
<1>5. CASE RunNewest
  <2>1. /\ \A e \in Dests : past[e] \subseteq past'[e]
        /\ run.have[run.dest] = Absent => \A i \in 1 .. newest : <<epoch, i>> \in past'[run.dest]
    BY <1>5, PastType DEF RunNewest
  <2>2. run' = [run EXCEPT !.step = "start", !.last = newest, !.epoch = epoch] /\ run.step = "newest"
    BY <1>5 DEF RunNewest
  <2> QED BY <1>5, <2>1, <2>2 DEF RunNewest
<1>6. CASE RunStart
  BY <1>6 DEF RunStart
<1>7. CASE RunRead
  <2>1. CASE newest <= run.last
    BY <1>7, <2>1 DEF RunRead
  <2>2. CASE newest > run.last
    <3> DEFINE u == IF newest - run.last > BatchSize THEN run.last + BatchSize ELSE newest
    <3>1. u \in Nat /\ u <= newest
      BY <2>2
    <3>2. run' = [run EXCEPT !.step = "check", !.epoch = epoch, !.upto = u] /\ run.step = "read"
      BY <1>7, <2>2 DEF RunRead
    <3> HIDE DEF u
    <3> QED BY <1>7, <3>1, <3>2 DEF RunRead
  <2> QED BY <2>1, <2>2
<1>8. CASE RunSend
  <2>1. CASE run.gen # epoch
    BY <1>8, <2>1 DEF RunSend
  <2>2. CASE run.gen = epoch
    <3>1. run' = [run EXCEPT !.step = "advance"] /\ run.step = "check"
      BY <1>8, <2>2 DEF RunSend
    <3>2. \A i \in run.last + 1 .. run.upto : <<run.epoch, i, run.dest, run.pce>> \in said'
      BY <1>8, <2>2 DEF RunSend
    <3> QED BY <1>8, <3>1, <3>2 DEF RunSend
  <2> QED BY <2>1, <2>2
<1>9. CASE RunAdvance
  <2>1. CASE cursor[run.dest].pce = run.pce
    <3>1. cursor'[run.dest].last >= run.upto
      BY <1>9, <2>1 DEF RunAdvance
    <3>2. run' = [run EXCEPT !.step = "read", !.last = run.upto, !.have = cursor'] /\ run.step = "advance"
      BY <1>9, <2>1 DEF RunAdvance
    <3> QED BY <1>9, <3>1, <3>2 DEF RunAdvance
  <2>2. CASE cursor[run.dest].pce # run.pce
    BY <1>9, <2>2 DEF RunAdvance
  <2> QED BY <2>1, <2>2
<1>10. ASSUME NEW q \in Pces, SwitchPce(q) PROVE PlaceInv' /\ BatchInv'
  BY <1>10 DEF SwitchPce
<1>11. CASE ClearCollected
  BY <1>11 DEF ClearCollected
<1>12. CASE ResetFile
  BY <1>12 DEF ResetFile
<1>13. CASE RestartCursors
  BY <1>13 DEF RestartCursors
<1>14. ASSUME NEW s \in SUBSET Dests, SaveSiem(s) PROVE PlaceInv' /\ BatchInv'
  BY <1>14 DEF SaveSiem, IdlePage
<1>15. CASE PageHave
  BY <1>15 DEF PageHave
<1>16. ASSUME NEW d \in Dests, PageNewest(d) PROVE PlaceInv' /\ BatchInv'
  <2>1. /\ \A e \in Dests : past[e] \subseteq past'[e]
        /\ \A i \in 1 .. newest : <<epoch, i>> \in past'[d]
    BY <1>16, PastType DEF PageNewest
  <2> QED BY <1>16, <2>1 DEF PageNewest
<1>17. CASE PageStart
  BY <1>17 DEF PageStart
<1>18. CASE PageForget
  BY <1>18 DEF PageForget, IdlePage
<1>19. CASE UNCHANGED vars
  BY <1>19 DEF vars
<1> QED
  BY <1>1, <1>2, <1>3, <1>4, <1>5, <1>6, <1>7, <1>8, <1>9, <1>10, <1>11, <1>12, <1>13, <1>14, <1>15, <1>16, <1>17,
     <1>18, <1>19 DEF Next, Run, SiemPage

\* Between resets, every step keeps the records before a cursor accounted for.
LEMMA NextCursor ==
    TypeOK /\ WriterInv /\ PlaceInv /\ BatchInv /\ CursorInv /\ [Next]_vars => CursorInv'
<1> DEFINE Goal == \A d \in Dests :
              /\ cursor'[d] = Absent \/ cursor'[d].pce = pce'
              /\ cursor'[d].last <= newest'
              /\ \A i \in 1 .. cursor'[d].last : Accounted(d, i)'
<1> SUFFICES ASSUME TypeOK, WriterInv, PlaceInv, BatchInv, CursorInv, [Next]_vars, switch' = "idle", ~overtaken'
             PROVE  Goal
  BY DEF CursorInv
<1> USE SiemSwitchAssumption DEF SiemSwitchAssumption, store, history, bounds
\* A step that leaves the cursors, the PCE and the file alone, and takes nothing out of past and said.
<1>1. ASSUME UNCHANGED <<pce, cursor, epoch, switch, overtaken>>, newest' \in Nat, newest <= newest',
             \A d \in Dests : past[d] \subseteq past'[d], said \subseteq said'
      PROVE  Goal
  BY <1>1 DEF CursorInv, Accounted, TypeOK, CursorType
\* A step that gives one destination a place.
<1>2. ASSUME NEW d \in Dests, NEW l \in Nat, cursor' = [cursor EXCEPT ![d] = [pce |-> pce, last |-> l]],
             l <= newest, \A i \in 1 .. l : Accounted(d, i), UNCHANGED <<pce, store, switch, past, said>>, ~overtaken
      PROVE  Goal
  BY <1>2 DEF CursorInv, Accounted, TypeOK, CursorType
<1>3. CASE Collect
  BY <1>1, <1>3 DEF Collect, TypeOK
<1>4. CASE RunBegin \/ RunNote \/ RunNext \/ RunRead
  <2>1. UNCHANGED <<pce, cursor, store, switch, history>>
    BY <1>4 DEF RunBegin, RunNote, RunNext, RunRead
  <2> QED BY <1>1, <2>1 DEF TypeOK
<1>5. CASE RunNewest
  <2>1. run.dest \in Dests /\ past \in [Dests -> SUBSET (Nat \X Nat)]
    BY <1>5 DEF WriterInv, RunNewest
  <2>2. \A d \in Dests : past[d] \subseteq past'[d]
    BY <1>5, <2>1, PastType DEF RunNewest, TypeOK
  <2> QED BY <1>1, <1>5, <2>2 DEF RunNewest, TypeOK
<1>6. CASE RunStart
  <2>1. ~overtaken /\ run.pce = pce /\ run.epoch = epoch /\ run.have[run.dest] = cursor[run.dest]
    BY <1>6 DEF RunStart, Overtaken, TypeOK
  <2>2. run.dest \in Dests /\ run.last \in Nat /\ switch = "idle"
    BY <1>6 DEF RunStart, WriterInv, TypeOK, RunType
  <2>3. cursor[run.dest] = Absent
    BY <1>6, <2>1, <2>2 DEF RunStart, PlaceInv, CursorInv
  <2>4. run.last <= newest /\ \A i \in 1 .. run.last : Accounted(run.dest, i)
    BY <1>6, <2>1, <2>3 DEF RunStart, PlaceInv, Accounted
  <2>5. cursor' = [cursor EXCEPT ![run.dest] = [pce |-> pce, last |-> run.last]]
    BY <1>6, <2>1 DEF RunStart, StartCursor
  <2> QED BY <1>2, <1>6, <2>1, <2>2, <2>4, <2>5 DEF RunStart
<1>7. CASE RunSend
  <2>1. said \subseteq said'
    BY <1>7 DEF RunSend
  <2> QED BY <1>1, <1>7, <2>1 DEF RunSend, TypeOK
<1>8. CASE RunAdvance
  <2> DEFINE d == run.dest
  <2>1. d \in Dests /\ run.upto \in Nat /\ run.last \in Nat /\ switch = "idle"
    BY <1>8 DEF RunAdvance, WriterInv, TypeOK, RunType
  <2>2. CASE cursor[d].pce = run.pce /\ cursor[d].last < run.upto
    <3>1. ~overtaken /\ run.pce = pce /\ run.epoch = epoch /\ run.have[d] = cursor[d]
      BY <1>8, <2>2 DEF RunAdvance, Overtaken, TypeOK
    <3>2. cursor' = [cursor EXCEPT ![d] = [pce |-> pce, last |-> run.upto]]
      <4>1. [cursor[d] EXCEPT !.last = run.upto] = [pce |-> pce, last |-> run.upto]
        BY <2>1, <2>2, <3>1 DEF TypeOK, CursorType
      <4>2. cursor' = [cursor EXCEPT ![d] = [cursor[d] EXCEPT !.last = run.upto]]
        BY <1>8, <2>2 DEF RunAdvance
      <4> HIDE DEF d
      <4> QED BY <4>1, <4>2
    <3>3. run.upto <= newest
      BY <1>8, <3>1 DEF RunAdvance, BatchInv
    <3>4. ASSUME NEW i \in 1 .. run.upto PROVE Accounted(d, i)
      <4>1. CASE i <= run.last
        <5>1. i \in 1 .. cursor[d].last
          BY <1>8, <2>1, <3>1, <4>1 DEF RunAdvance, BatchInv, TypeOK, CursorType
        <5> QED BY <2>1, <3>1, <5>1 DEF CursorInv
      <4>2. CASE i > run.last
        <5>1. <<epoch, i, d, pce>> \in said
          BY <1>8, <2>1, <3>1, <4>2 DEF RunAdvance, BatchInv
        <5> QED BY <5>1 DEF Accounted, TypeOK
      <4> QED BY <2>1, <4>1, <4>2
    <3> QED BY <1>2, <1>8, <2>1, <3>1, <3>2, <3>3, <3>4 DEF RunAdvance
  <2>3. CASE ~(cursor[d].pce = run.pce /\ cursor[d].last < run.upto)
    <3>1. UNCHANGED <<pce, cursor, store, switch, past, said>>
      BY <1>8, <2>3 DEF RunAdvance
    <3>2. overtaken' = overtaken
      BY <1>8 DEF RunAdvance
    <3> QED BY <1>1, <3>1, <3>2 DEF TypeOK
  <2> QED BY <2>2, <2>3
<1>9. ASSUME NEW q \in Pces PROVE ~SwitchPce(q)
  BY DEF SwitchPce
<1>10. CASE RestartCursors
  BY <1>10 DEF RestartCursors, TypeOK, Absent
<1>11. ASSUME NEW s \in SUBSET Dests, SaveSiem(s) PROVE Goal
  BY <1>1, <1>11 DEF SaveSiem, TypeOK
<1>12. ASSUME NEW d \in Dests, PageNewest(d) PROVE Goal
  <2>1. \A e \in Dests : past[e] \subseteq past'[e]
    BY <1>12, PastType DEF PageNewest, WriterInv, TypeOK
  <2> QED BY <1>1, <1>12, <2>1 DEF PageNewest, TypeOK
<1>13. CASE PageStart
  <2>1. ~overtaken /\ page.pce = pce /\ page.epoch = epoch
    BY <1>13 DEF PageStart, Overtaken, TypeOK
  <2>2. page.dest \in Dests /\ page.last \in Nat
    BY <1>13 DEF PageStart, WriterInv, TypeOK, PageType
  <2>3. page.last <= newest /\ \A i \in 1 .. page.last : Accounted(page.dest, i)
    BY <1>13, <2>1 DEF PageStart, PlaceInv, Accounted
  <2>4. cursor' = [cursor EXCEPT ![page.dest] = [pce |-> pce, last |-> page.last]]
    BY <1>13, <2>1 DEF PageStart, StartCursor
  <2> QED BY <1>2, <1>13, <2>1, <2>2, <2>3, <2>4 DEF PageStart
<1>14. CASE PageForget
  <2>1. \A d \in Dests : cursor'[d] \in {cursor[d], Absent}
    BY <1>14 DEF PageForget
  <2>2. UNCHANGED <<pce, store, switch, past, said, overtaken>>
    BY <1>14 DEF PageForget
  <2> QED BY <2>1, <2>2 DEF CursorInv, Accounted, TypeOK, Absent
<1>15. CASE PageHave
  BY <1>1, <1>15 DEF PageHave, TypeOK
<1>16. CASE UNCHANGED vars
  BY <1>1, <1>16 DEF vars, TypeOK
<1>17. CASE ClearCollected \/ ResetFile
  BY <1>17 DEF ClearCollected, ResetFile
<1> HIDE DEF Goal
<1> QED
  BY <1>3, <1>4, <1>5, <1>6, <1>7, <1>8, <1>9, <1>10, <1>11, <1>12, <1>13, <1>14, <1>15, <1>16, <1>17
     DEF Next, Run, SiemPage

\* For any destinations, PCEs, batch size and number of records, switches, clears and saves: between resets, a
\* record that a taken destination's cursor has passed was sent to it or is history to it, unless a cursor was
\* written by a run or a page whose settings, file or cursor were no longer so.
THEOREM NothingIsSkipped == Spec => []SkipsOnlyWhenOvertaken
<1>1. SkipInv /\ [Next]_vars => SkipInv'
  BY NextWriter, NextPlace, NextCursor DEF SkipInv
<1>2. SkipInv => SkipsOnlyWhenOvertaken
  BY DEF SkipInv, CursorInv, SkipsOnlyWhenOvertaken, NothingSkipped, Accounted, TypeOK
<1> QED BY InitSkip, <1>1, <1>2, PTL DEF Spec
=============================================================================
