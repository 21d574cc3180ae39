----------------------------- MODULE Interactive -----------------------------
(***************************************************************************)
(* Requests that read a period from the PCE while someone waits: the       *)
(* workbench (its pulled store is kept for the clicks that follow and      *)
(* shared by them), the lateral page's exposure and simulation in          *)
(* lightweight mode (the computed result is kept) and the predicted-block  *)
(* view.  One pull runs at a time; the configured PCE may change at any    *)
(* step of any of them, and its data is cleared later.                     *)
(***************************************************************************)
EXTENDS Integers, FiniteSets

CONSTANTS
    NoAnswer,
    Clicks,       \* requests, each made once
    PceNames,
    Lengths,      \* lengths of periods; a longer period covers a shorter one
    Keep,         \* KEEP
    MaxTime,      \* the last time of the model
    MaxPceSaves   \* switches of the PCE

ASSUME InteractiveAssumption ==
    /\ NoAnswer \notin PceNames /\ NoAnswer \notin Clicks /\ IsFiniteSet(Clicks)
    /\ Lengths \subseteq Nat /\ Keep \in Nat /\ MaxTime \in Nat /\ MaxPceSaves \in Nat

VARIABLES
    configured,  \* the PCE the settings name
    boundTo,     \* the PCE the flow store is bound to, NoAnswer if none
    generation,       \* FlowDb.generation
    clearing,    \* a switch was saved and its data not cleared yet
    now,
    owner,       \* who holds INTERACTIVE_PULL
    stores,      \* the throwaway stores made so far
    kept,        \* workbench_store._held: the store kept, 0 if none
    shown,       \* lateral_view._held: the result kept
    click,       \* the requests
    pceSaves

interactiveVars == <<configured, boundTo, generation, clearing, now, owner, stores, kept, shown, click, pceSaves>>
pceVars == <<configured, boundTo, generation, clearing, now, pceSaves>>

NoResult == [pce |-> NoAnswer, epoch |-> -1, of |-> NoAnswer, seed |-> NoAnswer, since |-> 0]
Asked == [step |-> "idle", kind |-> "run", pce |-> NoAnswer, epoch |-> -1, length |-> 0, clock |-> 0, store |-> 0,
          reads |-> NoAnswer, result |-> NoResult, from |-> {}, answer |-> NoAnswer]

\* A request that is over: what it was answered from.
Over(c, answer, from) == [Asked EXCEPT !.step = "done", !.kind = click[c].kind, !.answer = answer, !.from = from]
NoStore == [of |-> NoAnswer, seed |-> NoAnswer, key |-> <<NoAnswer, -1>>, length |-> 0, since |-> 0, refs |-> 0,
            retired |-> TRUE, open |-> FALSE]
Closed(f) == [stores EXCEPT ![f] = NoStore]

InteractiveInit ==
    /\ configured \in PceNames /\ boundTo = configured /\ generation = 0 /\ clearing = FALSE /\ now = 0
    /\ owner = NoAnswer /\ stores = [f \in {} |-> 0] /\ kept = 0 /\ shown = NoResult
    /\ click = [c \in Clicks |-> Asked] /\ pceSaves = 0

-----------------------------------------------------------------------------
(* The kept store of the workbench.                                        *)

\* Mutation of Retired: closed although requests read it.
RetiredAtOnce(f) == Closed(f)
\* _retire: closed when the last reader is done.
Retired(f) == IF stores[f].refs > 0 THEN [stores EXCEPT ![f].retired = TRUE] ELSE Closed(f)

Fresh(f, key, clock) == stores[f].key = key /\ clock - stores[f].since <= Keep

\* _covering: lease the kept store, retire a stale one, or neither.
Lease(c, key, length, clock, next) ==
    /\ kept # 0 /\ Fresh(kept, key, clock) /\ length <= stores[kept].length
    /\ stores' = [stores EXCEPT ![kept].refs = @ + 1]
    /\ click' = [click EXCEPT ![c] = [next EXCEPT !.step = "reading", !.store = kept]]
    /\ UNCHANGED kept
NotCovered(key, length, clock) ==
    \/ kept # 0 /\ ~Fresh(kept, key, clock) /\ stores' = Retired(kept) /\ kept' = 0
    \/ kept = 0 /\ UNCHANGED <<stores, kept>>
    \/ kept # 0 /\ Fresh(kept, key, clock) /\ length > stores[kept].length /\ UNCHANGED <<stores, kept>>

\* lease: the key is read first, then the kept store is looked at without the pull lock.
RunBegins(c) ==
    /\ click[c].step = "idle"
    /\ \E length \in Lengths :
          LET next == [click[c] EXCEPT !.kind = "run", !.pce = configured, !.epoch = generation, !.length = length, !.clock = now]
              key == <<configured, generation>>
          IN \/ Lease(c, key, length, now, next)
             \/ NotCovered(key, length, now) /\ click' = [click EXCEPT ![c] = [next EXCEPT !.step = "waiting"]]
    /\ UNCHANGED <<pceVars, owner, shown>>

\* lease, under the pull lock: another request may have pulled while this one waited.
RunHasLock(c) ==
    /\ click[c].step = "waiting" /\ click[c].kind = "run" /\ owner = NoAnswer
    /\ LET key == <<click[c].pce, click[c].epoch>>
       IN \/ Lease(c, key, click[c].length, click[c].clock, click[c]) /\ UNCHANGED owner
          \/ /\ NotCovered(key, click[c].length, click[c].clock)
             /\ click' = [click EXCEPT ![c].step = "opening"] /\ owner' = c
    /\ UNCHANGED <<pceVars, shown>>

\* Mutation of RunChecks: what was read is answered whatever is configured by now.
RunChecksNothing(c) ==
    /\ click[c].step = "reading"
    /\ click' = [click EXCEPT ![c].step = "releasing", ![c].answer = stores[click[c].store].of]
    /\ UNCHANGED <<pceVars, owner, stores, kept, shown>>
\* lease.check, called once the answer is computed.
RunChecks(c) ==
    /\ click[c].step = "reading"
    /\ LET f == click[c].store
       IN IF <<configured, generation>> = <<click[c].pce, click[c].epoch>>
          THEN /\ click' = [click EXCEPT ![c].step = "releasing", ![c].answer = stores[f].of,
                                         ![c].from = {stores[f].of, stores[f].seed} \ {NoAnswer}]
               /\ UNCHANGED <<stores, kept>>
          ELSE /\ click' = [click EXCEPT ![c].step = "releasing"]
               /\ stores' = IF stores[f].retired THEN stores ELSE Retired(f)
               /\ kept' = IF kept = f THEN 0 ELSE kept
    /\ UNCHANGED <<pceVars, owner, shown>>

\* _release
RunReleases(c) ==
    /\ click[c].step = "releasing"
    /\ LET f == click[c].store
       IN stores' = IF stores[f].retired /\ stores[f].refs = 1 THEN Closed(f) ELSE [stores EXCEPT ![f].refs = @ - 1]
    /\ click' = [click EXCEPT ![c] = Over(c, click[c].answer, click[c].from)]
    /\ UNCHANGED <<pceVars, owner, kept, shown>>

-----------------------------------------------------------------------------
(* open_period, under the pull lock.                                       *)

\* A file no store has: a place that is free.
NextStore == CHOOSE f \in 1 .. Cardinality(DOMAIN stores) + 1 : f \notin DOMAIN stores \/ ~stores[f].open

\* The settings are read again; the file is made.
OpenPeriod(c) ==
    /\ click[c].step = "opening"
    /\ click' = [click EXCEPT ![c].step = "seeding", ![c].reads = configured, ![c].store = NextStore]
    /\ stores' = [f \in DOMAIN stores \cup {NextStore} |->
                    IF f # NextStore THEN stores[f]
                    ELSE [of |-> NoAnswer, seed |-> NoAnswer, key |-> <<click[c].pce, click[c].epoch>>,
                          length |-> click[c].length, since |-> click[c].clock, refs |-> 0, retired |-> FALSE, open |-> TRUE]]
    /\ UNCHANGED <<pceVars, owner, kept, shown>>

\* Mutation of SeedRefused: the store's PCE is not compared.
SeedNeverRefused(c) == FALSE
\* require_same_pce
SeedRefused(c) == boundTo \notin {NoAnswer, click[c].reads}
\* The install's inventory is copied, if it is about the PCE that is read.
SeedPeriod(c) ==
    /\ click[c].step = "seeding"
    /\ IF SeedRefused(c)
       THEN /\ stores' = Closed(click[c].store) /\ owner' = NoAnswer
            /\ click' = [click EXCEPT ![c] = Over(c, NoAnswer, {})]
       ELSE /\ stores' = [stores EXCEPT ![click[c].store].seed = boundTo]
            /\ click' = [click EXCEPT ![c].step = "pulling"] /\ UNCHANGED owner
    /\ UNCHANGED <<pceVars, kept, shown>>

\* The windows are read from the PCE; for the workbench the store is then kept and leased.
PeriodIsRead(c) ==
    /\ click[c].step = "pulling" /\ click[c].kind # "predicted"
    /\ LET f == click[c].store
           read == [stores EXCEPT ![f].of = click[c].reads]
       IN IF click[c].kind = "run"
          THEN /\ stores' = [g \in DOMAIN stores |->
                                IF g = f THEN [read[f] EXCEPT !.refs = 1] ELSE IF g = kept THEN Retired(kept)[kept] ELSE stores[g]]
               /\ kept' = f /\ owner' = NoAnswer /\ click' = [click EXCEPT ![c].step = "reading"]
          ELSE stores' = read /\ click' = [click EXCEPT ![c].step = "computing"] /\ UNCHANGED <<kept, owner>>
    /\ UNCHANGED <<pceVars, shown>>

\* Mutation of PeriodFails: the lock is kept.
PeriodFailsLocked(c) ==
    /\ click[c].step = "pulling" /\ click' = [click EXCEPT ![c] = Over(c, NoAnswer, {})]
    /\ stores' = IF click[c].store = 0 THEN stores ELSE Closed(click[c].store)
    /\ UNCHANGED <<pceVars, owner, kept, shown>>
\* OnDemandFailed: the PCE could not answer a window.
PeriodFails(c) ==
    /\ click[c].step = "pulling"
    /\ stores' = IF click[c].store = 0 THEN stores ELSE Closed(click[c].store)
    /\ owner' = NoAnswer /\ click' = [click EXCEPT ![c] = Over(c, NoAnswer, {})]
    /\ UNCHANGED <<pceVars, kept, shown>>

-----------------------------------------------------------------------------
(* The lateral page in lightweight mode.                                   *)

Matches(result, clock) == result = NoResult \/ (<<result.pce, result.epoch>> = <<configured, generation>> /\ clock - result.since <= Keep)
BoundElsewhere == boundTo \notin {NoAnswer, configured}

\* compute: the store must be this PCE's; the key is noted before the lock is waited for.
ComputeBegins(c) ==
    /\ click[c].step = "idle" /\ ~BoundElsewhere
    /\ click' = [click EXCEPT ![c] = [Asked EXCEPT !.step = "waiting", !.kind = "compute", !.pce = configured,
                                                   !.epoch = generation, !.clock = now]]
    /\ UNCHANGED <<pceVars, owner, stores, kept, shown>>

\* simulate: on the result the page shows.
SimulateBegins(c) ==
    /\ click[c].step = "idle" /\ ~BoundElsewhere /\ shown # NoResult
    /\ IF Matches(shown, now)
       THEN /\ click' = [click EXCEPT ![c] = [Asked EXCEPT !.step = "waiting", !.kind = "simulate", !.pce = shown.pce,
                                                           !.epoch = shown.epoch, !.clock = now, !.result = shown]]
            /\ UNCHANGED shown
       ELSE click' = [click EXCEPT ![c] = Over(c, NoAnswer, {})] /\ shown' = NoResult
    /\ UNCHANGED <<pceVars, owner, stores, kept>>

ComputeHasLock(c) ==
    /\ click[c].step = "waiting" /\ click[c].kind = "compute" /\ owner = NoAnswer
    /\ owner' = c /\ click' = [click EXCEPT ![c].step = "opening"]
    /\ UNCHANGED <<pceVars, stores, kept, shown>>

\* simulate, under the lock: the result must still be the one that is shown.
SimulateHasLock(c) ==
    /\ click[c].step = "waiting" /\ click[c].kind = "simulate" /\ owner = NoAnswer
    /\ shown' = IF Matches(shown, click[c].clock) THEN shown ELSE NoResult
    /\ IF shown' = click[c].result
       THEN owner' = c /\ click' = [click EXCEPT ![c].step = "opening"]
       ELSE UNCHANGED owner /\ click' = [click EXCEPT ![c] = Over(c, NoAnswer, {})]
    /\ UNCHANGED <<pceVars, stores, kept>>

SamePce(c) == <<configured, generation>> = <<click[c].pce, click[c].epoch>>
\* The pulled store is closed when the computation ends; the key is compared before the answer is used.
ComputeEnds(c) ==
    /\ click[c].step = "computing"
    /\ LET f == click[c].store
           from == ({stores[f].of, stores[f].seed} \cup {click[c].result.of, click[c].result.seed}) \ {NoAnswer}
           computed == [pce |-> click[c].pce, epoch |-> click[c].epoch, of |-> stores[f].of, seed |-> stores[f].seed,
                        since |-> click[c].clock]
       IN /\ stores' = Closed(f)
          /\ \/ ~SamePce(c) /\ click' = [click EXCEPT ![c] = Over(c, NoAnswer, {})] /\ owner' = NoAnswer
             \/ /\ SamePce(c) /\ click[c].kind = "simulate"
                /\ click' = [click EXCEPT ![c] = Over(c, stores[f].of, from)] /\ owner' = NoAnswer
             \/ /\ SamePce(c) /\ click[c].kind = "compute"
                /\ click' = [click EXCEPT ![c].step = "storing", ![c].result = computed] /\ UNCHANGED owner
    /\ UNCHANGED <<pceVars, kept, shown>>

\* compute keeps the result under the key it noted, and the lock is let go.
ResultKept(c) ==
    /\ click[c].step = "storing"
    /\ shown' = click[c].result
    /\ owner' = NoAnswer /\ click' = [click EXCEPT ![c] = [Asked EXCEPT !.step = "viewing", !.kind = "compute"]]
    /\ UNCHANGED <<pceVars, stores, kept>>

\* Mutation of ResultStillShown: a result is shown until its time is over.
ResultStillShownFor == shown # NoResult /\ now - shown.since <= Keep
\* _current
ResultStillShown == shown # NoResult /\ Matches(shown, now)
\* view, after compute or for a page that is opened.
View(c) ==
    /\ click[c].step \in {"viewing", "idle"} /\ ~BoundElsewhere
    /\ IF ResultStillShown
       THEN /\ click' = [click EXCEPT ![c] = Over(c, shown.of, {shown.of, shown.seed} \ {NoAnswer})]
            /\ UNCHANGED shown
       ELSE click' = [click EXCEPT ![c] = Over(c, NoAnswer, {})] /\ shown' = NoResult
    /\ UNCHANGED <<pceVars, owner, stores, kept>>
\* require_same_pce in the four requests that call it: a switch whose clearing has not ended.
Refused(c) ==
    /\ click[c].step \in {"viewing", "idle"} /\ BoundElsewhere
    /\ click' = [click EXCEPT ![c] = Over(c, NoAnswer, {})]
    /\ UNCHANGED <<pceVars, owner, stores, kept, shown>>

-----------------------------------------------------------------------------
(* The predicted-block view: no store is made, the rows are not kept.      *)

PredictedBegins(c) ==
    /\ click[c].step = "idle" /\ ~BoundElsewhere
    /\ click' = [click EXCEPT ![c] = [Asked EXCEPT !.step = "waiting", !.kind = "predicted"]]
    /\ UNCHANGED <<pceVars, owner, stores, kept, shown>>

\* _recompute: the generation is noted before the settings it goes with.
PredictedHasLock(c) ==
    /\ click[c].step = "waiting" /\ click[c].kind = "predicted" /\ owner = NoAnswer
    /\ owner' = c /\ click' = [click EXCEPT ![c].step = "noted", ![c].epoch = generation]
    /\ UNCHANGED <<pceVars, stores, kept, shown>>
PredictedReadsSettings(c) ==
    /\ click[c].step = "noted"
    /\ click' = [click EXCEPT ![c].step = "pulling", ![c].reads = configured]
    /\ UNCHANGED <<pceVars, owner, stores, kept, shown>>

\* Mutation of PredictedDropped: never.
PredictedNeverDropped(c) == FALSE
\* predict_blocks: an answer from a switched-away PCE is dropped.
PredictedDropped(c) == generation # click[c].epoch
PredictedEnds(c) ==
    /\ click[c].step = "pulling" /\ click[c].kind = "predicted"
    /\ click' = [click EXCEPT ![c] = IF PredictedDropped(c) THEN Over(c, NoAnswer, {}) ELSE Over(c, click[c].reads, {click[c].reads})]
    /\ owner' = NoAnswer
    /\ UNCHANGED <<pceVars, stores, kept, shown>>

-----------------------------------------------------------------------------
(* The PCE page, the collectors and the clock.  A second switch saved      *)
(* while the data of the first is not cleared is left out.                 *)

others == <<owner, stores, kept, shown, click>>
SavePce ==
    /\ pceSaves < MaxPceSaves /\ ~clearing
    /\ configured' \in PceNames \ {configured} /\ clearing' = TRUE /\ pceSaves' = pceSaves + 1
    /\ UNCHANGED <<boundTo, generation, now, others>>
ClearForPce ==
    /\ clearing /\ clearing' = FALSE /\ generation' = generation + 1 /\ boundTo' = NoAnswer
    /\ UNCHANGED <<configured, now, pceSaves, others>>
CollectorBinds ==
    /\ boundTo = NoAnswer /\ boundTo' = configured
    /\ UNCHANGED <<configured, generation, clearing, now, pceSaves, others>>
TimePasses == now < MaxTime /\ now' = now + 1 /\ UNCHANGED <<configured, boundTo, generation, clearing, pceSaves, others>>

ClickSteps(c) ==
    \/ RunHasLock(c) \/ RunChecks(c) \/ RunReleases(c)
    \/ OpenPeriod(c) \/ SeedPeriod(c) \/ PeriodIsRead(c) \/ PeriodFails(c)
    \/ ComputeHasLock(c) \/ SimulateHasLock(c) \/ ComputeEnds(c) \/ ResultKept(c)
    \/ PredictedHasLock(c) \/ PredictedReadsSettings(c) \/ PredictedEnds(c)
    \/ click[c].step = "viewing" /\ (View(c) \/ Refused(c))
ClickBegins(c) ==
    \/ RunBegins(c) \/ ComputeBegins(c) \/ SimulateBegins(c) \/ PredictedBegins(c)
    \/ click[c].step = "idle" /\ (View(c) \/ Refused(c))

InteractiveNext ==
    \/ \E c \in Clicks : ClickBegins(c) \/ ClickSteps(c)
    \/ SavePce \/ ClearForPce \/ CollectorBinds \/ TimePasses

InteractiveSpec == InteractiveInit /\ [][InteractiveNext]_interactiveVars

-----------------------------------------------------------------------------
\* A throwaway store is open as long as a request reads it, even when it was replaced, went stale or expired
\* meanwhile (workbench_store's refs), and no longer: every open store is the kept one, has a reader, or is the
\* one the lock's owner is filling.
StoresLiveAsLongAsRead ==
    /\ \A c \in Clicks : click[c].step \in {"reading", "seeding", "pulling", "computing"} /\ click[c].store # 0 =>
          stores[click[c].store].open
    /\ \A f \in DOMAIN stores : stores[f].open =>
          f = kept \/ stores[f].refs > 0 \/ \E c \in Clicks : owner = c /\ click[c].store = f

\* The flows and the inventory an answer is made of are of one PCE.
AnswerIsOfOnePce == \A c \in Clicks : click[c].from \subseteq {click[c].answer} \/ click[c].answer = NoAnswer

\* The pull lock is held by a request that is still at work under it: no failure, refusal or switch keeps it, and
\* the others wait for it without end.
LockIsLetGo ==
    \A c \in Clicks : owner = c => click[c].step \in {"opening", "seeding", "pulling", "computing", "storing", "noted"}

PulledStoresAreSound == StoresLiveAsLongAsRead /\ AnswerIsOfOnePce /\ LockIsLetGo

\* The requests implement PceAnswers: what the workbench and the lateral page answer is of the PCE configured at
\* that moment, although it was read over many steps during which the PCE may have changed.
Answers == INSTANCE PceAnswers WITH Askers <- Clicks, PceNames <- PceNames, named <- configured,
                given <- [c \in Clicks |-> IF click[c].kind = "predicted" THEN NoAnswer ELSE click[c].answer]
AnswersAreCurrent == Answers!AnswersSpec

\* A predicted-block answer is dropped if the PCE it was read from has been switched away and cleared.
PredictedIsCurrent ==
    [][\A c \in Clicks : click[c].kind = "predicted" /\ click[c].answer = NoAnswer /\ click'[c].answer # NoAnswer =>
          click'[c].answer = configured \/ clearing]_interactiveVars
=============================================================================
