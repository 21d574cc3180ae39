-------------------------- MODULE InteractiveProofs --------------------------
(***************************************************************************)
(* Proofs about Interactive, for any requests, PCEs and lengths: what a    *)
(* request answers is of the PCE configured at that moment, the stores it  *)
(* reads stay open while it reads them, and the lock is let go.            *)
(***************************************************************************)
EXTENDS Interactive, FiniteSetTheorems, TLAPS

-----------------------------------------------------------------------------
(* The inductive invariant.                                                *)

Names == PceNames \cup {NoAnswer}
Working == {"opening", "seeding", "pulling", "computing", "storing", "noted"}
Steps == Working \cup {"idle", "waiting", "reading", "releasing", "viewing", "done"}
Kinds == {"run", "compute", "simulate", "predicted"}

Results == [pce : Names, epoch : Int, of : Names, seed : Names, since : Int]
Requests == [step : Steps, kind : Kinds, pce : Names, epoch : Int, length : Nat, clock : Nat, store : Nat,
             reads : Names, result : Results, from : SUBSET Names, answer : Names]
Files == [of : Names, seed : Names, key : Names \X Int, length : Nat, since : Nat, refs : Nat,
          retired : BOOLEAN, open : BOOLEAN]

Shape ==
    /\ configured \in PceNames /\ boundTo \in Names /\ generation \in Nat /\ clearing \in BOOLEAN /\ now \in Nat
    /\ owner \in Clicks \cup {NoAnswer}
    /\ DOMAIN stores \in SUBSET (Nat \ {0}) /\ IsFiniteSet(DOMAIN stores) /\ stores \in [DOMAIN stores -> Files]
    /\ kept \in Nat
    /\ shown \in Results
    /\ click \in [Clicks -> Requests]

\* A key that was noted: within one generation the PCE changes once at most, and then a clearing is due.
NotedOk(p, e) == e <= generation /\ (e = generation /\ p # configured => clearing)

\* What was read after the key was noted is of the PCE that is configured, while the key is current; the
\* inventory beside it is of the same PCE.
SourceOk(p, e, of, seed) ==
    /\ p = configured /\ e = generation => of = configured
    /\ seed \in {NoAnswer, of}

ResultOk(r) == NotedOk(r.pce, r.epoch) /\ SourceOk(r.pce, r.epoch, r.of, r.seed) /\ r.of \in PceNames

Reads(c) == click[c].step \in {"reading", "releasing"}
Predicts(c) == click[c].kind = "predicted" /\ click[c].step = "pulling"
Fills(c) == click[c].step \in {"seeding", "pulling", "computing"} /\ click[c].kind # "predicted"

\* What a request has noted and holds in hand.
ClickOk(c) ==
    /\ click[c].step = "idle" => click[c] = Asked
    /\ click[c].step \in {"waiting", "opening", "noted", "viewing"} \/ click[c].kind = "predicted" => click[c].store = 0
    /\ click[c].step \notin {"releasing", "done"} => click[c].answer = NoAnswer /\ click[c].from = {}
    /\ click[c].from \subseteq {click[c].answer} \/ click[c].answer = NoAnswer
    /\ Reads(c) => click[c].kind = "run"
    /\ click[c].step \in {"opening", "seeding", "computing", "storing", "viewing"} => click[c].kind # "predicted"
    /\ click[c].step \in {"computing", "storing"} => click[c].kind # "run"
    /\ click[c].step = "noted" => click[c].kind = "predicted"
    /\ click[c].kind # "predicted" => NotedOk(click[c].pce, click[c].epoch)
    /\ click[c].kind = "predicted" => click[c].epoch <= generation
    /\ Predicts(c) => NotedOk(click[c].reads, click[c].epoch)
    /\ Fills(c) => (click[c].pce = configured /\ click[c].epoch = generation => click[c].reads = configured)
    /\ Fills(c) \/ Predicts(c) => click[c].reads \in PceNames
    /\ click[c].kind = "simulate" /\ click[c].step # "done" =>
          click[c].result.pce = click[c].pce /\ click[c].result.epoch = click[c].epoch /\ ResultOk(click[c].result)
    /\ click[c].step = "storing" => ResultOk(click[c].result)

\* The store a request reads or fills is its own to use.
HoldOk(c) ==
    /\ owner = c <=> click[c].step \in Working
    /\ Reads(c) \/ Fills(c) =>
          /\ click[c].store \in DOMAIN stores /\ stores[click[c].store].open
          /\ stores[click[c].store].key = <<click[c].pce, click[c].epoch>>
    /\ Reads(c) => stores[click[c].store].of \in PceNames
    /\ Fills(c) =>
          /\ stores[click[c].store].refs = 0 /\ ~stores[click[c].store].retired /\ click[c].store # kept
          /\ click[c].step # "seeding" => stores[click[c].store].seed \in {NoAnswer, click[c].reads}
          /\ stores[click[c].store].of = IF click[c].step = "computing" THEN click[c].reads ELSE NoAnswer

Readers(f) == {c \in Clicks : Reads(c) /\ click[c].store = f}
Filled(f) == \E c \in Clicks : Fills(c) /\ click[c].store = f

\* An open store is the kept one, or retired and read, or being filled, and counts its readers.
StoreOk(f) == stores[f].open =>
    /\ NotedOk(stores[f].key[1], stores[f].key[2])
    /\ stores[f].of # NoAnswer => SourceOk(stores[f].key[1], stores[f].key[2], stores[f].of, stores[f].seed)
    /\ stores[f].refs = Cardinality(Readers(f))
    /\ f = kept \/ (stores[f].retired /\ stores[f].refs > 0) \/ Filled(f)

KeptOk == kept # 0 => kept \in DOMAIN stores /\ stores[kept].open /\ ~stores[kept].retired /\ stores[kept].of \in PceNames

IInv ==
    /\ Shape
    /\ \A c \in Clicks : ClickOk(c) /\ HoldOk(c)
    /\ \A f \in DOMAIN stores : StoreOk(f)
    /\ KeptOk
    /\ shown # NoResult => ResultOk(shown)

-----------------------------------------------------------------------------
(* Keys and the PCE that is configured.                                    *)

\* While the configured PCE and the generation stay, what was noted and read is as good as before.
LEMMA NotesStay ==
    ASSUME UNCHANGED <<configured, generation, clearing>>
    PROVE  /\ \A p, e : NotedOk(p, e)' <=> NotedOk(p, e)
           /\ \A p, e, of, seed : SourceOk(p, e, of, seed)' <=> SourceOk(p, e, of, seed)
           /\ \A r : ResultOk(r)' <=> ResultOk(r)
  BY DEF NotedOk, SourceOk, ResultOk

\* A switch, its clearing, a collector and the clock keep what was noted and read: the PCE changes once in
\* a generation.
LEMMA NotesOutlive ==
    ASSUME Shape, SavePce \/ ClearForPce \/ CollectorBinds \/ TimePasses
    PROVE  /\ \A p, e : e \in Int /\ NotedOk(p, e) => NotedOk(p, e)'
           /\ \A p, e, of, seed : e \in Int /\ NotedOk(p, e) /\ SourceOk(p, e, of, seed) => SourceOk(p, e, of, seed)'
           /\ \A p, e : e \in Int /\ NotedOk(p, e) /\ p = configured' /\ e = generation' =>
                 p = configured /\ e = generation /\ configured' = configured
  BY DEF Shape, SavePce, ClearForPce, CollectorBinds, TimePasses, NotedOk, SourceOk

\* What is noted now is current, and what is read now is of the configured PCE.
LEMMA NotedNow ==
    ASSUME Shape
    PROVE  /\ NotedOk(configured, generation)
           /\ \A p, e, seed : seed \in {NoAnswer, configured} => SourceOk(p, e, configured, seed)
  BY DEF Shape, NotedOk, SourceOk

\* The records of the model have their types.
LEMMA Records ==
    /\ NoResult \in Results
    /\ Asked \in Requests
    /\ NoStore \in Files
  BY DEF NoResult, Results, Asked, Requests, NoStore, Files, Steps, Kinds, Working, Names

\* The fields of a request and of a store.
LEMMA Fields ==
    ASSUME Shape
    PROVE  /\ \A c \in Clicks :
                /\ click[c] \in Requests /\ click[c].step \in Steps /\ click[c].kind \in Kinds /\ click[c].pce \in Names
                /\ click[c].epoch \in Int /\ click[c].length \in Nat /\ click[c].clock \in Nat /\ click[c].store \in Nat
                /\ click[c].reads \in Names /\ click[c].result \in Results /\ click[c].from \in SUBSET Names
                /\ click[c].answer \in Names
           /\ \A f \in DOMAIN stores :
                /\ stores[f] \in Files /\ stores[f].of \in Names /\ stores[f].seed \in Names
                /\ stores[f].key \in Names \X Int /\ stores[f].length \in Nat /\ stores[f].since \in Nat
                /\ stores[f].refs \in Nat /\ stores[f].retired \in BOOLEAN /\ stores[f].open \in BOOLEAN
<1>1. ASSUME NEW r \in Requests
      PROVE  /\ r.step \in Steps /\ r.kind \in Kinds /\ r.pce \in Names /\ r.epoch \in Int /\ r.length \in Nat
             /\ r.clock \in Nat /\ r.store \in Nat /\ r.reads \in Names /\ r.result \in Results
             /\ r.from \in SUBSET Names /\ r.answer \in Names
  BY DEF Requests
<1>2. ASSUME NEW s \in Files
      PROVE  /\ s.of \in Names /\ s.seed \in Names /\ s.key \in Names \X Int /\ s.length \in Nat /\ s.since \in Nat
             /\ s.refs \in Nat /\ s.retired \in BOOLEAN /\ s.open \in BOOLEAN
  BY DEF Files
<1>3. \A c \in Clicks : click[c] \in Requests
  BY DEF Shape
<1>4. \A f \in DOMAIN stores : stores[f] \in Files
  BY DEF Shape
<1> QED
  BY <1>1, <1>2, <1>3, <1>4

\* A request that is over.
LEMMA OverIs ==
    ASSUME Shape, NEW c \in Clicks, NEW o \in Names, NEW from \in SUBSET Names
    PROVE  /\ Over(c, o, from) \in Requests
           /\ Over(c, o, from).step = "done" /\ Over(c, o, from).kind = click[c].kind
           /\ Over(c, o, from).answer = o /\ Over(c, o, from).from = from
           /\ Over(c, o, from).pce = NoAnswer /\ Over(c, o, from).epoch = -1 /\ Over(c, o, from).store = 0
  BY Fields, Records DEF Over, Asked, Requests, Steps, Names

-----------------------------------------------------------------------------
(* What one request's step leaves alone.                                   *)

\* The lock goes with the work that is done under it.
Hands(c, r) ==
    \/ owner' = owner /\ (r.step \in Working <=> click[c].step \in Working)
    \/ owner = NoAnswer /\ owner' = c /\ r.step \in Working
    \/ owner = c /\ owner' = NoAnswer /\ r.step \notin Working

\* A request that does not step is as it was.
LEMMA OthersStand ==
    ASSUME IInv, NEW c \in Clicks, NEW r \in Requests, click' = [click EXCEPT ![c] = r], UNCHANGED pceVars,
           NEW d \in Clicks, d # c
    PROVE  click'[d] = click[d] /\ ClickOk(d)' /\ (Reads(d)' <=> Reads(d)) /\ (Fills(d)' <=> Fills(d))
<1>1. click'[d] = click[d]
  BY DEF IInv, Shape
<1>2. UNCHANGED <<configured, generation, clearing>>
  BY DEF pceVars
<1>3. ClickOk(d)
  BY DEF IInv
<1>4. ClickOk(d)'
  BY <1>1, <1>2, <1>3 DEF ClickOk, Reads, Fills, Predicts, NotedOk, ResultOk, SourceOk
<1> QED
  BY <1>1, <1>4 DEF Reads, Fills

\* The lock's owner is the request at work, after the step too.
LEMMA LockFollows ==
    ASSUME IInv, NEW c \in Clicks, NEW r \in Requests, click' = [click EXCEPT ![c] = r], Hands(c, r)
    PROVE  /\ owner' \in Clicks \cup {NoAnswer}
           /\ \A d \in Clicks : owner' = d <=> click'[d].step \in Working
<1>1. click'[c] = r /\ \A d \in Clicks : d # c => click'[d] = click[d]
  BY DEF IInv, Shape
<1>2. owner \in Clicks \cup {NoAnswer} /\ \A d \in Clicks : owner = d <=> click[d].step \in Working
  BY DEF IInv, Shape, HoldOk
<1>3. NoAnswer \notin Clicks
  BY InteractiveAssumption DEF InteractiveAssumption
<1> QED
  BY <1>1, <1>2, <1>3 DEF Hands

\* A step of one request keeps the invariant if it keeps the request's own part of it, the stores', and what
\* the other requests read and fill.
LEMMA StepKeeps ==
    ASSUME IInv, NEW c \in Clicks, NEW r \in Requests, click' = [click EXCEPT ![c] = r], Hands(c, r),
           UNCHANGED pceVars,
           DOMAIN stores' \in SUBSET (Nat \ {0}), IsFiniteSet(DOMAIN stores'), stores' \in [DOMAIN stores' -> Files],
           kept' \in Nat, KeptOk', shown' \in Results, shown' # NoResult => ResultOk(shown)',
           \A f \in DOMAIN stores' : StoreOk(f)',
           ClickOk(c)',
           owner' = c <=> r.step \in Working => HoldOk(c)',
           \A d \in Clicks : d # c /\ (Reads(d) \/ Fills(d)) =>
              /\ click[d].store \in DOMAIN stores' /\ stores'[click[d].store].open
              /\ stores'[click[d].store].key = stores[click[d].store].key
              /\ stores'[click[d].store].of = stores[click[d].store].of
              /\ Fills(d) => stores'[click[d].store] = stores[click[d].store] /\ click[d].store # kept'
    PROVE  IInv'
<1>1. click'[c] = r /\ \A d \in Clicks : owner' = d <=> click'[d].step \in Working
  BY LockFollows DEF IInv, Shape
<1>2. Shape'
  <2>1. click' \in [Clicks -> Requests]
    BY DEF IInv, Shape
  <2>2. owner' \in Clicks \cup {NoAnswer}
    BY LockFollows
  <2> QED
    BY <2>1, <2>2 DEF IInv, Shape, pceVars, Names
<1>3. ASSUME NEW d \in Clicks PROVE ClickOk(d)' /\ HoldOk(d)'
  <2>1. CASE d = c
    BY <1>1, <2>1
  <2>2. CASE d # c
    <3>1. click'[d] = click[d] /\ ClickOk(d)' /\ (Reads(d)' <=> Reads(d)) /\ (Fills(d)' <=> Fills(d))
      BY <2>2, OthersStand
    <3>2. HoldOk(d)
      BY DEF IInv
    <3>3. owner' = d <=> click'[d].step \in Working
      BY <1>1
    <3>4. Reads(d)' \/ Fills(d)' =>
            /\ click'[d].store \in DOMAIN stores' /\ stores'[click'[d].store].open
            /\ stores'[click'[d].store].key = <<click'[d].pce, click'[d].epoch>>
      BY <2>2, <3>1, <3>2 DEF HoldOk
    <3>5. Reads(d)' => stores'[click'[d].store].of \in PceNames
      BY <2>2, <3>1, <3>2 DEF HoldOk
    <3>6. Fills(d)' =>
            /\ stores'[click'[d].store].refs = 0 /\ ~stores'[click'[d].store].retired /\ click'[d].store # kept'
            /\ click'[d].step # "seeding" => stores'[click'[d].store].seed \in {NoAnswer, click'[d].reads}
            /\ stores'[click'[d].store].of = IF click'[d].step = "computing" THEN click'[d].reads ELSE NoAnswer
      BY <2>2, <3>1, <3>2 DEF HoldOk
    <3>7. HoldOk(d)'
      BY <3>3, <3>4, <3>5, <3>6 DEF HoldOk
    <3> QED
      BY <3>1, <3>7
  <2> QED
    BY <2>1, <2>2
<1> QED
  BY <1>2, <1>3 DEF IInv

\* A step that touches no store and neither begins nor ends reading or filling one.
LEMMA QuietKeeps ==
    ASSUME IInv, NEW c \in Clicks, NEW r \in Requests, click' = [click EXCEPT ![c] = r], Hands(c, r),
           UNCHANGED <<pceVars, stores, kept>>, shown' \in Results, shown' # NoResult => ResultOk(shown'),
           ~Fills(c), ~(r.step \in {"seeding", "pulling", "computing"} /\ r.kind # "predicted"),
           r.step \in {"reading", "releasing"} <=> Reads(c),
           Reads(c) => r.store = click[c].store /\ r.pce = click[c].pce /\ r.epoch = click[c].epoch,
           ClickOk(c)'
    PROVE  IInv'
<1>1. click'[c] = r /\ \A d \in Clicks : d # c => click'[d] = click[d]
  BY DEF IInv, Shape
<1>2. (Reads(c)' <=> Reads(c)) /\ ~Fills(c)'
  BY <1>1 DEF Reads, Fills
<1>3. \A d \in Clicks : (Reads(d)' <=> Reads(d)) /\ (Fills(d)' <=> Fills(d))
  BY <1>2, OthersStand
<1>4. \A f : Readers(f)' = Readers(f) /\ (Filled(f)' <=> Filled(f))
  BY <1>1, <1>3 DEF Readers, Filled
<1>5. \A f \in DOMAIN stores' : StoreOk(f)'
  BY <1>4, NotesStay DEF IInv, StoreOk, pceVars
<1>6. KeptOk'
  BY DEF IInv, KeptOk
<1>7. owner' = c <=> r.step \in Working => HoldOk(c)'
  BY <1>1, <1>2 DEF IInv, HoldOk
<1>8. shown' # NoResult => ResultOk(shown)'
  BY NotesStay DEF pceVars, ResultOk, NotedOk, SourceOk
<1>9. /\ DOMAIN stores' \in SUBSET (Nat \ {0}) /\ IsFiniteSet(DOMAIN stores') /\ stores' \in [DOMAIN stores' -> Files]
      /\ kept' \in Nat
  BY DEF IInv, Shape
<1>10. \A d \in Clicks : d # c /\ (Reads(d) \/ Fills(d)) =>
              /\ click[d].store \in DOMAIN stores' /\ stores'[click[d].store].open
              /\ stores'[click[d].store].key = stores[click[d].store].key
              /\ stores'[click[d].store].of = stores[click[d].store].of
              /\ Fills(d) => stores'[click[d].store] = stores[click[d].store] /\ click[d].store # kept'
  BY DEF IInv, HoldOk
<1> QED
  BY <1>5, <1>6, <1>7, <1>8, <1>9, <1>10, StepKeeps

-----------------------------------------------------------------------------
(* Steps that touch no store.                                              *)

\* A request that is over has nothing in hand.
LEMMA OverOk ==
    ASSUME IInv, NEW c \in Clicks, NEW o \in Names, NEW from \in SUBSET Names, from \subseteq {o} \/ o = NoAnswer,
           click' = [click EXCEPT ![c] = Over(c, o, from)], UNCHANGED pceVars
    PROVE  ClickOk(c)' /\ ~Reads(c)' /\ ~Fills(c)' /\ click'[c] = Over(c, o, from) /\ click'[c].step = "done"
<1>1. click'[c] = Over(c, o, from)
  BY OverIs DEF IInv, Shape
<1>2. /\ click'[c].step = "done" /\ click'[c].kind = click[c].kind /\ click'[c].answer = o /\ click'[c].from = from
      /\ click'[c].pce = NoAnswer /\ click'[c].epoch = -1 /\ click'[c].store = 0
  BY <1>1, OverIs DEF IInv
<1>3. generation \in Nat /\ generation' = generation
  BY DEF IInv, Shape, pceVars
<1>4. ~Reads(c)' /\ ~Fills(c)' /\ ~Predicts(c)'
  BY <1>2 DEF Reads, Fills, Predicts
<1>5. ClickOk(c)'
  BY <1>2, <1>3, <1>4 DEF ClickOk, NotedOk
<1> QED
  BY <1>1, <1>2, <1>4, <1>5

\* A request ends, with no store of its own to let go.
LEMMA EndsQuietly ==
    ASSUME IInv, NEW c \in Clicks, NEW o \in Names, NEW from \in SUBSET Names, from \subseteq {o} \/ o = NoAnswer,
           click' = [click EXCEPT ![c] = Over(c, o, from)], UNCHANGED <<pceVars, stores, kept>>,
           (owner' = owner /\ click[c].step \notin Working) \/ (owner = c /\ owner' = NoAnswer),
           ~Reads(c), ~Fills(c), shown' \in Results, shown' # NoResult => ResultOk(shown')
    PROVE  IInv'
<1>1. Over(c, o, from) \in Requests /\ Over(c, o, from).step = "done"
  BY OverIs DEF IInv
<1>2. Hands(c, Over(c, o, from))
  BY <1>1 DEF Hands, Working
<1>3. ClickOk(c)'
  BY OverOk
<1> HIDE DEF Over
<1> QED
  BY <1>1, <1>2, <1>3, QuietKeeps

\* A request ends without an answer, with no store of its own to let go.
LEMMA IsRefusedQuietly ==
    ASSUME IInv, NEW c \in Clicks, click' = [click EXCEPT ![c] = Over(c, NoAnswer, {})],
           UNCHANGED <<pceVars, stores, kept>>,
           (owner' = owner /\ click[c].step \notin Working) \/ (owner = c /\ owner' = NoAnswer),
           ~Reads(c), ~Fills(c), shown' \in Results, shown' # NoResult => ResultOk(shown')
    PROVE  IInv'
<1>1. NoAnswer \in Names /\ {} \in SUBSET Names
  BY DEF Names
<1> QED
  BY <1>1, EndsQuietly

\* The lateral page begins: what is noted is noted now, or is what the result in hand was noted with.
LEMMA LateralBegins ==
    ASSUME IInv, NEW c \in Clicks, ComputeBegins(c) \/ SimulateBegins(c)
    PROVE  IInv'
<1>0. click[c].step = "idle" /\ ~Reads(c) /\ ~Fills(c) /\ click[c].step \notin Working
  BY DEF ComputeBegins, SimulateBegins, Reads, Fills, Working
<1>t. /\ configured \in Names /\ generation \in Nat /\ now \in Nat /\ shown \in Results
      /\ click \in [Clicks -> Requests] /\ Asked \in Requests
      /\ shown # NoResult => ResultOk(shown)
  BY Records DEF IInv, Shape, Names
<1>1. CASE ComputeBegins(c)
  <2> DEFINE r == [Asked EXCEPT !.step = "waiting", !.kind = "compute", !.pce = configured, !.epoch = generation, !.clock = now]
  <2>1. click' = [click EXCEPT ![c] = r] /\ UNCHANGED <<pceVars, owner, stores, kept, shown>>
    BY <1>1 DEF ComputeBegins
  <2>2. r \in Requests
    <3>1. "waiting" \in Steps /\ "compute" \in Kinds
      BY DEF Steps, Kinds
    <3>2. configured \in Names /\ generation \in Int /\ now \in Nat /\ Asked \in Requests
      BY <1>t
    <3> QED
      BY <3>1, <3>2 DEF Requests
  <2>3. /\ r.step = "waiting" /\ r.kind = "compute" /\ r.pce = configured /\ r.epoch = generation /\ r.store = 0
        /\ r.answer = NoAnswer /\ r.from = {}
    BY DEF Asked
  <2> HIDE DEF r
  <2>4. click'[c] = r
    BY <2>1, <1>t
  <2>5. ClickOk(c)'
    BY <2>1, <2>3, <2>4, <1>t DEF ClickOk, Reads, Fills, Predicts, NotedOk, pceVars
  <2> QED
    BY <1>0, <1>t, <2>1, <2>2, <2>3, <2>5, QuietKeeps DEF Hands, Working
<1>2. CASE SimulateBegins(c) /\ Matches(shown, now)
  <2> DEFINE r == [Asked EXCEPT !.step = "waiting", !.kind = "simulate", !.pce = shown.pce, !.epoch = shown.epoch,
                                !.clock = now, !.result = shown]
  <2>1. click' = [click EXCEPT ![c] = r] /\ UNCHANGED <<pceVars, owner, stores, kept, shown>> /\ shown # NoResult
    BY <1>2 DEF SimulateBegins
  <2>2. r \in Requests
    <3>1. shown.pce \in Names /\ shown.epoch \in Int
      BY <1>t DEF Results
    <3>2. "waiting" \in Steps /\ "simulate" \in Kinds
      BY DEF Steps, Kinds
    <3> QED
      BY <1>t, <3>1, <3>2 DEF Requests
  <2>3. /\ r.step = "waiting" /\ r.kind = "simulate" /\ r.pce = shown.pce /\ r.epoch = shown.epoch /\ r.store = 0
        /\ r.answer = NoAnswer /\ r.from = {} /\ r.result = shown
    BY DEF Asked
  <2> HIDE DEF r
  <2>4. click'[c] = r
    BY <2>1, <1>t
  <2>5. ResultOk(shown)
    BY <1>t, <2>1
  <2>6. ClickOk(c)'
    BY <2>1, <2>3, <2>4, <2>5 DEF ClickOk, Reads, Fills, Predicts, NotedOk, ResultOk, SourceOk, pceVars
  <2> QED
    BY <1>0, <1>t, <2>1, <2>2, <2>3, <2>6, QuietKeeps DEF Hands, Working
<1>3. CASE SimulateBegins(c) /\ ~Matches(shown, now)
  <2>1. click' = [click EXCEPT ![c] = Over(c, NoAnswer, {})] /\ UNCHANGED <<pceVars, owner, stores, kept>> /\ shown' = NoResult
    BY <1>3 DEF SimulateBegins
  <2> QED
    BY <1>0, <2>1, IsRefusedQuietly, Records
<1> QED
  BY <1>1, <1>2, <1>3

\* A request is answered from the result that is shown, or refused.
LEMMA ViewKeeps ==
    ASSUME IInv, NEW c \in Clicks, View(c) \/ Refused(c)
    PROVE  IInv'
<1>1. click[c].step \in {"viewing", "idle"} /\ ~Reads(c) /\ ~Fills(c) /\ click[c].step \notin Working
  BY DEF View, Refused, Reads, Fills, Working
<1>2. shown \in Results /\ (shown # NoResult => ResultOk(shown)) /\ NoResult \in Results
  BY Records DEF IInv, Shape
<1>3. CASE View(c) /\ ResultStillShown
  <2> DEFINE of == shown.of
             from == {shown.of, shown.seed} \ {NoAnswer}
  <2>1. shown # NoResult /\ UNCHANGED <<pceVars, owner, stores, kept, shown>>
        /\ click' = [click EXCEPT ![c] = Over(c, of, from)]
    BY <1>3 DEF View, ResultStillShown
  <2>2. of \in Names /\ shown.seed \in {NoAnswer, of}
    BY <1>2, <2>1 DEF Results, ResultOk, SourceOk
  <2>3. from \in SUBSET Names /\ from \subseteq {of}
    BY <2>2
  <2>4. shown' \in Results /\ (shown' # NoResult => ResultOk(shown'))
    BY <1>2, <2>1
  <2> HIDE DEF of, from
  <2> QED
    BY <1>1, <2>1, <2>2, <2>3, <2>4, EndsQuietly
<1>4. CASE (View(c) /\ ~ResultStillShown) \/ Refused(c)
  <2>1. /\ click' = [click EXCEPT ![c] = Over(c, NoAnswer, {})] /\ UNCHANGED <<pceVars, owner, stores, kept>>
        /\ shown' \in {shown, NoResult}
    BY <1>4 DEF View, Refused
  <2> QED
    BY <1>1, <1>2, <2>1, IsRefusedQuietly
<1> QED
  BY <1>3, <1>4

\* A lateral request has the lock: the result a simulation is for is still the one that is shown.
LEMMA LateralHasLock ==
    ASSUME IInv, NEW c \in Clicks, ComputeHasLock(c) \/ SimulateHasLock(c)
    PROVE  IInv'
<1>1. /\ click[c].step = "waiting" /\ click[c].kind \in {"compute", "simulate"} /\ owner = NoAnswer
      /\ UNCHANGED <<pceVars, stores, kept>> /\ shown' \in {shown, NoResult}
      /\ \/ owner' = c /\ click' = [click EXCEPT ![c].step = "opening"]
         \/ owner' = owner /\ click' = [click EXCEPT ![c] = Over(c, NoAnswer, {})]
  BY DEF ComputeHasLock, SimulateHasLock
<1>2. ~Reads(c) /\ ~Fills(c) /\ click[c].step \notin Working
  BY <1>1 DEF Reads, Fills, Working
<1>3. shown' \in Results /\ (shown' # NoResult => ResultOk(shown'))
  BY <1>1, Records DEF IInv, Shape
<1>4. CASE click' = [click EXCEPT ![c].step = "opening"] /\ owner' = c
  <2> DEFINE r == [click[c] EXCEPT !.step = "opening"]
  <2>0. click[c] \in Requests /\ "opening" \in Steps
    BY Fields DEF IInv, Steps, Working
  <2>1. r \in Requests /\ click' = [click EXCEPT ![c] = r]
    <3>1. r \in Requests
      BY <2>0 DEF Requests
    <3>2. click' = [click EXCEPT ![c] = r]
      BY <1>4
    <3> QED
      BY <3>1, <3>2
  <2>2. /\ r.step = "opening" /\ r.kind = click[c].kind /\ r.pce = click[c].pce /\ r.epoch = click[c].epoch
        /\ r.store = click[c].store /\ r.answer = click[c].answer /\ r.from = click[c].from /\ r.result = click[c].result
    BY <2>0 DEF Requests
  <2> HIDE DEF r
  <2>3. click'[c] = r
    BY <2>1 DEF IInv, Shape
  <2>4. ClickOk(c)'
    BY <1>1, <2>2, <2>3, NotesStay DEF IInv, ClickOk, Reads, Fills, Predicts, NotedOk, ResultOk, SourceOk, pceVars
  <2> QED
    BY <1>1, <1>2, <1>3, <1>4, <2>1, <2>2, <2>4, QuietKeeps DEF Hands, Working
<1>5. CASE owner' = owner /\ click' = [click EXCEPT ![c] = Over(c, NoAnswer, {})]
  BY <1>1, <1>2, <1>3, <1>5, IsRefusedQuietly
<1> QED
  BY <1>1, <1>4, <1>5

\* The result is kept as it was computed, under what was noted for it.
LEMMA ResultKeptKeeps == ASSUME IInv, NEW c \in Clicks, ResultKept(c) PROVE IInv'
<1> DEFINE r == [Asked EXCEPT !.step = "viewing", !.kind = "compute"]
<1>1. /\ click[c].step = "storing" /\ shown' = click[c].result /\ owner' = NoAnswer
      /\ click' = [click EXCEPT ![c] = r] /\ UNCHANGED <<pceVars, stores, kept>>
  BY DEF ResultKept
<1>2. ~Reads(c) /\ ~Fills(c) /\ owner = c
  BY <1>1 DEF IInv, HoldOk, Reads, Fills, Working
<1>3. shown' \in Results /\ ResultOk(shown')
  BY <1>1, Fields DEF IInv, ClickOk
<1>4. /\ r \in Requests
      /\ r.step = "viewing" /\ r.kind = "compute" /\ r.pce = NoAnswer /\ r.epoch = -1 /\ r.store = 0
      /\ r.answer = NoAnswer /\ r.from = {}
  <2>1. "viewing" \in Steps /\ "compute" \in Kinds
    BY DEF Steps, Kinds
  <2>2. r \in Requests
    BY <2>1, Records DEF Requests
  <2> QED
    BY <2>2 DEF Asked
<1> HIDE DEF r
<1>5. click'[c] = r /\ generation \in Nat
  BY <1>1 DEF IInv, Shape
<1>6. ClickOk(c)'
  BY <1>1, <1>4, <1>5 DEF ClickOk, Reads, Fills, Predicts, NotedOk, pceVars
<1> QED
  BY <1>1, <1>2, <1>3, <1>4, <1>6, QuietKeeps DEF Hands, Working

\* The predicted-block view: the generation is noted first, and the PCE that is read goes with it or a later one.
LEMMA PredictedKeeps ==
    ASSUME IInv, NEW c \in Clicks, PredictedBegins(c) \/ PredictedHasLock(c) \/ PredictedReadsSettings(c)
    PROVE  IInv'
<1>t. /\ click \in [Clicks -> Requests] /\ click[c] \in Requests /\ generation \in Nat /\ generation \in Int
      /\ configured \in PceNames /\ configured \in Names
      /\ shown \in Results /\ (shown # NoResult => ResultOk(shown)) /\ ClickOk(c) /\ HoldOk(c)
  BY Fields DEF IInv, Shape, Names
<1>s. {"waiting", "noted", "pulling"} \subseteq Steps /\ "predicted" \in Kinds
  BY DEF Steps, Kinds, Working
<1>1. CASE PredictedBegins(c)
  <2> DEFINE r == [Asked EXCEPT !.step = "waiting", !.kind = "predicted"]
  <2>1. /\ click[c].step = "idle" /\ click' = [click EXCEPT ![c] = r]
        /\ UNCHANGED <<pceVars, owner, stores, kept, shown>>
    BY <1>1 DEF PredictedBegins
  <2>2. r \in Requests
    BY <1>s, Records DEF Requests
  <2>3. /\ r.step = "waiting" /\ r.kind = "predicted" /\ r.epoch = -1 /\ r.store = 0
        /\ r.answer = NoAnswer /\ r.from = {}
    BY DEF Asked
  <2> HIDE DEF r
  <2>4. click'[c] = r /\ ~Reads(c) /\ ~Fills(c)
    BY <2>1, <1>t DEF Reads, Fills
  <2>5. ClickOk(c)'
    BY <2>1, <2>3, <2>4, <1>t DEF ClickOk, Reads, Fills, Predicts, pceVars
  <2>6. shown' \in Results /\ (shown' # NoResult => ResultOk(shown'))
    BY <2>1, <1>t
  <2> QED
    BY <2>1, <2>2, <2>3, <2>4, <2>5, <2>6, QuietKeeps DEF Hands, Working
<1>2. CASE PredictedHasLock(c)
  <2> DEFINE r == [click[c] EXCEPT !.step = "noted", !.epoch = generation]
  <2>1. /\ click[c].step = "waiting" /\ click[c].kind = "predicted" /\ owner = NoAnswer /\ owner' = c
        /\ click' = [click EXCEPT ![c] = r]
        /\ UNCHANGED <<pceVars, stores, kept, shown>>
    BY <1>2 DEF PredictedHasLock
  <2>2. r \in Requests
    BY <1>s, <1>t DEF Requests
  <2>3. /\ r.step = "noted" /\ r.kind = "predicted" /\ r.epoch = generation /\ r.store = click[c].store
        /\ r.answer = click[c].answer /\ r.from = click[c].from
    BY <2>1, <1>t DEF Requests
  <2> HIDE DEF r
  <2>4. click'[c] = r /\ ~Reads(c) /\ ~Fills(c)
    BY <2>1, <1>t DEF Reads, Fills
  <2>5. ClickOk(c)'
    BY <2>1, <2>3, <2>4, <1>t DEF ClickOk, Reads, Fills, Predicts, pceVars
  <2>6. shown' \in Results /\ (shown' # NoResult => ResultOk(shown'))
    BY <2>1, <1>t
  <2> QED
    BY <2>1, <2>2, <2>3, <2>4, <2>5, <2>6, QuietKeeps DEF Hands, Working
<1>3. CASE PredictedReadsSettings(c)
  <2> DEFINE r == [click[c] EXCEPT !.step = "pulling", !.reads = configured]
  <2>1. /\ click[c].step = "noted" /\ click' = [click EXCEPT ![c] = r]
        /\ UNCHANGED <<pceVars, owner, stores, kept, shown>>
    BY <1>3 DEF PredictedReadsSettings
  <2>2. r \in Requests
    BY <1>s, <1>t DEF Requests
  <2>3. /\ r.step = "pulling" /\ r.kind = click[c].kind /\ r.epoch = click[c].epoch /\ r.store = click[c].store
        /\ r.answer = click[c].answer /\ r.from = click[c].from /\ r.reads = configured
    BY <2>1, <1>t DEF Requests
  <2>k. click[c].kind = "predicted" /\ click[c].epoch <= generation /\ click[c].epoch \in Int
    BY <2>1, <1>t, Fields DEF ClickOk, IInv
  <2> HIDE DEF r
  <2>4. click'[c] = r /\ ~Reads(c) /\ ~Fills(c)
    BY <2>1, <1>t DEF Reads, Fills
  <2>5. ClickOk(c)'
    BY <2>1, <2>3, <2>4, <2>k, <1>t DEF ClickOk, Reads, Fills, Predicts, NotedOk, pceVars
  <2>6. shown' \in Results /\ (shown' # NoResult => ResultOk(shown'))
    BY <2>1, <1>t
  <2> QED
    BY <2>1, <2>2, <2>3, <2>4, <2>5, <2>6, <2>k, QuietKeeps DEF Hands, Working
<1> QED
  BY <1>1, <1>2, <1>3

\* A predicted-block pull ends, with an answer or without one.
LEMMA PredictedEndsKeeps ==
    ASSUME IInv, NEW c \in Clicks, click[c].kind = "predicted", PredictedEnds(c) \/ PeriodFails(c)
    PROVE  IInv'
<1>1. /\ click[c].step = "pulling" /\ owner' = NoAnswer /\ UNCHANGED <<pceVars, kept, shown>>
      /\ \/ click' = [click EXCEPT ![c] = Over(c, NoAnswer, {})]
         \/ click' = [click EXCEPT ![c] = Over(c, click[c].reads, {click[c].reads})]
  BY DEF PredictedEnds, PeriodFails
<1>2. click[c].store = 0 /\ owner = c /\ ~Reads(c) /\ ~Fills(c) /\ click[c].reads \in Names
  BY <1>1, Fields DEF IInv, ClickOk, HoldOk, Working, Reads, Fills
<1>3. UNCHANGED stores
  BY <1>2 DEF PredictedEnds, PeriodFails
<1>4. shown' \in Results /\ (shown' # NoResult => ResultOk(shown'))
  BY <1>1 DEF IInv, Shape
<1>5. CASE click' = [click EXCEPT ![c] = Over(c, NoAnswer, {})]
  BY <1>1, <1>2, <1>3, <1>4, <1>5, IsRefusedQuietly
<1>6. CASE click' = [click EXCEPT ![c] = Over(c, click[c].reads, {click[c].reads})]
  <2> DEFINE from == {click[c].reads}
  <2>1. from \in SUBSET Names /\ from \subseteq {click[c].reads}
    BY <1>2
  <2>2. click' = [click EXCEPT ![c] = Over(c, click[c].reads, from)]
    BY <1>6
  <2> HIDE DEF from
  <2> QED
    BY <1>1, <1>2, <1>3, <1>4, <2>1, <2>2, EndsQuietly
<1> QED
  BY <1>1, <1>5, <1>6

-----------------------------------------------------------------------------
(* The kept store.                                                         *)

\* Reading a store is counted on it.
LEMMA ReadersCount ==
    ASSUME IInv, NEW f \in DOMAIN stores
    PROVE  /\ IsFiniteSet(Readers(f)) /\ Cardinality(Readers(f)) \in Nat
           /\ stores[f].open => stores[f].refs = Cardinality(Readers(f))
           /\ ~stores[f].open => Readers(f) = {}
           /\ stores[f].open /\ stores[f].refs = 0 => Readers(f) = {}
<1>1. Readers(f) \subseteq Clicks /\ IsFiniteSet(Clicks)
  BY InteractiveAssumption DEF Readers, InteractiveAssumption
<1>2. IsFiniteSet(Readers(f)) /\ Cardinality(Readers(f)) \in Nat
  BY <1>1, FS_Subset, FS_CardinalityType
<1>3. stores[f].open => stores[f].refs = Cardinality(Readers(f))
  BY DEF IInv, StoreOk
<1>4. ~stores[f].open => Readers(f) = {}
  BY DEF IInv, HoldOk, Readers
<1>5. Cardinality(Readers(f)) = 0 => Readers(f) = {}
  BY <1>2, FS_EmptySet
<1> QED
  BY <1>2, <1>3, <1>4, <1>5

\* One more reader, and one less.
LEMMA OneMoreOrLess ==
    ASSUME NEW S, IsFiniteSet(S), NEW c
    PROVE  /\ c \notin S => Cardinality(S \cup {c}) = Cardinality(S) + 1
           /\ c \in S => Cardinality(S \ {c}) = Cardinality(S) - 1
  BY FS_AddElement, FS_RemoveElement

\* A lease: the store is read by one request more, and is about what the request noted.
LEMMA LeaseKeeps ==
    ASSUME IInv, NEW c \in Clicks, NEW next \in Requests, NEW length, NEW clock,
           Lease(c, <<next.pce, next.epoch>>, length, clock, next), UNCHANGED <<pceVars, owner, shown>>,
           click[c].step \in {"idle", "waiting"}, next.kind = "run", NotedOk(next.pce, next.epoch),
           next.answer = NoAnswer, next.from = {}
    PROVE  IInv'
<1> DEFINE r == [next EXCEPT !.step = "reading", !.store = kept]
<1>t. /\ click \in [Clicks -> Requests] /\ stores \in [DOMAIN stores -> Files] /\ kept \in Nat
      /\ DOMAIN stores \in SUBSET (Nat \ {0}) /\ IsFiniteSet(DOMAIN stores)
      /\ shown \in Results /\ (shown # NoResult => ResultOk(shown))
  BY DEF IInv, Shape
<1>1. /\ kept # 0 /\ stores[kept].key = <<next.pce, next.epoch>> /\ kept' = kept
      /\ stores' = [stores EXCEPT ![kept].refs = @ + 1]
      /\ click' = [click EXCEPT ![c] = r]
  BY DEF Lease, Fresh
<1>2. kept \in DOMAIN stores /\ stores[kept].open /\ ~stores[kept].retired /\ stores[kept].of \in PceNames
  BY <1>1 DEF IInv, KeptOk
<1>3. "reading" \in Steps
  BY DEF Steps
<1>4. /\ r \in Requests /\ r.step = "reading" /\ r.kind = "run" /\ r.store = kept /\ r.answer = NoAnswer /\ r.from = {}
      /\ r.pce = next.pce /\ r.epoch = next.epoch
  BY <1>3, <1>t DEF Requests
<1> HIDE DEF r
<1>5. click'[c] = r /\ (\A d \in Clicks : d # c => click'[d] = click[d]) /\ ~Reads(c) /\ ~Fills(c) /\ Reads(c)' /\ ~Fills(c)'
  BY <1>1, <1>4, <1>t DEF Reads, Fills
<1>6. /\ DOMAIN stores' = DOMAIN stores /\ \A g \in DOMAIN stores : g # kept => stores'[g] = stores[g]
      /\ stores'[kept].refs = stores[kept].refs + 1
      /\ stores'[kept].open /\ ~stores'[kept].retired /\ stores'[kept].of = stores[kept].of
      /\ stores'[kept].key = stores[kept].key /\ stores'[kept].seed = stores[kept].seed
      /\ stores'[kept] \in Files
  <2>1. stores[kept] \in Files
    BY <1>2, <1>t
  <2>2. stores'[kept] = [stores[kept] EXCEPT !.refs = stores[kept].refs + 1]
    BY <1>1, <1>2, <1>t
  <2>3. stores'[kept] \in Files /\ stores'[kept].open = stores[kept].open /\ stores'[kept].retired = stores[kept].retired
        /\ stores'[kept].of = stores[kept].of /\ stores'[kept].key = stores[kept].key
        /\ stores'[kept].seed = stores[kept].seed /\ stores'[kept].refs = stores[kept].refs + 1
    BY <2>1, <2>2 DEF Files
  <2>4. DOMAIN stores' = DOMAIN stores /\ \A g \in DOMAIN stores : g # kept => stores'[g] = stores[g]
    BY <1>1, <1>t
  <2> QED
    BY <1>2, <2>3, <2>4
<1>7. stores' \in [DOMAIN stores' -> Files]
  <2>1. \A g \in DOMAIN stores : stores'[g] \in Files
    BY <1>6, <1>t
  <2> QED
    BY <1>1, <1>6, <2>1
<1>8. \A d \in Clicks : (Fills(d)' <=> Fills(d)) /\ (d # c => (Reads(d)' <=> Reads(d)))
  BY <1>5 DEF Reads, Fills
<1>9. /\ \A f : Filled(f)' <=> Filled(f)
      /\ \A f : f # kept => Readers(f)' = Readers(f)
      /\ \A f : f = kept => Readers(f)' = Readers(f) \cup {c} /\ c \notin Readers(f)
  <2>1. \A f : Filled(f)' <=> Filled(f)
    BY <1>4, <1>5, <1>8 DEF Filled, Fills
  <2>2. \A f : f # kept => Readers(f)' = Readers(f)
    BY <1>4, <1>5, <1>8 DEF Readers
  <2>3. \A f : f = kept => Readers(f)' = Readers(f) \cup {c} /\ c \notin Readers(f)
    BY <1>4, <1>5, <1>8 DEF Readers
  <2> QED
    BY <2>1, <2>2, <2>3
<1>10. ASSUME NEW f \in DOMAIN stores' PROVE StoreOk(f)'
  <2>1. StoreOk(f)
    BY <1>6 DEF IInv
  <2>2. CASE f # kept
    BY <1>1, <1>6, <1>9, <2>1, <2>2, NotesStay DEF StoreOk, pceVars
  <2>3. CASE f = kept
    <3>1. Cardinality(Readers(f)') = stores[kept].refs + 1
      BY <1>2, <1>9, <2>3, ReadersCount, OneMoreOrLess
    <3> QED
      BY <1>1, <1>2, <1>6, <2>1, <2>3, <3>1, NotesStay DEF StoreOk, pceVars
  <2> QED
    BY <2>2, <2>3
<1>11. KeptOk'
  BY <1>1, <1>2, <1>6 DEF KeptOk
<1>12. ClickOk(c)'
  BY <1>4, <1>5 DEF ClickOk, Reads, Predicts, NotedOk, pceVars
<1>13. owner' = c <=> r.step \in Working => HoldOk(c)'
  BY <1>1, <1>2, <1>4, <1>5, <1>6 DEF HoldOk
<1>14. \A d \in Clicks : d # c /\ (Reads(d) \/ Fills(d)) =>
          /\ click[d].store \in DOMAIN stores' /\ stores'[click[d].store].open
          /\ stores'[click[d].store].key = stores[click[d].store].key
          /\ stores'[click[d].store].of = stores[click[d].store].of
          /\ Fills(d) => stores'[click[d].store] = stores[click[d].store] /\ click[d].store # kept'
  BY <1>1, <1>6 DEF IInv, HoldOk
<1>15. Hands(c, r)
  BY <1>4 DEF Hands, Working
<1>16. shown' \in Results /\ (shown' # NoResult => ResultOk(shown)')
  BY <1>t, NotesStay DEF pceVars
<1> QED
  BY <1>1, <1>4, <1>6, <1>7, <1>10, <1>11, <1>12, <1>13, <1>14, <1>15, <1>16, <1>t, StepKeeps

\* The kept store is retired: closed if nobody reads it, else left to its readers.
LEMMA RetireFacts ==
    ASSUME IInv, kept # 0, stores' = Retired(kept)
    PROVE  /\ kept \in DOMAIN stores /\ DOMAIN stores' = DOMAIN stores /\ stores' \in [DOMAIN stores' -> Files]
           /\ \A g \in DOMAIN stores : g # kept => stores'[g] = stores[g]
           /\ \/ stores[kept].refs = 0 /\ ~stores'[kept].open /\ Readers(kept) = {}
              \/ /\ stores'[kept].retired /\ stores'[kept].refs > 0 /\ stores'[kept].open
                 /\ stores'[kept].refs = stores[kept].refs /\ stores'[kept].key = stores[kept].key
                 /\ stores'[kept].of = stores[kept].of /\ stores'[kept].seed = stores[kept].seed
<1>1. stores \in [DOMAIN stores -> Files] /\ kept \in DOMAIN stores /\ stores[kept].open
  BY DEF IInv, Shape, KeptOk
<1>2. stores[kept] \in Files /\ stores[kept].refs \in Nat
  BY <1>1 DEF Files
<1>3. CASE stores[kept].refs > 0
  <2>1. stores' = [stores EXCEPT ![kept].retired = TRUE]
    BY <1>3 DEF Retired
  <2>2. stores'[kept] = [stores[kept] EXCEPT !.retired = TRUE]
    BY <1>1, <2>1
  <2>3. /\ stores'[kept] \in Files /\ stores'[kept].retired /\ stores'[kept].refs = stores[kept].refs
        /\ stores'[kept].open = stores[kept].open /\ stores'[kept].key = stores[kept].key
        /\ stores'[kept].of = stores[kept].of /\ stores'[kept].seed = stores[kept].seed
    BY <1>2, <2>2 DEF Files
  <2>4. DOMAIN stores' = DOMAIN stores /\ \A g \in DOMAIN stores : g # kept => stores'[g] = stores[g]
    BY <1>1, <2>1
  <2>5. \A g \in DOMAIN stores : stores'[g] \in Files
    BY <1>1, <2>3, <2>4
  <2> QED
    BY <1>1, <1>3, <2>1, <2>3, <2>4, <2>5
<1>4. CASE ~(stores[kept].refs > 0)
  <2>1. stores' = [stores EXCEPT ![kept] = NoStore] /\ stores[kept].refs = 0
    BY <1>2, <1>4 DEF Retired, Closed
  <2>2. DOMAIN stores' = DOMAIN stores /\ stores'[kept] = NoStore /\ \A g \in DOMAIN stores : g # kept => stores'[g] = stores[g]
    BY <1>1, <2>1
  <2>3. ~NoStore.open /\ NoStore \in Files
    BY Records DEF NoStore
  <2>4. stores' \in [DOMAIN stores' -> Files]
    <3>1. \A g \in DOMAIN stores : stores'[g] \in Files
      BY <1>1, <2>2, <2>3
    <3> QED
      BY <2>1, <2>2, <3>1
  <2>5. Readers(kept) = {}
    BY <1>1, <2>1, ReadersCount
  <2> QED
    BY <1>1, <2>1, <2>2, <2>3, <2>4, <2>5
<1> QED
  BY <1>3, <1>4

\* A request that found the kept store stale, or its answer out of date, retires it and goes on.
LEMMA RetireKeeps ==
    ASSUME IInv, NEW c \in Clicks, NEW r \in Requests, click' = [click EXCEPT ![c] = r], Hands(c, r),
           UNCHANGED <<pceVars, shown>>, kept # 0, stores' = Retired(kept), kept' = 0,
           ~Fills(c), r.step \notin {"seeding", "pulling", "computing"}, r.step \in {"reading", "releasing"} <=> Reads(c),
           Reads(c) => r.store = click[c].store /\ r.pce = click[c].pce /\ r.epoch = click[c].epoch, ClickOk(c)'
    PROVE  IInv'
<1>t. /\ click \in [Clicks -> Requests] /\ DOMAIN stores \in SUBSET (Nat \ {0}) /\ IsFiniteSet(DOMAIN stores)
      /\ shown \in Results /\ (shown # NoResult => ResultOk(shown))
  BY DEF IInv, Shape
<1>1. /\ kept \in DOMAIN stores /\ DOMAIN stores' = DOMAIN stores /\ stores' \in [DOMAIN stores' -> Files]
      /\ \A g \in DOMAIN stores : g # kept => stores'[g] = stores[g]
      /\ \/ stores[kept].refs = 0 /\ ~stores'[kept].open /\ Readers(kept) = {}
         \/ /\ stores'[kept].retired /\ stores'[kept].refs > 0 /\ stores'[kept].open
            /\ stores'[kept].refs = stores[kept].refs /\ stores'[kept].key = stores[kept].key
            /\ stores'[kept].of = stores[kept].of /\ stores'[kept].seed = stores[kept].seed
  BY RetireFacts
<1>2. click'[c] = r /\ (\A d \in Clicks : d # c => click'[d] = click[d]) /\ (Reads(c)' <=> Reads(c)) /\ ~Fills(c)'
  BY <1>t DEF Reads, Fills
<1>3. \A d \in Clicks : (Fills(d)' <=> Fills(d)) /\ (Reads(d)' <=> Reads(d))
  BY <1>2 DEF Reads, Fills
<1>4. \A f : (Filled(f)' <=> Filled(f)) /\ Readers(f)' = Readers(f)
  BY <1>2, <1>3 DEF Readers, Filled
<1>5. ASSUME NEW f \in DOMAIN stores' PROVE StoreOk(f)'
  <2>1. StoreOk(f)
    BY <1>1 DEF IInv
  <2>2. CASE f # kept
    BY <1>1, <1>4, <2>1, <2>2, NotesStay DEF StoreOk, pceVars
  <2>3. CASE f = kept
    <3>1. stores[kept].open
      BY DEF IInv, KeptOk
    <3> QED
      BY <1>1, <1>4, <2>1, <2>3, <3>1, NotesStay DEF StoreOk, pceVars
  <2> QED
    BY <2>2, <2>3
<1>6. KeptOk'
  BY DEF KeptOk
<1>7. owner' = c <=> r.step \in Working => HoldOk(c)'
  <2>1. Reads(c) /\ click[c].store = kept => Readers(kept) # {}
    BY DEF Readers
  <2>2. Reads(c) => /\ click[c].store \in DOMAIN stores /\ stores[click[c].store].open
                    /\ stores[click[c].store].key = <<click[c].pce, click[c].epoch>>
                    /\ stores[click[c].store].of \in PceNames
    BY DEF IInv, HoldOk
  <2>3. Reads(c) => /\ r.store \in DOMAIN stores' /\ stores'[r.store].open
                    /\ stores'[r.store].key = <<r.pce, r.epoch>> /\ stores'[r.store].of \in PceNames
    BY <1>1, <2>1, <2>2
  <2> QED
    BY <1>2, <2>3 DEF HoldOk
<1>8. ASSUME NEW d \in Clicks, d # c, Reads(d) \/ Fills(d)
      PROVE  /\ click[d].store \in DOMAIN stores' /\ stores'[click[d].store].open
             /\ stores'[click[d].store].key = stores[click[d].store].key
             /\ stores'[click[d].store].of = stores[click[d].store].of
             /\ Fills(d) => stores'[click[d].store] = stores[click[d].store] /\ click[d].store # kept'
  <2>1. click[d].store \in DOMAIN stores /\ stores[click[d].store].open
    BY <1>8 DEF IInv, HoldOk
  <2>2. Fills(d) => click[d].store # kept
    BY DEF IInv, HoldOk
  <2>3. click[d].store # 0
    BY <2>1, <1>t
  <2>4. Reads(d) /\ click[d].store = kept => Readers(kept) # {}
    BY DEF Readers
  <2> QED
    BY <1>1, <1>8, <2>1, <2>2, <2>3, <2>4
<1>9. shown' \in Results /\ (shown' # NoResult => ResultOk(shown)')
  BY <1>t, NotesStay DEF pceVars
<1>10. DOMAIN stores' \in SUBSET (Nat \ {0}) /\ IsFiniteSet(DOMAIN stores') /\ kept' \in Nat
  BY <1>1, <1>t
<1> QED
  BY <1>1, <1>5, <1>6, <1>7, <1>8, <1>9, <1>10, StepKeeps

-----------------------------------------------------------------------------
(* The workbench.                                                          *)

\* A request that is not covered goes on to wait or, under the lock, to pull.
LEMMA NotCoveredKeeps ==
    ASSUME IInv, NEW c \in Clicks, NEW r \in Requests, NEW key, NEW length, NEW clock,
           NotCovered(key, length, clock), click' = [click EXCEPT ![c] = r], Hands(c, r), UNCHANGED <<pceVars, shown>>,
           ~Reads(c), ~Fills(c), r.step \in {"waiting", "opening"}, ClickOk(c)'
    PROVE  IInv'
<1>1. r.step \notin {"reading", "releasing", "seeding", "pulling", "computing"}
  OBVIOUS
<1>2. CASE kept # 0 /\ stores' = Retired(kept) /\ kept' = 0
  BY <1>1, <1>2, RetireKeeps
<1>3. CASE UNCHANGED <<stores, kept>>
  <2>1. shown' \in Results /\ (shown' # NoResult => ResultOk(shown'))
    BY DEF IInv, Shape
  <2> QED
    BY <1>1, <1>3, <2>1, QuietKeeps
<1> QED
  BY <1>2, <1>3 DEF NotCovered

\* A request of the workbench begins: it notes what is configured, and reads the kept store or waits.
LEMMA RunBeginsKeeps == ASSUME IInv, NEW c \in Clicks, RunBegins(c) PROVE IInv'
<1>1. PICK length \in Lengths :
        LET next == [click[c] EXCEPT !.kind = "run", !.pce = configured, !.epoch = generation, !.length = length, !.clock = now]
            key == <<configured, generation>>
        IN \/ Lease(c, key, length, now, next)
           \/ NotCovered(key, length, now) /\ click' = [click EXCEPT ![c] = [next EXCEPT !.step = "waiting"]]
  BY DEF RunBegins
<1> DEFINE next == [click[c] EXCEPT !.kind = "run", !.pce = configured, !.epoch = generation, !.length = length, !.clock = now]
           key == <<configured, generation>>
           r == [next EXCEPT !.step = "waiting"]
<1>2. click[c].step = "idle" /\ UNCHANGED <<pceVars, owner, shown>>
  BY DEF RunBegins
<1>3. click[c] = Asked /\ click[c] \in Requests
  BY <1>2, Fields DEF IInv, ClickOk
<1>4. configured \in Names /\ generation \in Int /\ now \in Nat /\ length \in Nat /\ "run" \in Kinds /\ "waiting" \in Steps
  BY InteractiveAssumption DEF IInv, Shape, Names, Kinds, Steps, InteractiveAssumption
<1>5. /\ next \in Requests /\ next.kind = "run" /\ next.pce = configured /\ next.epoch = generation
      /\ next.step = click[c].step /\ next.store = click[c].store /\ next.answer = click[c].answer
      /\ next.from = click[c].from
  BY <1>3, <1>4 DEF Requests
<1>6. click[c].answer = NoAnswer /\ click[c].from = {} /\ click[c].store = 0
  BY <1>3 DEF Asked
<1>7. NotedOk(configured, generation)
  BY NotedNow DEF IInv
<1>8. ~Reads(c) /\ ~Fills(c)
  BY <1>2 DEF Reads, Fills
<1>9. CASE Lease(c, key, length, now, next)
  <2> HIDE DEF next
  <2>1. Lease(c, <<next.pce, next.epoch>>, length, now, next)
    BY <1>5, <1>9
  <2> QED
    BY <1>2, <1>5, <1>6, <1>7, <2>1, LeaseKeeps
<1>10. CASE NotCovered(key, length, now) /\ click' = [click EXCEPT ![c] = r]
  <2> HIDE DEF next, key
  <2>1. /\ r \in Requests /\ r.step = "waiting" /\ r.kind = next.kind /\ r.pce = next.pce /\ r.epoch = next.epoch
        /\ r.store = next.store /\ r.answer = next.answer /\ r.from = next.from
    BY <1>4, <1>5 DEF Requests
  <2> HIDE DEF r
  <2>2. click'[c] = r
    BY <1>10, <2>1 DEF IInv, Shape
  <2>3. ClickOk(c)'
    BY <1>2, <1>5, <1>6, <1>7, <2>1, <2>2 DEF ClickOk, Reads, Fills, Predicts, NotedOk, pceVars
  <2>4. Hands(c, r)
    BY <1>2, <2>1 DEF Hands, Working
  <2> QED
    BY <1>2, <1>8, <1>10, <2>1, <2>3, <2>4, NotCoveredKeeps
<1> QED
  BY <1>1, <1>9, <1>10

\* A request has the lock: another may have pulled meanwhile what it needs.
LEMMA RunHasLockKeeps == ASSUME IInv, NEW c \in Clicks, RunHasLock(c) PROVE IInv'
<1> DEFINE key == <<click[c].pce, click[c].epoch>>
           r == [click[c] EXCEPT !.step = "opening"]
<1>1. /\ click[c].step = "waiting" /\ click[c].kind = "run" /\ owner = NoAnswer /\ UNCHANGED <<pceVars, shown>>
      /\ \/ Lease(c, key, click[c].length, click[c].clock, click[c]) /\ UNCHANGED owner
         \/ /\ NotCovered(key, click[c].length, click[c].clock)
            /\ click' = [click EXCEPT ![c] = r] /\ owner' = c
  BY DEF RunHasLock
<1>2. click[c] \in Requests /\ ClickOk(c) /\ "opening" \in Steps
  BY Fields DEF IInv, Steps, Working
<1>3. ~Reads(c) /\ ~Fills(c) /\ NotedOk(click[c].pce, click[c].epoch) /\ click[c].answer = NoAnswer /\ click[c].from = {}
      /\ click[c].store = 0
  BY <1>1, <1>2 DEF ClickOk, Reads, Fills
<1>4. CASE Lease(c, key, click[c].length, click[c].clock, click[c]) /\ UNCHANGED owner
  BY <1>1, <1>2, <1>3, <1>4, LeaseKeeps
<1>5. CASE NotCovered(key, click[c].length, click[c].clock) /\ click' = [click EXCEPT ![c] = r] /\ owner' = c
  <2>1. /\ r \in Requests /\ r.step = "opening" /\ r.kind = click[c].kind /\ r.pce = click[c].pce
        /\ r.epoch = click[c].epoch /\ r.store = click[c].store /\ r.answer = click[c].answer /\ r.from = click[c].from
    BY <1>2 DEF Requests
  <2> HIDE DEF r, key
  <2>2. click'[c] = r
    BY <1>5, <2>1 DEF IInv, Shape
  <2>3. ClickOk(c)'
    BY <1>1, <1>3, <2>1, <2>2 DEF ClickOk, Reads, Fills, Predicts, NotedOk, pceVars
  <2>4. Hands(c, r)
    BY <1>1, <1>5, <2>1 DEF Hands, Working
  <2> QED
    BY <1>1, <1>3, <1>5, <2>1, <2>3, <2>4, NotCoveredKeeps
<1> QED
  BY <1>1, <1>4, <1>5

\* The answer is checked against the key: it is of the configured PCE, or the store goes.
LEMMA RunChecksKeeps == ASSUME IInv, NEW c \in Clicks, RunChecks(c) PROVE IInv'
<1> DEFINE f == click[c].store
<1>1. click[c].step = "reading" /\ UNCHANGED <<pceVars, owner, shown>>
  BY DEF RunChecks
<1>2. /\ click[c] \in Requests /\ Reads(c) /\ ~Fills(c) /\ ClickOk(c) /\ HoldOk(c) /\ click[c].kind = "run"
      /\ "releasing" \in Steps /\ shown \in Results /\ (shown # NoResult => ResultOk(shown))
  BY <1>1, Fields DEF IInv, Shape, Reads, Fills, Steps, ClickOk
<1>3. /\ f \in DOMAIN stores /\ stores[f].open /\ stores[f].key = <<click[c].pce, click[c].epoch>>
      /\ stores[f].of \in PceNames /\ StoreOk(f) /\ stores[f].of \in Names /\ stores[f].seed \in Names
  BY <1>2, Fields DEF HoldOk, IInv
<1>4. NotedOk(click[c].pce, click[c].epoch) /\ click[c].answer = NoAnswer /\ click[c].from = {}
  BY <1>1, <1>2 DEF ClickOk
<1>5. CASE <<configured, generation>> = <<click[c].pce, click[c].epoch>>
  <2> DEFINE of == stores[f].of
             from == {stores[f].of, stores[f].seed} \ {NoAnswer}
             r == [click[c] EXCEPT !.step = "releasing", !.answer = of, !.from = from]
  <2>1. click' = [click EXCEPT ![c] = r] /\ UNCHANGED <<stores, kept>>
    BY <1>5 DEF RunChecks
  <2>2. of \in Names /\ from \in SUBSET Names /\ from \subseteq {of}
    <3>1. of # NoAnswer
      BY <1>3, InteractiveAssumption DEF InteractiveAssumption
    <3>2. stores[f].seed \in {NoAnswer, of}
      BY <1>3, <3>1 DEF StoreOk, SourceOk
    <3> QED
      BY <1>3, <3>2
  <2> HIDE DEF of, from
  <2>3. /\ r \in Requests /\ r.step = "releasing" /\ r.kind = click[c].kind /\ r.pce = click[c].pce
        /\ r.epoch = click[c].epoch /\ r.store = click[c].store /\ r.answer = of /\ r.from = from
    BY <1>2, <2>2 DEF Requests
  <2> HIDE DEF r
  <2>4. click'[c] = r
    BY <2>1, <2>3 DEF IInv, Shape
  <2>5. ClickOk(c)'
    BY <1>1, <1>2, <1>4, <2>2, <2>3, <2>4 DEF ClickOk, Reads, Fills, Predicts, NotedOk, pceVars
  <2>6. Hands(c, r)
    BY <1>1, <2>3 DEF Hands, Working
  <2> QED
    BY <1>1, <1>2, <2>1, <2>3, <2>5, <2>6, QuietKeeps
<1>6. CASE <<configured, generation>> # <<click[c].pce, click[c].epoch>>
  <2> DEFINE r == [click[c] EXCEPT !.step = "releasing"]
  <2>1. /\ click' = [click EXCEPT ![c] = r]
        /\ stores' = IF stores[f].retired THEN stores ELSE Retired(f)
        /\ kept' = IF kept = f THEN 0 ELSE kept
    BY <1>6 DEF RunChecks
  <2>3. /\ r \in Requests /\ r.step = "releasing" /\ r.kind = click[c].kind /\ r.pce = click[c].pce
        /\ r.epoch = click[c].epoch /\ r.store = click[c].store /\ r.answer = click[c].answer /\ r.from = click[c].from
    BY <1>2 DEF Requests
  <2> HIDE DEF r
  <2>4. click'[c] = r
    BY <2>1, <2>3 DEF IInv, Shape
  <2>5. ClickOk(c)'
    BY <1>1, <1>2, <1>4, <2>3, <2>4 DEF ClickOk, Reads, Fills, Predicts, NotedOk, pceVars
  <2>6. Hands(c, r)
    BY <1>1, <2>3 DEF Hands, Working
  <2>7. f # 0
    BY <1>3 DEF IInv, Shape
  <2>8. CASE stores[f].retired
    <3>1. kept # f
      BY <2>7, <2>8 DEF IInv, KeptOk
    <3>2. UNCHANGED <<stores, kept>>
      BY <2>1, <2>8, <3>1
    <3> QED
      BY <1>1, <1>2, <2>1, <2>3, <2>5, <2>6, <3>2, QuietKeeps
  <2>9. CASE ~stores[f].retired
    <3>1. c \in Readers(f)
      BY <1>2 DEF Readers
    <3>2. stores[f].refs # 0
      BY <1>3, <3>1, ReadersCount
    <3>3. ~Filled(f)
      BY <3>2 DEF Filled, IInv, HoldOk
    <3>4. f = kept
      BY <1>3, <2>9, <3>3 DEF StoreOk
    <3>5. kept # 0 /\ stores' = Retired(kept) /\ kept' = 0
      BY <2>1, <2>7, <2>9, <3>4
    <3> QED
      BY <1>1, <1>2, <2>1, <2>3, <2>5, <2>6, <3>5, RetireKeeps
  <2> QED
    BY <2>8, <2>9
<1> QED
  BY <1>5, <1>6

\* A request is done with its store: a retired store goes with its last reader.
LEMMA RunReleasesKeeps == ASSUME IInv, NEW c \in Clicks, RunReleases(c) PROVE IInv'
<1> DEFINE f == click[c].store
           o == click[c].answer
           from == click[c].from
           r == Over(c, o, from)
<1>1. /\ click[c].step = "releasing" /\ UNCHANGED <<pceVars, owner, kept, shown>>
      /\ stores' = IF stores[f].retired /\ stores[f].refs = 1 THEN Closed(f) ELSE [stores EXCEPT ![f].refs = @ - 1]
      /\ click' = [click EXCEPT ![c] = r]
  BY DEF RunReleases
<1>t. /\ click \in [Clicks -> Requests] /\ stores \in [DOMAIN stores -> Files] /\ kept \in Nat
      /\ DOMAIN stores \in SUBSET (Nat \ {0}) /\ IsFiniteSet(DOMAIN stores)
      /\ shown \in Results /\ (shown # NoResult => ResultOk(shown))
  BY DEF IInv, Shape
<1>2. Reads(c) /\ ~Fills(c) /\ ClickOk(c) /\ HoldOk(c) /\ o \in Names /\ from \in SUBSET Names
  BY <1>1, Fields DEF IInv, Reads, Fills
<1>3. from \subseteq {o} \/ o = NoAnswer
  BY <1>2 DEF ClickOk
<1>4. f \in DOMAIN stores /\ stores[f].open /\ c \in Readers(f) /\ StoreOk(f) /\ stores[f] \in Files /\ stores[f].refs \in Nat
  BY <1>2, Fields DEF HoldOk, Readers, IInv
<1> HIDE DEF o, from, f
<1>5. r \in Requests /\ r.step = "done" /\ click'[c] = r /\ ClickOk(c)' /\ ~Reads(c)' /\ ~Fills(c)'
  <2>1. r \in Requests /\ r.step = "done"
    BY <1>2, OverIs DEF IInv
  <2>2. click'[c] = r /\ ClickOk(c)' /\ ~Reads(c)' /\ ~Fills(c)'
    BY <1>1, <1>2, <1>3, OverOk
  <2> QED
    BY <2>1, <2>2
<1> HIDE DEF r
<1>6. (\A d \in Clicks : d # c => click'[d] = click[d])
  BY <1>1, <1>5, <1>t
<1>7. /\ \A d \in Clicks : (Fills(d)' <=> Fills(d)) /\ (d # c => (Reads(d)' <=> Reads(d)))
  BY <1>2, <1>5, <1>6 DEF Reads, Fills
<1>8. /\ \A g : Filled(g)' <=> Filled(g)
      /\ \A g : g # f => Readers(g)' = Readers(g)
      /\ \A g : g = f => Readers(g)' = Readers(g) \ {c}
  <2>1. \A g : Filled(g)' <=> Filled(g)
    BY <1>2, <1>5, <1>6, <1>7 DEF Filled
  <2>2. \A g : g # f => Readers(g)' = Readers(g)
    BY <1>5, <1>6, <1>7 DEF Readers, f
  <2>3. \A g : g = f => Readers(g)' = Readers(g) \ {c}
    BY <1>5, <1>6, <1>7 DEF Readers
  <2> QED
    BY <2>1, <2>2, <2>3
<1>9. IsFiniteSet(Readers(f)) /\ stores[f].refs = Cardinality(Readers(f)) /\ stores[f].refs # 0
      /\ Cardinality(Readers(f) \ {c}) = stores[f].refs - 1 /\ IsFiniteSet(Readers(f) \ {c})
  <2>1. IsFiniteSet(Readers(f)) /\ stores[f].refs = Cardinality(Readers(f)) /\ stores[f].refs # 0
    BY <1>4, ReadersCount
  <2> QED
    BY <2>1, <1>4, OneMoreOrLess, FS_Subset
<1>10. ~Filled(f)
  BY <1>9 DEF Filled, IInv, HoldOk
<1>11. /\ DOMAIN stores' = DOMAIN stores /\ stores'[f] \in Files /\ \A g \in DOMAIN stores : g # f => stores'[g] = stores[g]
       /\ \/ stores[f].retired /\ ~stores'[f].open /\ Readers(f) = {c}
          \/ /\ stores'[f].refs = stores[f].refs - 1 /\ (stores[f].retired => stores'[f].refs > 0)
             /\ stores'[f].open /\ stores'[f].retired = stores[f].retired /\ stores'[f].of = stores[f].of
             /\ stores'[f].key = stores[f].key /\ stores'[f].seed = stores[f].seed
  <2>1. CASE stores[f].retired /\ stores[f].refs = 1
    <3>1. stores' = [stores EXCEPT ![f] = NoStore]
      BY <1>1, <2>1 DEF Closed
    <3>2. DOMAIN stores' = DOMAIN stores /\ stores'[f] = NoStore /\ \A g \in DOMAIN stores : g # f => stores'[g] = stores[g]
      BY <1>4, <1>t, <3>1
    <3>3. ~NoStore.open /\ NoStore \in Files
      BY Records DEF NoStore
    <3>4. Readers(f) \ {c} = {}
      BY <1>9, <2>1, FS_EmptySet
    <3> QED
      BY <1>4, <2>1, <3>2, <3>3, <3>4
  <2>2. CASE ~(stores[f].retired /\ stores[f].refs = 1)
    <3>1. stores' = [stores EXCEPT ![f].refs = @ - 1]
      BY <1>1, <2>2
    <3>2. DOMAIN stores' = DOMAIN stores /\ \A g \in DOMAIN stores : g # f => stores'[g] = stores[g]
      BY <1>4, <1>t, <3>1
    <3>3. stores'[f] = [stores[f] EXCEPT !.refs = stores[f].refs - 1]
      BY <1>4, <1>t, <3>1
    <3>4. stores[f].refs - 1 \in Nat /\ (stores[f].retired => stores[f].refs - 1 > 0)
      BY <1>4, <1>9, <2>2
    <3>5. /\ stores'[f] \in Files /\ stores'[f].refs = stores[f].refs - 1
          /\ stores'[f].open = stores[f].open /\ stores'[f].retired = stores[f].retired /\ stores'[f].of = stores[f].of
          /\ stores'[f].key = stores[f].key /\ stores'[f].seed = stores[f].seed
      BY <1>4, <3>3, <3>4 DEF Files
    <3> QED
      BY <1>4, <3>2, <3>4, <3>5
  <2> QED
    BY <2>1, <2>2
<1>12. DOMAIN stores' \in SUBSET (Nat \ {0}) /\ IsFiniteSet(DOMAIN stores') /\ stores' \in [DOMAIN stores' -> Files]
  <2>1. \A g \in DOMAIN stores : stores'[g] \in Files
    BY <1>11, <1>t
  <2>2. stores' = [g \in DOMAIN stores' |-> stores'[g]]
    BY <1>1, <1>11 DEF Closed
  <2> QED
    BY <1>11, <1>t, <2>1, <2>2
<1>13. ASSUME NEW g \in DOMAIN stores' PROVE StoreOk(g)'
  <2>1. StoreOk(g)
    BY <1>11 DEF IInv
  <2>2. CASE g # f
    BY <1>1, <1>8, <1>11, <2>1, <2>2, NotesStay DEF StoreOk, pceVars
  <2>3. CASE g = f
    <3>1. Cardinality(Readers(g)') = stores[f].refs - 1
      BY <1>8, <1>9, <2>3
    <3> QED
      BY <1>1, <1>4, <1>8, <1>10, <1>11, <2>1, <2>3, <3>1, NotesStay DEF StoreOk, pceVars
  <2> QED
    BY <2>2, <2>3
<1>14. KeptOk'
  BY <1>1, <1>11 DEF IInv, KeptOk
<1>15. owner' = c <=> r.step \in Working => HoldOk(c)'
  BY <1>5 DEF HoldOk
<1>16. ASSUME NEW d \in Clicks, d # c, Reads(d) \/ Fills(d)
       PROVE  /\ click[d].store \in DOMAIN stores' /\ stores'[click[d].store].open
              /\ stores'[click[d].store].key = stores[click[d].store].key
              /\ stores'[click[d].store].of = stores[click[d].store].of
              /\ Fills(d) => stores'[click[d].store] = stores[click[d].store] /\ click[d].store # kept'
  <2>1. click[d].store \in DOMAIN stores /\ stores[click[d].store].open /\ (Fills(d) => click[d].store # kept)
    BY <1>16 DEF IInv, HoldOk
  <2>2. Reads(d) /\ click[d].store = f => Readers(f) # {c}
    BY <1>16 DEF Readers
  <2>3. Fills(d) => click[d].store # f
    BY <1>10 DEF Filled
  <2> QED
    BY <1>1, <1>11, <1>16, <2>1, <2>2, <2>3
<1>17. Hands(c, r)
  BY <1>1, <1>5 DEF Hands, Working
<1>18. shown' \in Results /\ (shown' # NoResult => ResultOk(shown)')
  BY <1>1, <1>t, NotesStay DEF pceVars
<1> QED
  BY <1>1, <1>5, <1>12, <1>13, <1>14, <1>15, <1>16, <1>17, <1>18, <1>t, StepKeeps
-----------------------------------------------------------------------------
(* open_period.                                                            *)

\* There is a free place for a store.
LEMMA FreePlace ==
    ASSUME Shape
    PROVE  NextStore \in Nat \ {0} /\ (NextStore \in DOMAIN stores => ~stores[NextStore].open)
<1> DEFINE n == Cardinality(DOMAIN stores)
           Places == 1 .. n + 1
<1>1. IsFiniteSet(DOMAIN stores) /\ n \in Nat
  BY FS_CardinalityType DEF Shape
<1>2. IsFiniteSet(Places) /\ Cardinality(Places) = n + 1
  <2>1. 1 \in Int /\ n + 1 \in Int
    BY <1>1
  <2> HIDE DEF n
  <2>2. IsFiniteSet(Places) /\ Cardinality(Places) = IF 1 > n + 1 THEN 0 ELSE (n + 1) - 1 + 1
    BY <2>1, FS_Interval
  <2> QED
    BY <1>1, <2>2
<1>3. \E g \in Places : g \notin DOMAIN stores
  <2>1. SUFFICES ASSUME Places \subseteq DOMAIN stores PROVE FALSE
    OBVIOUS
  <2>2. Cardinality(Places) <= n
    BY <1>1, <2>1, FS_Subset
  <2> QED
    BY <1>1, <1>2, <2>2
<1>4. NextStore \in Places /\ (NextStore \notin DOMAIN stores \/ ~stores[NextStore].open)
  BY <1>3 DEF NextStore
<1> QED
  BY <1>1, <1>4

\* A request opens a store under its key: nobody else has it.
LEMMA OpenPeriodKeeps == ASSUME IInv, NEW c \in Clicks, OpenPeriod(c) PROVE IInv'
<1> DEFINE n == NextStore
           r == [click[c] EXCEPT !.step = "seeding", !.reads = configured, !.store = n]
           s == [of |-> NoAnswer, seed |-> NoAnswer, key |-> <<click[c].pce, click[c].epoch>>,
                 length |-> click[c].length, since |-> click[c].clock, refs |-> 0, retired |-> FALSE, open |-> TRUE]
<1>1. /\ click[c].step = "opening" /\ UNCHANGED <<pceVars, owner, kept, shown>>
      /\ stores' = [f \in DOMAIN stores \cup {n} |-> IF f # n THEN stores[f] ELSE s]
      /\ click' = [click EXCEPT ![c] = r]
  BY DEF OpenPeriod
<1>t. /\ click \in [Clicks -> Requests] /\ stores \in [DOMAIN stores -> Files] /\ kept \in Nat
      /\ DOMAIN stores \in SUBSET (Nat \ {0}) /\ IsFiniteSet(DOMAIN stores)
      /\ shown \in Results /\ (shown # NoResult => ResultOk(shown))
      /\ configured \in PceNames /\ configured \in Names
  BY DEF IInv, Shape, Names
<1>2. n \in Nat /\ n # 0 /\ (n \in DOMAIN stores => ~stores[n].open)
  BY FreePlace DEF IInv
<1>3. click[c] \in Requests /\ ClickOk(c) /\ HoldOk(c) /\ ~Reads(c) /\ ~Fills(c) /\ "seeding" \in Steps
  BY <1>1, <1>t DEF IInv, Reads, Fills, Steps, Working
<1>4. /\ r \in Requests /\ r.step = "seeding" /\ r.kind = click[c].kind /\ r.pce = click[c].pce
      /\ r.epoch = click[c].epoch /\ r.store = n /\ r.reads = configured /\ r.answer = click[c].answer
      /\ r.from = click[c].from /\ r.result = click[c].result
  BY <1>2, <1>3, <1>t DEF Requests
<1>5. /\ click[c].kind # "predicted" /\ NotedOk(click[c].pce, click[c].epoch) /\ owner = c
      /\ click[c].answer = NoAnswer /\ click[c].from = {}
  BY <1>1, <1>3 DEF ClickOk, HoldOk, Working
<1>6. /\ s \in Files /\ s.of = NoAnswer /\ s.seed = NoAnswer /\ s.key = <<click[c].pce, click[c].epoch>>
      /\ s.refs = 0 /\ ~s.retired /\ s.open
  BY Fields DEF IInv, Files, Names
<1> HIDE DEF n, r, s
<1>7. click'[c] = r /\ (\A d \in Clicks : d # c => click'[d] = click[d]) /\ ~Reads(c)' /\ Fills(c)'
  BY <1>1, <1>4, <1>5, <1>t DEF Reads, Fills
<1>8. /\ DOMAIN stores' = DOMAIN stores \cup {n} /\ stores'[n] = s
      /\ \A g \in DOMAIN stores : g # n => stores'[g] = stores[g]
  BY <1>1
<1>9. DOMAIN stores' \in SUBSET (Nat \ {0}) /\ IsFiniteSet(DOMAIN stores') /\ stores' \in [DOMAIN stores' -> Files]
  <2>1. IsFiniteSet(DOMAIN stores \cup {n})
    BY <1>t, FS_AddElement
  <2>2. \A g \in DOMAIN stores' : stores'[g] \in Files
    BY <1>6, <1>8, <1>t
  <2>3. stores' = [g \in DOMAIN stores' |-> stores'[g]]
    BY <1>1, <1>8
  <2> QED
    BY <1>2, <1>8, <1>t, <2>1, <2>2, <2>3
<1>10. \A d \in Clicks : (Reads(d)' <=> Reads(d)) /\ (d # c => (Fills(d)' <=> Fills(d)))
  BY <1>3, <1>7 DEF Reads, Fills
<1>11. /\ \A g : Readers(g)' = Readers(g)
       /\ \A g : g # n => (Filled(g)' <=> Filled(g))
       /\ \A g : g = n => Filled(g)'
  <2>1. \A g : Readers(g)' = Readers(g)
    BY <1>3, <1>7, <1>10 DEF Readers
  <2>2. \A g : g # n => (Filled(g)' <=> Filled(g))
    BY <1>3, <1>4, <1>7, <1>10 DEF Filled
  <2>3. \A g : g = n => Filled(g)'
    BY <1>4, <1>7 DEF Filled
  <2> QED
    BY <2>1, <2>2, <2>3
<1>12. Readers(n) = {}
  BY <1>2 DEF Readers, IInv, HoldOk
<1>13. ASSUME NEW g \in DOMAIN stores' PROVE StoreOk(g)'
  <2>1. CASE g # n
    <3>1. StoreOk(g)
      BY <1>8, <2>1 DEF IInv
    <3> QED
      BY <1>1, <1>8, <1>11, <2>1, <3>1, NotesStay DEF StoreOk, pceVars
  <2>2. CASE g = n
    <3>1. Cardinality(Readers(g)') = 0
      BY <1>11, <1>12, <2>2, FS_EmptySet
    <3> QED
      BY <1>1, <1>5, <1>6, <1>8, <1>11, <2>2, <3>1, NotesStay DEF StoreOk, pceVars
  <2> QED
    BY <2>1, <2>2
<1>14. n # kept
  BY <1>2 DEF IInv, KeptOk
<1>15. KeptOk'
  BY <1>1, <1>8, <1>14 DEF IInv, KeptOk
<1>16. ClickOk(c)'
  BY <1>1, <1>3, <1>4, <1>5, <1>7, <1>t DEF ClickOk, Reads, Fills, Predicts, NotedOk, ResultOk, SourceOk, pceVars
<1>17. HoldOk(c)'
  BY <1>1, <1>4, <1>5, <1>6, <1>7, <1>8, <1>14 DEF HoldOk, Working
<1>18. \A d \in Clicks : d # c /\ (Reads(d) \/ Fills(d)) =>
          /\ click[d].store \in DOMAIN stores' /\ stores'[click[d].store].open
          /\ stores'[click[d].store].key = stores[click[d].store].key
          /\ stores'[click[d].store].of = stores[click[d].store].of
          /\ Fills(d) => stores'[click[d].store] = stores[click[d].store] /\ click[d].store # kept'
  BY <1>1, <1>2, <1>8 DEF IInv, HoldOk
<1>19. Hands(c, r)
  BY <1>1, <1>4 DEF Hands, Working
<1>20. shown' \in Results /\ (shown' # NoResult => ResultOk(shown)')
  BY <1>1, <1>t, NotesStay DEF pceVars
<1> QED
  BY <1>1, <1>4, <1>9, <1>13, <1>15, <1>16, <1>17, <1>18, <1>19, <1>20, <1>t, StepKeeps

\* A request lets go of the store it filled, and goes on or is over.
LEMMA CloseOwnKeeps ==
    ASSUME IInv, NEW c \in Clicks, NEW r \in Requests, Fills(c), stores' = Closed(click[c].store),
           click' = [click EXCEPT ![c] = r], UNCHANGED <<pceVars, kept, shown>>, Hands(c, r),
           ~Reads(c)', ~Fills(c)', ClickOk(c)'
    PROVE  IInv'
<1> DEFINE f == click[c].store
<1>t. /\ click \in [Clicks -> Requests] /\ stores \in [DOMAIN stores -> Files] /\ kept \in Nat
      /\ DOMAIN stores \in SUBSET (Nat \ {0}) /\ IsFiniteSet(DOMAIN stores)
      /\ shown \in Results /\ (shown # NoResult => ResultOk(shown))
  BY DEF IInv, Shape
<1>1. /\ f \in DOMAIN stores /\ stores[f].open /\ stores[f].refs = 0 /\ f # kept /\ owner = c
  BY DEF IInv, HoldOk, Fills, Working, ClickOk
<1>2. Readers(f) = {} /\ ~Reads(c)
  BY <1>1, ReadersCount DEF Reads, Fills
<1> HIDE DEF f
<1>3. /\ DOMAIN stores' = DOMAIN stores /\ stores'[f] = NoStore /\ stores' \in [DOMAIN stores' -> Files]
      /\ \A g \in DOMAIN stores : g # f => stores'[g] = stores[g]
  <2>1. stores' = [stores EXCEPT ![f] = NoStore]
    BY DEF Closed, f
  <2> QED
    BY <1>1, <1>t, <2>1, Records
<1>4. ~NoStore.open
  BY DEF NoStore
<1>5. click'[c] = r /\ (\A d \in Clicks : d # c => click'[d] = click[d])
  BY <1>t
<1>6. \A d \in Clicks : (Reads(d)' <=> Reads(d)) /\ (d # c => (Fills(d)' <=> Fills(d)))
  BY <1>2, <1>5 DEF Reads, Fills
<1>7. \A d \in Clicks : Fills(d) => d = c
  <2>1. \A d \in Clicks : Fills(d) => owner = d
    BY DEF IInv, HoldOk, Fills, Working
  <2> QED
    BY <1>1, <2>1
<1>8. /\ \A g : Readers(g)' = Readers(g)
      /\ \A g : g # f => (Filled(g)' <=> Filled(g))
  <2>1. \A g : Readers(g)' = Readers(g)
    BY <1>2, <1>5, <1>6 DEF Readers
  <2>2. \A g : g # f => (Filled(g)' <=> Filled(g))
    BY <1>5, <1>6 DEF Filled, f
  <2> QED
    BY <2>1, <2>2
<1>9. ASSUME NEW g \in DOMAIN stores' PROVE StoreOk(g)'
  <2>1. CASE g # f
    <3>1. StoreOk(g)
      BY <1>3 DEF IInv
    <3> QED
      BY <1>3, <1>8, <2>1, <3>1, NotesStay DEF StoreOk, pceVars
  <2>2. CASE g = f
    BY <1>3, <1>4, <2>2 DEF StoreOk
  <2> QED
    BY <2>1, <2>2
<1>10. KeptOk'
  BY <1>1, <1>3 DEF IInv, KeptOk
<1>11. owner' = c <=> r.step \in Working => HoldOk(c)'
  BY <1>5 DEF HoldOk
<1>12. \A d \in Clicks : d # c /\ (Reads(d) \/ Fills(d)) =>
          /\ click[d].store \in DOMAIN stores' /\ stores'[click[d].store].open
          /\ stores'[click[d].store].key = stores[click[d].store].key
          /\ stores'[click[d].store].of = stores[click[d].store].of
          /\ Fills(d) => stores'[click[d].store] = stores[click[d].store] /\ click[d].store # kept'
  <2>1. \A d \in Clicks : Reads(d) => click[d].store \in DOMAIN stores /\ stores[click[d].store].open /\ click[d].store # f
    BY <1>2 DEF IInv, HoldOk, Readers
  <2> QED
    BY <1>3, <1>7, <2>1
<1>13. shown' \in Results /\ (shown' # NoResult => ResultOk(shown)')
  BY <1>t, NotesStay DEF pceVars
<1>14. DOMAIN stores' \in SUBSET (Nat \ {0}) /\ IsFiniteSet(DOMAIN stores') /\ kept' \in Nat
  BY <1>3, <1>t
<1> QED
  BY <1>3, <1>9, <1>10, <1>11, <1>12, <1>13, <1>14, StepKeeps

\* A request ends and lets go of the store it filled and of the lock.
LEMMA CloseAndEnd ==
    ASSUME IInv, NEW c \in Clicks, Fills(c), stores' = Closed(click[c].store), owner' = NoAnswer,
           NEW o \in Names, NEW from \in SUBSET Names, from \subseteq {o} \/ o = NoAnswer,
           click' = [click EXCEPT ![c] = Over(c, o, from)], UNCHANGED <<pceVars, kept, shown>>
    PROVE  IInv'
<1>1. owner = c
  BY DEF IInv, HoldOk, Fills, Working
<1>2. /\ Over(c, o, from) \in Requests /\ Over(c, o, from).step = "done" /\ ClickOk(c)' /\ ~Reads(c)' /\ ~Fills(c)'
  BY OverIs, OverOk DEF IInv
<1>3. Hands(c, Over(c, o, from))
  BY <1>1, <1>2 DEF Hands, Working
<1> HIDE DEF Over
<1> QED
  BY <1>2, <1>3, CloseOwnKeeps

\* A request fills the store it opened: what is put in it is of the PCE it reads.
LEMMA FillKeeps ==
    ASSUME IInv, NEW c \in Clicks, Fills(c), NEW s \in Files, stores' = [stores EXCEPT ![click[c].store] = s],
           s.open, ~s.retired, s.refs = 0, s.key = stores[click[c].store].key,
           NEW step \in {"pulling", "computing"}, click' = [click EXCEPT ![c].step = step],
           step = "computing" => click[c].kind # "run",
           s.of = IF step = "computing" THEN click[c].reads ELSE NoAnswer, s.seed \in {NoAnswer, click[c].reads},
           UNCHANGED <<pceVars, owner, kept, shown>>
    PROVE  IInv'
<1> DEFINE f == click[c].store
           r == [click[c] EXCEPT !.step = step]
<1>t. /\ click \in [Clicks -> Requests] /\ stores \in [DOMAIN stores -> Files] /\ kept \in Nat
      /\ DOMAIN stores \in SUBSET (Nat \ {0}) /\ IsFiniteSet(DOMAIN stores)
      /\ shown \in Results /\ (shown # NoResult => ResultOk(shown))
  BY DEF IInv, Shape
<1>1. /\ f \in DOMAIN stores /\ stores[f].open /\ stores[f].refs = 0 /\ f # kept /\ owner = c
      /\ stores[f].key = <<click[c].pce, click[c].epoch>>
  BY DEF IInv, HoldOk, Fills, Working
<1>2. /\ click[c].kind # "predicted" /\ NotedOk(click[c].pce, click[c].epoch)
      /\ (click[c].pce = configured /\ click[c].epoch = generation => click[c].reads = configured)
      /\ click[c].answer = NoAnswer /\ click[c].from = {} /\ click[c].reads \in PceNames /\ ClickOk(c)
  <2>1. ClickOk(c) /\ click[c].step \in {"seeding", "pulling", "computing"} /\ click[c].kind # "predicted"
    BY DEF IInv, Fills
  <2> QED
    BY <2>1 DEF ClickOk
<1>3. Readers(f) = {} /\ ~Reads(c)
  BY <1>1, ReadersCount DEF Reads, Fills
<1>4. step \in Steps /\ step # "seeding" /\ click[c] \in Requests
  BY Fields DEF Steps, Working, IInv
<1>5. /\ r \in Requests /\ r.step = step /\ r.kind = click[c].kind /\ r.pce = click[c].pce
      /\ r.epoch = click[c].epoch /\ r.store = f /\ r.reads = click[c].reads /\ r.answer = click[c].answer
      /\ r.from = click[c].from /\ r.result = click[c].result
  BY <1>4 DEF Requests
<1>6. click' = [click EXCEPT ![c] = r]
  OBVIOUS
<1> HIDE DEF r
<1>7. click'[c] = r /\ (\A d \in Clicks : d # c => click'[d] = click[d]) /\ ~Reads(c)' /\ Fills(c)'
  BY <1>2, <1>4, <1>5, <1>6, <1>t DEF Reads, Fills
<1>8. /\ DOMAIN stores' = DOMAIN stores /\ stores'[f] = s /\ stores' \in [DOMAIN stores' -> Files]
      /\ \A g \in DOMAIN stores : g # f => stores'[g] = stores[g]
  BY <1>1, <1>t
<1>9. \A d \in Clicks : (Reads(d)' <=> Reads(d)) /\ (Fills(d)' <=> Fills(d))
  BY <1>3, <1>7 DEF Reads, Fills
<1>10. \A g : Readers(g)' = Readers(g) /\ (Filled(g)' <=> Filled(g))
  <2>1. \A g : Readers(g)' = Readers(g)
    BY <1>3, <1>7, <1>9 DEF Readers
  <2>2. \A g : Filled(g)' <=> Filled(g)
    BY <1>5, <1>7, <1>9 DEF Filled
  <2> QED
    BY <2>1, <2>2
<1>11. Filled(f)
  BY DEF Filled
<1>12. ASSUME NEW g \in DOMAIN stores' PROVE StoreOk(g)'
  <2>1. StoreOk(g)
    BY <1>8 DEF IInv
  <2>2. CASE g # f
    BY <1>8, <1>10, <2>1, <2>2, NotesStay DEF StoreOk, pceVars
  <2>3. CASE g = f
    <3>1. stores'[g] = s /\ Filled(g)' /\ Cardinality(Readers(g)') = 0 /\ s.key = <<click[c].pce, click[c].epoch>>
      BY <1>1, <1>3, <1>8, <1>10, <1>11, <2>3, FS_EmptySet
    <3>2. NotedOk(s.key[1], s.key[2]) /\ (s.of # NoAnswer => SourceOk(s.key[1], s.key[2], s.of, s.seed))
      BY <1>2, <3>1 DEF SourceOk
    <3> QED
      BY <3>1, <3>2, NotesStay DEF StoreOk, pceVars
  <2> QED
    BY <2>2, <2>3
<1>13. KeptOk'
  BY <1>1, <1>8 DEF IInv, KeptOk
<1>14. ClickOk(c)'
  BY <1>2, <1>4, <1>5, <1>7 DEF ClickOk, Reads, Fills, Predicts, NotedOk, ResultOk, SourceOk, pceVars
<1>15. step \in Working
  BY DEF Working
<1>16. HoldOk(c)'
  BY <1>1, <1>5, <1>7, <1>8, <1>15 DEF HoldOk
<1>17. \A d \in Clicks : Fills(d) => d = c
  <2>1. \A d \in Clicks : Fills(d) => owner = d
    BY DEF IInv, HoldOk, Fills, Working
  <2> QED
    BY <1>1, <2>1
<1>18. \A d \in Clicks : d # c /\ (Reads(d) \/ Fills(d)) =>
          /\ click[d].store \in DOMAIN stores' /\ stores'[click[d].store].open
          /\ stores'[click[d].store].key = stores[click[d].store].key
          /\ stores'[click[d].store].of = stores[click[d].store].of
          /\ Fills(d) => stores'[click[d].store] = stores[click[d].store] /\ click[d].store # kept'
  <2>1. \A d \in Clicks : Reads(d) => click[d].store \in DOMAIN stores /\ stores[click[d].store].open /\ click[d].store # f
    BY <1>3 DEF IInv, HoldOk, Readers
  <2> QED
    BY <1>8, <1>17, <2>1
<1>19. Hands(c, r)
  BY <1>1, <1>5, <1>15 DEF Hands, IInv, HoldOk
<1>20. shown' \in Results /\ (shown' # NoResult => ResultOk(shown)')
  BY <1>t, NotesStay DEF pceVars
<1>21. DOMAIN stores' \in SUBSET (Nat \ {0}) /\ IsFiniteSet(DOMAIN stores') /\ kept' \in Nat
  BY <1>8, <1>t
<1> QED
  BY <1>5, <1>6, <1>8, <1>12, <1>13, <1>14, <1>16, <1>18, <1>19, <1>20, <1>21, StepKeeps

\* The inventory is copied into the store if it is of the PCE that is read, else the request is refused.
LEMMA SeedPeriodKeeps == ASSUME IInv, NEW c \in Clicks, SeedPeriod(c) PROVE IInv'
<1> DEFINE f == click[c].store
<1>1. click[c].step = "seeding" /\ UNCHANGED <<pceVars, kept, shown>>
  BY DEF SeedPeriod
<1>2. Fills(c) /\ HoldOk(c) /\ ClickOk(c)
  BY <1>1 DEF IInv, ClickOk, Fills
<1>3. CASE SeedRefused(c)
  <2>1. stores' = Closed(f) /\ owner' = NoAnswer /\ click' = [click EXCEPT ![c] = Over(c, NoAnswer, {})]
    BY <1>3 DEF SeedPeriod
  <2>2. NoAnswer \in Names /\ {} \in SUBSET Names
    BY DEF Names
  <2> QED
    BY <1>1, <1>2, <2>1, <2>2, CloseAndEnd
<1>4. CASE ~SeedRefused(c)
  <2> DEFINE s == [stores[f] EXCEPT !.seed = boundTo]
  <2>1. f \in DOMAIN stores /\ stores[f] \in Files /\ boundTo \in Names
    BY <1>2, Fields DEF HoldOk, IInv, Shape
  <2>2. /\ s \in Files /\ s.open = stores[f].open /\ s.retired = stores[f].retired /\ s.refs = stores[f].refs
        /\ s.key = stores[f].key /\ s.of = stores[f].of /\ s.seed = boundTo
    BY <2>1 DEF Files
  <2>3. stores' = [stores EXCEPT ![f] = s] /\ UNCHANGED owner /\ click' = [click EXCEPT ![c].step = "pulling"]
    BY <1>4 DEF SeedPeriod
  <2>4. boundTo \in {NoAnswer, click[c].reads}
    BY <1>4 DEF SeedRefused
  <2>5. s.open /\ ~s.retired /\ s.refs = 0 /\ s.of = NoAnswer
    BY <1>1, <1>2, <2>2 DEF HoldOk
  <2> HIDE DEF s
  <2> QED
    BY <1>1, <1>2, <2>2, <2>3, <2>4, <2>5, FillKeeps
<1> QED
  BY <1>3, <1>4

\* The period is read for the workbench: the store is kept and leased, and the one kept before is retired.
LEMMA PeriodIsKept ==
    ASSUME IInv, NEW c \in Clicks, PeriodIsRead(c), click[c].kind = "run"
    PROVE  IInv'
<1> DEFINE f == click[c].store
           s == [stores[f] EXCEPT !.of = click[c].reads, !.refs = 1]
           r == [click[c] EXCEPT !.step = "reading"]
<1>t. /\ click \in [Clicks -> Requests] /\ stores \in [DOMAIN stores -> Files] /\ kept \in Nat
      /\ DOMAIN stores \in SUBSET (Nat \ {0}) /\ IsFiniteSet(DOMAIN stores)
      /\ shown \in Results /\ (shown # NoResult => ResultOk(shown))
  BY DEF IInv, Shape
<1>1. click[c].step = "pulling" /\ UNCHANGED <<pceVars, shown>> /\ kept' = f /\ owner' = NoAnswer
      /\ click' = [click EXCEPT ![c].step = "reading"]
  BY DEF PeriodIsRead
<1>2. Fills(c) /\ HoldOk(c) /\ ClickOk(c) /\ click[c] \in Requests /\ owner = c
  BY <1>1, <1>t DEF IInv, Fills, HoldOk, Working
<1>3. /\ f \in DOMAIN stores /\ f # kept /\ f # 0 /\ stores[f] \in Files /\ stores[f].open /\ stores[f].refs = 0
      /\ ~stores[f].retired /\ stores[f].key = <<click[c].pce, click[c].epoch>>
      /\ stores[f].seed \in {NoAnswer, click[c].reads}
  BY <1>1, <1>2, <1>t DEF HoldOk
<1>4. /\ NotedOk(click[c].pce, click[c].epoch) /\ click[c].answer = NoAnswer /\ click[c].from = {}
      /\ (click[c].pce = configured /\ click[c].epoch = generation => click[c].reads = configured)
      /\ click[c].reads \in PceNames /\ click[c].reads \in Names
  <2>1. click[c].reads \in PceNames
    BY <1>2 DEF ClickOk
  <2> QED
    BY <1>1, <1>2, <2>1 DEF ClickOk, Names
<1>5. /\ s \in Files /\ s.open /\ ~s.retired /\ s.refs = 1 /\ s.key = stores[f].key /\ s.of = click[c].reads
      /\ s.seed = stores[f].seed
  BY <1>3, <1>4 DEF Files
<1>6. /\ r \in Requests /\ r.step = "reading" /\ r.kind = "run" /\ r.pce = click[c].pce
      /\ r.epoch = click[c].epoch /\ r.store = f /\ r.answer = click[c].answer /\ r.from = click[c].from
  <2>1. "reading" \in Steps
    BY DEF Steps
  <2> QED
    BY <1>2, <2>1 DEF Requests
<1>7. click' = [click EXCEPT ![c] = r]
  BY <1>1
<1>8. stores' = [g \in DOMAIN stores |-> IF g = f THEN s ELSE IF g = kept THEN Retired(kept)[kept] ELSE stores[g]]
  <2> DEFINE read == [stores EXCEPT ![f].of = click[c].reads]
  <2>1. stores' = [g \in DOMAIN stores |-> IF g = f THEN [read[f] EXCEPT !.refs = 1]
                                           ELSE IF g = kept THEN Retired(kept)[kept] ELSE stores[g]]
    BY DEF PeriodIsRead
  <2>2. read[f] = [stores[f] EXCEPT !.of = click[c].reads]
    BY <1>3, <1>t
  <2>3. [read[f] EXCEPT !.refs = 1] = s
    BY <2>2
  <2> QED
    BY <2>1, <2>3
<1>9. ASSUME kept # 0
      PROVE  /\ kept \in DOMAIN stores /\ stores'[kept] \in Files
             /\ \/ ~stores'[kept].open /\ Readers(kept) = {}
                \/ /\ stores'[kept].retired /\ stores'[kept].refs > 0 /\ stores'[kept].open
                   /\ stores'[kept].refs = stores[kept].refs /\ stores'[kept].key = stores[kept].key
                   /\ stores'[kept].of = stores[kept].of /\ stores'[kept].seed = stores[kept].seed
  <2>1. kept \in DOMAIN stores /\ stores[kept].open /\ stores[kept] \in Files /\ stores[kept].refs \in Nat
    BY <1>9, Fields DEF IInv, KeptOk
  <2>2. stores'[kept] = Retired(kept)[kept]
    BY <1>3, <1>8, <2>1
  <2>3. CASE stores[kept].refs > 0
    <3>1. stores'[kept] = [stores[kept] EXCEPT !.retired = TRUE]
      BY <1>t, <2>1, <2>2, <2>3 DEF Retired
    <3>2. /\ stores'[kept] \in Files /\ stores'[kept].retired /\ stores'[kept].open = stores[kept].open
          /\ stores'[kept].refs = stores[kept].refs /\ stores'[kept].key = stores[kept].key
          /\ stores'[kept].of = stores[kept].of /\ stores'[kept].seed = stores[kept].seed
      BY <2>1, <3>1 DEF Files
    <3> QED
      BY <2>1, <2>3, <3>2
  <2>4. CASE ~(stores[kept].refs > 0)
    <3>1. stores'[kept] = NoStore
      BY <1>t, <2>1, <2>2, <2>4 DEF Retired, Closed
    <3>2. Readers(kept) = {}
      BY <2>1, <2>4, ReadersCount
    <3>3. ~NoStore.open
      BY DEF NoStore
    <3> QED
      BY <2>1, <3>1, <3>2, <3>3, Records
  <2> QED
    BY <2>3, <2>4
<1> HIDE DEF r, s, f
<1>10. click'[c] = r /\ (\A d \in Clicks : d # c => click'[d] = click[d]) /\ Reads(c)' /\ ~Fills(c)' /\ ~Reads(c)
  BY <1>2, <1>6, <1>7, <1>t DEF Reads, Fills
<1>11. /\ DOMAIN stores' = DOMAIN stores /\ stores'[f] = s
       /\ \A g \in DOMAIN stores : g # f /\ g # kept => stores'[g] = stores[g]
  BY <1>3, <1>8
<1>12. DOMAIN stores' \in SUBSET (Nat \ {0}) /\ IsFiniteSet(DOMAIN stores') /\ stores' \in [DOMAIN stores' -> Files] /\ kept' \in Nat
  <2>1. \A g \in DOMAIN stores : stores'[g] \in Files
    BY <1>5, <1>9, <1>11, <1>t
  <2>2. stores' = [g \in DOMAIN stores' |-> stores'[g]]
    BY <1>8, <1>11
  <2> QED
    BY <1>1, <1>3, <1>11, <1>t, <2>1, <2>2
<1>13. \A d \in Clicks : (Fills(d) => d = c) /\ (d # c => (Reads(d)' <=> Reads(d)) /\ (Fills(d)' <=> Fills(d)))
  <2>1. \A d \in Clicks : Fills(d) => owner = d
    BY DEF IInv, HoldOk, Fills, Working
  <2> QED
    BY <1>2, <1>10, <2>1 DEF Reads, Fills
<1>14. Readers(f) = {}
  BY <1>3, ReadersCount
<1>15. /\ \A g : g # f => (Filled(g)' <=> Filled(g)) /\ Readers(g)' = Readers(g)
       /\ \A g : g = f => Readers(g)' = {c}
  <2>1. \A g : g # f => Readers(g)' = Readers(g)
    BY <1>6, <1>10, <1>13 DEF Readers
  <2>2. \A g : g = f => Readers(g)' = {c}
    BY <1>6, <1>10, <1>13, <1>14 DEF Readers
  <2>3. \A g : g # f => (Filled(g)' <=> Filled(g))
    BY <1>10, <1>13 DEF Filled, f
  <2> QED
    BY <2>1, <2>2, <2>3
<1>16. ASSUME NEW g \in DOMAIN stores' PROVE StoreOk(g)'
  <2>1. StoreOk(g) /\ g # 0
    BY <1>11, <1>t DEF IInv
  <2>2. CASE g = f
    <3>1. Cardinality(Readers(g)') = 1
      BY <1>15, <2>2, FS_Singleton
    <3>2. NotedOk(s.key[1], s.key[2]) /\ SourceOk(s.key[1], s.key[2], s.of, s.seed)
      BY <1>3, <1>4, <1>5 DEF SourceOk
    <3> QED
      BY <1>1, <1>5, <1>11, <2>2, <3>1, <3>2, NotesStay DEF StoreOk, pceVars
  <2>3. CASE g # f /\ g = kept
    <3>1. stores[kept].open
      BY <2>1, <2>3 DEF IInv, KeptOk
    <3> QED
      BY <1>1, <1>9, <1>15, <2>1, <2>3, <3>1, NotesStay DEF StoreOk, pceVars
  <2>4. CASE g # f /\ g # kept
    BY <1>1, <1>11, <1>15, <2>1, <2>4, NotesStay DEF StoreOk, pceVars
  <2> QED
    BY <2>2, <2>3, <2>4
<1>17. KeptOk'
  BY <1>1, <1>3, <1>4, <1>5, <1>11 DEF KeptOk
<1>18. ClickOk(c)'
  BY <1>1, <1>4, <1>6, <1>10 DEF ClickOk, Predicts, NotedOk, pceVars
<1>19. owner' = c <=> r.step \in Working => HoldOk(c)'
  BY <1>1, <1>3, <1>4, <1>5, <1>6, <1>10, <1>11 DEF HoldOk
<1>20. ASSUME NEW d \in Clicks, d # c, Reads(d) \/ Fills(d)
       PROVE  /\ click[d].store \in DOMAIN stores' /\ stores'[click[d].store].open
              /\ stores'[click[d].store].key = stores[click[d].store].key
              /\ stores'[click[d].store].of = stores[click[d].store].of
              /\ Fills(d) => stores'[click[d].store] = stores[click[d].store] /\ click[d].store # kept'
  <2>1. Reads(d) /\ ~Fills(d)
    BY <1>13, <1>20
  <2>2. click[d].store \in DOMAIN stores /\ stores[click[d].store].open /\ click[d].store # f
    BY <1>14, <2>1 DEF IInv, HoldOk, Readers
  <2>3. click[d].store = kept => Readers(kept) # {} /\ kept # 0
    BY <1>t, <2>1, <2>2 DEF Readers
  <2> QED
    BY <1>9, <1>11, <2>1, <2>2, <2>3
<1>21. Hands(c, r)
  BY <1>1, <1>2, <1>6 DEF Hands, Working
<1>22. shown' \in Results /\ (shown' # NoResult => ResultOk(shown)')
  BY <1>1, <1>t, NotesStay DEF pceVars
<1> QED
  BY <1>1, <1>6, <1>7, <1>12, <1>16, <1>17, <1>18, <1>19, <1>20, <1>21, <1>22, StepKeeps

\* The period is read.
LEMMA PeriodIsReadKeeps == ASSUME IInv, NEW c \in Clicks, PeriodIsRead(c) PROVE IInv'
<1> DEFINE f == click[c].store
           s == [stores[f] EXCEPT !.of = click[c].reads]
<1>1. CASE click[c].kind = "run"
  BY <1>1, PeriodIsKept
<1>2. CASE click[c].kind # "run"
  <2>1. /\ click[c].step = "pulling" /\ click[c].kind # "predicted" /\ UNCHANGED <<pceVars, owner, kept, shown>>
        /\ stores' = [stores EXCEPT ![f].of = click[c].reads] /\ click' = [click EXCEPT ![c].step = "computing"]
    BY <1>2 DEF PeriodIsRead
  <2>2. Fills(c) /\ HoldOk(c)
    BY <2>1 DEF IInv, Fills
  <2>3. f \in DOMAIN stores /\ stores[f] \in Files /\ click[c].reads \in Names
    BY <2>2, Fields DEF HoldOk, IInv
  <2>4. /\ s \in Files /\ s.open = stores[f].open /\ s.retired = stores[f].retired /\ s.refs = stores[f].refs
        /\ s.key = stores[f].key /\ s.of = click[c].reads /\ s.seed = stores[f].seed
    BY <2>3 DEF Files
  <2>5. stores' = [stores EXCEPT ![f] = s]
    BY <2>1
  <2>6. s.open /\ ~s.retired /\ s.refs = 0 /\ s.seed \in {NoAnswer, click[c].reads}
    BY <2>1, <2>2, <2>4 DEF HoldOk
  <2> HIDE DEF s
  <2> QED
    BY <1>2, <2>1, <2>2, <2>4, <2>5, <2>6, FillKeeps
<1> QED
  BY <1>1, <1>2

\* The PCE could not answer: the store and the lock are let go.
LEMMA PeriodFailsKeeps == ASSUME IInv, NEW c \in Clicks, PeriodFails(c) PROVE IInv'
<1>1. /\ click[c].step = "pulling" /\ UNCHANGED <<pceVars, kept, shown>> /\ owner' = NoAnswer
      /\ click' = [click EXCEPT ![c] = Over(c, NoAnswer, {})]
      /\ stores' = IF click[c].store = 0 THEN stores ELSE Closed(click[c].store)
  BY DEF PeriodFails
<1>2. CASE click[c].kind = "predicted"
  BY <1>2, PredictedEndsKeeps
<1>3. CASE click[c].kind # "predicted"
  <2>1. Fills(c) /\ NoAnswer \in Names /\ {} \in SUBSET Names
    BY <1>1, <1>3 DEF Fills, Names
  <2>2. click[c].store # 0
    BY <2>1 DEF IInv, HoldOk, Shape
  <2> QED
    BY <1>1, <2>1, <2>2, CloseAndEnd
<1> QED
  BY <1>2, <1>3

\* What a store was filled with is sound under its key.
LEMMA FilledIsSound ==
    ASSUME IInv, NEW c \in Clicks, click[c].step = "computing"
    PROVE  LET f == click[c].store
           IN /\ f \in DOMAIN stores /\ stores[f].of \in PceNames /\ stores[f].of \in Names /\ stores[f].seed \in Names
              /\ NotedOk(click[c].pce, click[c].epoch)
              /\ SourceOk(click[c].pce, click[c].epoch, stores[f].of, stores[f].seed)
<1>1. Fills(c) /\ HoldOk(c) /\ ClickOk(c)
  BY DEF IInv, Fills, ClickOk
<1>2. /\ click[c].store \in DOMAIN stores /\ stores[click[c].store].of = click[c].reads
      /\ stores[click[c].store].seed \in {NoAnswer, click[c].reads}
  BY <1>1 DEF HoldOk
<1>3. /\ NotedOk(click[c].pce, click[c].epoch) /\ click[c].reads \in PceNames
      /\ (click[c].pce = configured /\ click[c].epoch = generation => click[c].reads = configured)
  <2>1. Fills(c) => (click[c].pce = configured /\ click[c].epoch = generation => click[c].reads = configured)
    BY <1>1 DEF ClickOk
  <2>2. click[c].kind # "predicted" => NotedOk(click[c].pce, click[c].epoch)
    BY <1>1 DEF ClickOk
  <2>3. Fills(c) => click[c].reads \in PceNames
    BY <1>1 DEF ClickOk
  <2> QED
    BY <1>1, <2>1, <2>2, <2>3 DEF Fills
<1> QED
  BY <1>2, <1>3, Fields DEF IInv, SourceOk

\* A simulation is of the PCE of the result it started from.
LEMMA SimulatedFrom ==
    ASSUME IInv, NEW c \in Clicks, click[c].step = "computing", click[c].kind = "simulate", SamePce(c)
    PROVE  LET f == click[c].store
           IN /\ stores[f].of = configured
              /\ ({stores[f].of, stores[f].seed} \cup {click[c].result.of, click[c].result.seed}) \ {NoAnswer} = {configured}
<1>1. configured = click[c].pce /\ generation = click[c].epoch
  BY DEF SamePce
<1>2. stores[click[c].store].of = configured /\ stores[click[c].store].seed \in {NoAnswer, configured}
  BY <1>1, FilledIsSound DEF SourceOk
<1>3. ResultOk(click[c].result) /\ click[c].result.pce = click[c].pce /\ click[c].result.epoch = click[c].epoch
  BY DEF IInv, ClickOk
<1>4. click[c].result.of = configured /\ click[c].result.seed \in {NoAnswer, configured}
  BY <1>1, <1>3 DEF ResultOk, SourceOk
<1>5. configured # NoAnswer
  BY InteractiveAssumption DEF IInv, Shape, InteractiveAssumption
<1> QED
  BY <1>2, <1>4, <1>5

\* A computation ends: dropped when the PCE was switched, answered, or stored under its key.
LEMMA ComputeEndsKeeps == ASSUME IInv, NEW c \in Clicks, ComputeEnds(c) PROVE IInv'
<1> DEFINE f == click[c].store
           computed == [pce |-> click[c].pce, epoch |-> click[c].epoch, of |-> stores[f].of, seed |-> stores[f].seed,
                        since |-> click[c].clock]
           from == ({stores[f].of, stores[f].seed} \cup {click[c].result.of, click[c].result.seed}) \ {NoAnswer}
<1>1. /\ click[c].step = "computing" /\ UNCHANGED <<pceVars, kept, shown>> /\ stores' = Closed(f)
      /\ \/ ~SamePce(c) /\ click' = [click EXCEPT ![c] = Over(c, NoAnswer, {})] /\ owner' = NoAnswer
         \/ /\ SamePce(c) /\ click[c].kind = "simulate"
            /\ click' = [click EXCEPT ![c] = Over(c, stores[f].of, from)] /\ owner' = NoAnswer
         \/ /\ SamePce(c) /\ click[c].kind = "compute"
            /\ click' = [click EXCEPT ![c].step = "storing", ![c].result = computed] /\ UNCHANGED owner
  BY DEF ComputeEnds
<1>2. Fills(c) /\ ClickOk(c) /\ HoldOk(c) /\ click[c] \in Requests
  BY <1>1, Fields DEF IInv, Fills, ClickOk
<1>3. /\ stores[f].of \in PceNames /\ stores[f].of \in Names /\ stores[f].seed \in Names
      /\ NotedOk(click[c].pce, click[c].epoch)
      /\ SourceOk(click[c].pce, click[c].epoch, stores[f].of, stores[f].seed)
  BY <1>1, FilledIsSound
<1>4. CASE click' = [click EXCEPT ![c] = Over(c, NoAnswer, {})] /\ owner' = NoAnswer
  <2>1. NoAnswer \in Names /\ {} \in SUBSET Names
    BY DEF Names
  <2> QED
    BY <1>1, <1>2, <1>4, <2>1, CloseAndEnd
<1>5. CASE SamePce(c) /\ click[c].kind = "simulate" /\ click' = [click EXCEPT ![c] = Over(c, stores[f].of, from)] /\ owner' = NoAnswer
  <2>1. stores[f].of = configured /\ from = {configured} /\ configured \in Names
    BY <1>1, <1>5, SimulatedFrom DEF IInv, Shape, Names
  <2> HIDE DEF from
  <2>2. from \in SUBSET Names /\ from \subseteq {configured} /\ click' = [click EXCEPT ![c] = Over(c, configured, from)]
    BY <1>5, <2>1
  <2> QED
    BY <1>1, <1>2, <1>5, <2>1, <2>2, CloseAndEnd
<1>6. CASE SamePce(c) /\ click[c].kind = "compute" /\ UNCHANGED owner
           /\ click' = [click EXCEPT ![c].step = "storing", ![c].result = computed]
  <2> DEFINE r == [click[c] EXCEPT !.step = "storing", !.result = computed]
  <2>1. /\ computed \in Results /\ computed.pce = click[c].pce /\ computed.epoch = click[c].epoch
        /\ computed.of = stores[f].of /\ computed.seed = stores[f].seed
    <3>1. click[c].pce \in Names /\ click[c].epoch \in Int /\ click[c].clock \in Int
      BY Fields DEF IInv
    <3> QED
      BY <1>3, <3>1 DEF Results
  <2>2. ResultOk(computed)
    BY <1>3, <2>1 DEF ResultOk
  <2> HIDE DEF computed
  <2>3. "storing" \in Steps /\ "storing" \in Working
    BY DEF Steps, Working
  <2>4. /\ r \in Requests /\ r.step = "storing" /\ r.kind = click[c].kind /\ r.pce = click[c].pce
        /\ r.epoch = click[c].epoch /\ r.store = f /\ r.answer = click[c].answer
        /\ r.from = click[c].from /\ r.result = computed
    BY <1>2, <2>1, <2>3 DEF Requests
  <2>5. click' = [click EXCEPT ![c] = r]
    BY <1>6
  <2> HIDE DEF r
  <2>6. click'[c] = r /\ ~Reads(c)' /\ ~Fills(c)'
    BY <2>4, <2>5 DEF IInv, Shape, Reads, Fills
  <2>7. click[c].answer = NoAnswer /\ click[c].from = {}
    BY <1>1, <1>2 DEF ClickOk
  <2>8. ClickOk(c)'
    BY <1>1, <1>3, <1>6, <2>2, <2>4, <2>6, <2>7 DEF ClickOk, Predicts, Reads, NotedOk, ResultOk, SourceOk, pceVars
  <2>9. Hands(c, r)
    BY <1>1, <1>6, <2>3, <2>4 DEF Hands, Working
  <2> QED
    BY <1>1, <1>2, <2>4, <2>5, <2>6, <2>8, <2>9, CloseOwnKeeps
<1> QED
  BY <1>1, <1>4, <1>5, <1>6

-----------------------------------------------------------------------------
(* The PCE, the collectors and the clock; and every step.                  *)

\* A switch, its clearing, a collector and the clock leave the requests and what they hold.
LEMMA OthersKeep ==
    ASSUME IInv, SavePce \/ ClearForPce \/ CollectorBinds \/ TimePasses
    PROVE  IInv'
<1>1. UNCHANGED others /\ generation' \in Nat /\ generation <= generation'
      /\ configured' \in PceNames /\ boundTo' \in Names /\ clearing' \in BOOLEAN /\ now' \in Nat
  <2>1. configured \in PceNames /\ configured \in Names /\ NoAnswer \in Names /\ boundTo \in Names /\ generation \in Nat
        /\ clearing \in BOOLEAN /\ now \in Nat
    BY DEF IInv, Shape, Names
  <2>2. CASE SavePce
    BY <2>1, <2>2 DEF SavePce
  <2>3. CASE ClearForPce
    <3>1. clearing' = FALSE /\ generation' = generation + 1 /\ boundTo' = NoAnswer /\ UNCHANGED <<configured, now, others>>
      BY <2>3 DEF ClearForPce
    <3>2. generation' \in Nat /\ generation <= generation'
      BY <2>1, <3>1
    <3> QED
      BY <2>1, <3>1, <3>2
  <2>4. CASE CollectorBinds
    BY <2>1, <2>4 DEF CollectorBinds
  <2>5. CASE TimePasses
    BY <2>1, <2>5 DEF TimePasses
  <2> QED
    BY <2>2, <2>3, <2>4, <2>5
<1>2. UNCHANGED <<owner, stores, kept, shown, click>>
  BY <1>1 DEF others
<1>3. Shape'
  BY <1>1, <1>2 DEF IInv, Shape
<1>4. \A f : Readers(f)' = Readers(f) /\ (Filled(f)' <=> Filled(f))
  BY <1>2 DEF Readers, Filled, Reads, Fills
<1>5. \A r : r.epoch \in Int /\ ResultOk(r) => ResultOk(r)'
  BY NotesOutlive DEF ResultOk, IInv
<1>6. \A r \in Results : r.epoch \in Int
  BY DEF Results
<1>7. ASSUME NEW c \in Clicks PROVE ClickOk(c)' /\ HoldOk(c)'
  <2>1. ClickOk(c) /\ HoldOk(c) /\ click[c].epoch \in Int /\ click[c].result.epoch \in Int /\ generation \in Nat
    BY <1>6, Fields DEF IInv, Shape
  <2>2. click'[c] = click[c] /\ (Reads(c)' <=> Reads(c)) /\ (Fills(c)' <=> Fills(c)) /\ (Predicts(c)' <=> Predicts(c))
    BY <1>2 DEF Reads, Fills, Predicts
  <2>3. click[c].kind # "predicted" => NotedOk(click[c].pce, click[c].epoch)'
    BY <2>1, <2>2, NotesOutlive DEF ClickOk, IInv
  <2>4. click[c].kind = "predicted" => click[c].epoch <= generation'
    BY <1>1, <2>1, <2>2 DEF ClickOk
  <2>5. Predicts(c) => NotedOk(click[c].reads, click[c].epoch)'
    BY <2>1, <2>2, NotesOutlive DEF ClickOk, IInv
  <2>6. Fills(c) => (click[c].pce = configured' /\ click[c].epoch = generation' => click[c].reads = configured')
    BY <2>1, NotesOutlive DEF ClickOk, IInv, Fills
  <2>7. click[c].kind = "simulate" /\ click[c].step # "done" =>
          click[c].result.pce = click[c].pce /\ click[c].result.epoch = click[c].epoch /\ ResultOk(click[c].result)'
    BY <1>5, <2>1, <2>2 DEF ClickOk
  <2>8. click[c].step = "storing" => ResultOk(click[c].result)'
    BY <1>5, <2>1, <2>2 DEF ClickOk
  <2>9. ClickOk(c)'
    BY <2>1, <2>2, <2>3, <2>4, <2>5, <2>6, <2>7, <2>8 DEF ClickOk
  <2>10. HoldOk(c)'
    BY <1>2, <2>1, <2>2 DEF HoldOk
  <2> QED
    BY <2>9, <2>10
<1>8. ASSUME NEW f \in DOMAIN stores' PROVE StoreOk(f)'
  <2>1. StoreOk(f) /\ stores[f].key[2] \in Int
    BY <1>2, Fields DEF IInv
  <2>2. stores[f].open => NotedOk(stores[f].key[1], stores[f].key[2])'
    BY <1>2, <2>1, NotesOutlive DEF StoreOk, IInv
  <2>3. stores[f].open /\ stores[f].of # NoAnswer =>
          SourceOk(stores[f].key[1], stores[f].key[2], stores[f].of, stores[f].seed)'
    BY <1>2, <2>1, NotesOutlive DEF StoreOk, IInv
  <2> QED
    BY <1>2, <1>4, <2>1, <2>2, <2>3 DEF StoreOk
<1>9. KeptOk'
  BY <1>2 DEF IInv, KeptOk
<1>10. shown' # NoResult => ResultOk(shown)'
  BY <1>2, <1>5, <1>6 DEF IInv, Shape
<1> QED
  BY <1>2, <1>3, <1>7, <1>8, <1>9, <1>10 DEF IInv
\* Initially nothing is noted, read or held.
LEMMA InitSound == InteractiveInit => IInv
<1> SUFFICES ASSUME InteractiveInit PROVE IInv
  OBVIOUS
<1> USE DEF InteractiveInit
<1>1. Asked.step = "idle" /\ Asked.kind = "run" /\ Asked.store = 0 /\ Asked.answer = NoAnswer /\ Asked.from = {}
      /\ Asked.epoch = -1
  BY DEF Asked
<1>2. \A c \in Clicks : click[c] = Asked
  OBVIOUS
<1>3. DOMAIN stores = {}
  OBVIOUS
<1>4. Shape
  <2>1. stores \in [DOMAIN stores -> Files] /\ IsFiniteSet(DOMAIN stores)
    BY <1>3, FS_EmptySet
  <2>2. click \in [Clicks -> Requests] /\ shown \in Results
    BY <1>2, Records
  <2> QED
    BY <1>3, <2>1, <2>2 DEF Shape, Names
<1>5. ASSUME NEW c \in Clicks PROVE ClickOk(c) /\ HoldOk(c)
  <2>1. ~Reads(c) /\ ~Fills(c) /\ ~Predicts(c)
    BY <1>1, <1>2 DEF Reads, Fills, Predicts
  <2>2. ClickOk(c)
    BY <1>1, <1>2, <2>1 DEF ClickOk, NotedOk
  <2>3. owner # c
    BY InteractiveAssumption DEF InteractiveAssumption
  <2>4. click[c].step \notin Working
    BY <1>1, <1>2 DEF Working
  <2> QED
    BY <2>1, <2>2, <2>3, <2>4 DEF HoldOk
<1> QED
  BY <1>3, <1>4, <1>5 DEF IInv, KeptOk

\* Every step keeps the invariant.
LEMMA NextKeeps == IInv /\ [InteractiveNext]_interactiveVars => IInv'
<1> SUFFICES ASSUME IInv, [InteractiveNext]_interactiveVars PROVE IInv'
  OBVIOUS
<1>1. ASSUME NEW c \in Clicks, ClickBegins(c) PROVE IInv'
  BY <1>1, RunBeginsKeeps, LateralBegins, PredictedKeeps, ViewKeeps DEF ClickBegins
<1>2. ASSUME NEW c \in Clicks, ClickSteps(c) PROVE IInv'
  <2>1. CASE PredictedEnds(c)
    BY <2>1, PredictedEndsKeeps DEF PredictedEnds
  <2>2. CASE ~PredictedEnds(c)
    BY <1>2, <2>2, RunHasLockKeeps, RunChecksKeeps, RunReleasesKeeps, OpenPeriodKeeps, SeedPeriodKeeps, PeriodIsReadKeeps,
       PeriodFailsKeeps, LateralHasLock, ComputeEndsKeeps, ResultKeptKeeps, PredictedKeeps, ViewKeeps DEF ClickSteps
  <2> QED
    BY <2>1, <2>2
<1>3. CASE SavePce \/ ClearForPce \/ CollectorBinds \/ TimePasses
  BY <1>3, OthersKeep
<1>4. CASE UNCHANGED interactiveVars
  <2>1. \A f : Readers(f)' = Readers(f) /\ (Filled(f)' <=> Filled(f))
    BY <1>4 DEF interactiveVars, Readers, Filled, Reads, Fills
  <2>2. Shape' /\ KeptOk' /\ (shown' # NoResult => ResultOk(shown)')
    BY <1>4, NotesStay DEF IInv, Shape, KeptOk, interactiveVars
  <2>3. \A c \in Clicks : ClickOk(c)'
    BY <1>4 DEF IInv, ClickOk, Reads, Fills, Predicts, NotedOk, ResultOk, SourceOk, interactiveVars
  <2>4. \A c \in Clicks : HoldOk(c)'
    BY <1>4 DEF IInv, HoldOk, Reads, Fills, interactiveVars
  <2>5. \A f \in DOMAIN stores' : StoreOk(f)'
    BY <1>4, <2>1, NotesStay DEF IInv, StoreOk, interactiveVars
  <2> QED
    BY <2>2, <2>3, <2>4, <2>5, <1>4 DEF IInv, interactiveVars
<1> QED
  BY <1>1, <1>2, <1>3, <1>4 DEF InteractiveNext

\* The invariant holds always.
LEMMA AlwaysSound == InteractiveSpec => []IInv
  BY InitSound, NextKeeps, PTL DEF InteractiveSpec
\* Stores are open as long as they are read, an answer is of one PCE, and the lock is let go
\* (workbench_store._release, interactive_pull).
THEOREM PulledAreSound == InteractiveSpec => []PulledStoresAreSound
<1>1. IInv => PulledStoresAreSound
  <2> SUFFICES ASSUME IInv PROVE PulledStoresAreSound
    OBVIOUS
  <2>1. ASSUME NEW c \in Clicks, click[c].step \in {"reading", "seeding", "pulling", "computing"}, click[c].store # 0
        PROVE  stores[click[c].store].open
    <3>1. Reads(c) \/ Fills(c)
      BY <2>1 DEF IInv, ClickOk, Reads, Fills
    <3> QED
      BY <3>1 DEF IInv, HoldOk
  <2>2. ASSUME NEW f \in DOMAIN stores, stores[f].open
        PROVE  f = kept \/ stores[f].refs > 0 \/ \E c \in Clicks : owner = c /\ click[c].store = f
    <3>1. \A c \in Clicks : Fills(c) => owner = c
      BY DEF IInv, HoldOk, Fills, Working
    <3> QED
      BY <2>2, <3>1 DEF IInv, StoreOk, Filled
  <2>3. AnswerIsOfOnePce
    BY DEF AnswerIsOfOnePce, IInv, ClickOk
  <2>4. LockIsLetGo
    BY DEF LockIsLetGo, IInv, HoldOk, Working
  <2> QED
    BY <2>1, <2>2, <2>3, <2>4 DEF PulledStoresAreSound, StoresLiveAsLongAsRead
<1> QED
  BY <1>1, AlwaysSound, PTL

-----------------------------------------------------------------------------
(* What is answered.                                                       *)

\* A step of a request leaves its answer, gives it one of the configured PCE, or one of a PCE that was read for a
\* prediction and whose clearing is due if it is another.
Keeps(c) == click'[c].answer = click[c].answer /\ (click[c].answer = NoAnswer \/ click'[c].kind = click[c].kind)
Gives(c) ==
    /\ click[c].answer = NoAnswer /\ click'[c].answer = configured
    /\ click[c].kind # "predicted" /\ click'[c].kind # "predicted"
GivesPrediction(c) ==
    /\ click[c].answer = NoAnswer /\ (click'[c].answer = configured \/ clearing)
    /\ click[c].kind = "predicted" /\ click'[c].kind = "predicted"
AnswerStep(c) ==
    /\ UNCHANGED pceVars
    /\ \A d \in Clicks : d # c => click'[d] = click[d]
    /\ Keeps(c) \/ Gives(c) \/ GivesPrediction(c)

LEMMA OverAnswers ==
    ASSUME NEW c, NEW o, NEW from
    PROVE  Over(c, o, from).answer = o /\ Over(c, o, from).kind = click[c].kind
  BY DEF Over, Asked

\* A request that is at work has no answer yet; a step that gives none leaves it so.
LEMMA NoneYet ==
    ASSUME IInv, NEW c \in Clicks, NEW r, click' = [click EXCEPT ![c] = r], UNCHANGED pceVars,
           click[c].step \notin {"releasing", "done"}, r.answer = NoAnswer
    PROVE  AnswerStep(c)
<1>1. click \in [Clicks -> Requests] /\ ClickOk(c)
  BY DEF IInv, Shape
<1>2. click[c].answer = NoAnswer
  BY <1>1 DEF ClickOk
<1> QED
  BY <1>1, <1>2 DEF AnswerStep, Keeps

\* The answer of the workbench passed the check of its key.
LEMMA RunAnswers == ASSUME IInv, NEW c \in Clicks, RunChecks(c) \/ RunReleases(c) PROVE AnswerStep(c)
<1>1. click \in [Clicks -> Requests] /\ click[c] \in Requests /\ ClickOk(c) /\ HoldOk(c) /\ Reads(c)
      /\ click[c].kind = "run"
  BY DEF IInv, Shape, Reads, ClickOk, RunChecks, RunReleases
<1>2. CASE RunReleases(c)
  <2> DEFINE r == Over(c, click[c].answer, click[c].from)
  <2>1. click' = [click EXCEPT ![c] = r] /\ UNCHANGED pceVars
    BY <1>2 DEF RunReleases
  <2>2. r.answer = click[c].answer /\ r.kind = click[c].kind
    BY OverAnswers
  <2> HIDE DEF r
  <2> QED
    BY <1>1, <2>1, <2>2 DEF AnswerStep, Keeps
<1>3. CASE RunChecks(c) /\ <<configured, generation>> = <<click[c].pce, click[c].epoch>>
  <2> DEFINE f == click[c].store
             r == [click[c] EXCEPT !.step = "releasing", !.answer = stores[f].of,
                                   !.from = {stores[f].of, stores[f].seed} \ {NoAnswer}]
  <2>1. click' = [click EXCEPT ![c] = r] /\ UNCHANGED pceVars /\ click[c].step = "reading"
    BY <1>3 DEF RunChecks
  <2>2. r.answer = stores[f].of /\ r.kind = "run"
    BY <1>1 DEF Requests
  <2>3. f \in DOMAIN stores /\ StoreOk(f) /\ stores[f].open /\ stores[f].key = <<click[c].pce, click[c].epoch>>
        /\ stores[f].of \in PceNames
    BY <1>1 DEF IInv, HoldOk
  <2>4. stores[f].of = configured
    BY <1>3, <2>3, InteractiveAssumption DEF StoreOk, SourceOk, InteractiveAssumption
  <2>5. click[c].answer = NoAnswer
    BY <1>1, <2>1 DEF ClickOk
  <2> HIDE DEF r
  <2> QED
    BY <1>1, <2>1, <2>2, <2>4, <2>5 DEF AnswerStep, Gives
<1>4. CASE RunChecks(c) /\ <<configured, generation>> # <<click[c].pce, click[c].epoch>>
  <2> DEFINE r == [click[c] EXCEPT !.step = "releasing"]
  <2>1. click' = [click EXCEPT ![c] = r] /\ UNCHANGED pceVars /\ click[c].step = "reading"
    BY <1>4 DEF RunChecks
  <2>2. r.answer = click[c].answer /\ click[c].answer = NoAnswer
    BY <1>1, <2>1 DEF Requests, ClickOk
  <2> HIDE DEF r
  <2> QED
    BY <2>1, <2>2, NoneYet
<1> QED
  BY <1>2, <1>3, <1>4

\* What the lateral page shows was computed from the PCE that is configured.
LEMMA ViewAnswers == ASSUME IInv, NEW c \in Clicks, View(c) \/ Refused(c) PROVE AnswerStep(c)
<1>1. click \in [Clicks -> Requests] /\ ClickOk(c) /\ click[c].step \in {"viewing", "idle"}
  BY DEF IInv, Shape, View, Refused
<1>2. CASE View(c) /\ ResultStillShown
  <2> DEFINE r == Over(c, shown.of, {shown.of, shown.seed} \ {NoAnswer})
  <2>1. click' = [click EXCEPT ![c] = r] /\ UNCHANGED pceVars
    BY <1>2 DEF View
  <2>2. r.answer = shown.of /\ r.kind = click[c].kind
    BY OverAnswers
  <2>3. shown # NoResult /\ <<shown.pce, shown.epoch>> = <<configured, generation>>
    BY <1>2 DEF ResultStillShown, Matches
  <2>4. shown.of = configured
    BY <2>3 DEF IInv, ResultOk, SourceOk
  <2>5. click[c].answer = NoAnswer /\ click[c].kind # "predicted"
    BY <1>1 DEF ClickOk, Asked
  <2> HIDE DEF r
  <2> QED
    BY <1>1, <2>1, <2>2, <2>4, <2>5 DEF AnswerStep, Gives
<1>3. CASE (View(c) /\ ~ResultStillShown) \/ Refused(c)
  <2>1. click' = [click EXCEPT ![c] = Over(c, NoAnswer, {})] /\ UNCHANGED pceVars
    BY <1>3 DEF View, Refused
  <2>2. Over(c, NoAnswer, {}).answer = NoAnswer
    BY OverAnswers
  <2> HIDE DEF Over
  <2> QED
    BY <1>1, <2>1, <2>2, NoneYet
<1> QED
  BY <1>2, <1>3

\* A computation's answer passed the check of its key; a prediction's that of its generation.
LEMMA ComputedAnswers == ASSUME IInv, NEW c \in Clicks, ComputeEnds(c) \/ PredictedEnds(c) PROVE AnswerStep(c)
<1>1. click \in [Clicks -> Requests] /\ click[c] \in Requests /\ ClickOk(c) /\ click[c].step \in {"computing", "pulling"}
      /\ click[c].answer = NoAnswer /\ UNCHANGED pceVars
  BY DEF IInv, Shape, ClickOk, ComputeEnds, PredictedEnds
<1>2. CASE click' = [click EXCEPT ![c] = Over(c, NoAnswer, {})]
  <2>1. Over(c, NoAnswer, {}).answer = NoAnswer
    BY OverAnswers
  <2> HIDE DEF Over
  <2> QED
    BY <1>1, <1>2, <2>1, NoneYet
<1>3. CASE ComputeEnds(c) /\ SamePce(c) /\ click[c].kind = "simulate"
  <2> DEFINE f == click[c].store
             from == ({stores[f].of, stores[f].seed} \cup {click[c].result.of, click[c].result.seed}) \ {NoAnswer}
             r == Over(c, stores[f].of, from)
  <2>1. click' = [click EXCEPT ![c] = r] /\ click[c].step = "computing"
    BY <1>3 DEF ComputeEnds
  <2>2. r.answer = stores[f].of /\ r.kind = click[c].kind
    BY OverAnswers
  <2>3. stores[f].of = configured
    BY <1>3, <2>1, SimulatedFrom
  <2> HIDE DEF r
  <2> QED
    BY <1>1, <1>3, <2>1, <2>2, <2>3 DEF AnswerStep, Gives
<1>4. CASE ComputeEnds(c) /\ SamePce(c) /\ click[c].kind = "compute"
  <2> DEFINE f == click[c].store
             computed == [pce |-> click[c].pce, epoch |-> click[c].epoch, of |-> stores[f].of, seed |-> stores[f].seed,
                          since |-> click[c].clock]
             r == [click[c] EXCEPT !.step = "storing", !.result = computed]
  <2>1. click' = [click EXCEPT ![c] = r]
    BY <1>4 DEF ComputeEnds
  <2>2. r.answer = click[c].answer
    BY <1>1 DEF Requests
  <2> HIDE DEF r
  <2> QED
    BY <1>1, <2>1, <2>2, NoneYet
<1>5. CASE PredictedEnds(c) /\ ~PredictedDropped(c)
  <2> DEFINE r == Over(c, click[c].reads, {click[c].reads})
  <2>1. click' = [click EXCEPT ![c] = r] /\ Predicts(c)
    BY <1>5 DEF PredictedEnds, Predicts
  <2>2. r.answer = click[c].reads /\ r.kind = click[c].kind
    BY OverAnswers
  <2>3. click[c].epoch = generation /\ NotedOk(click[c].reads, click[c].epoch)
    BY <1>1, <1>5, <2>1 DEF PredictedDropped, ClickOk
  <2>4. click[c].reads = configured \/ clearing
    BY <2>3 DEF NotedOk
  <2> HIDE DEF r
  <2> QED
    BY <1>1, <2>1, <2>2, <2>4 DEF AnswerStep, GivesPrediction, Predicts
<1> QED
  BY <1>2, <1>3, <1>4, <1>5 DEF ComputeEnds, PredictedEnds
\* The other steps give no answer.
LEMMA OthersAnswerNothing ==
    ASSUME IInv, NEW c \in Clicks,
           \/ RunBegins(c) \/ RunHasLock(c) \/ OpenPeriod(c) \/ SeedPeriod(c) \/ PeriodIsRead(c) \/ PeriodFails(c)
           \/ ComputeBegins(c) \/ SimulateBegins(c) \/ ComputeHasLock(c) \/ SimulateHasLock(c) \/ ResultKept(c)
           \/ PredictedBegins(c) \/ PredictedHasLock(c) \/ PredictedReadsSettings(c)
    PROVE  AnswerStep(c)
<1> DEFINE Nothing == \E r : click' = [click EXCEPT ![c] = r] /\ r.answer = NoAnswer
<1>1. UNCHANGED pceVars /\ click[c].step \notin {"releasing", "done"}
  BY DEF RunBegins, RunHasLock, OpenPeriod, SeedPeriod, PeriodIsRead, PeriodFails, ComputeBegins, SimulateBegins,
         ComputeHasLock, SimulateHasLock, ResultKept, PredictedBegins, PredictedHasLock, PredictedReadsSettings
<1>2. click[c] \in Requests /\ click[c].answer = NoAnswer
  BY <1>1 DEF IInv, Shape, ClickOk
<1>3. Over(c, NoAnswer, {}).answer = NoAnswer /\ Asked.answer = NoAnswer
  BY OverAnswers DEF Asked
<1>4. CASE (SeedPeriod(c) /\ SeedRefused(c)) \/ PeriodFails(c) \/ click' = [click EXCEPT ![c] = Over(c, NoAnswer, {})]
  <2>1. click' = [click EXCEPT ![c] = Over(c, NoAnswer, {})]
    BY <1>4 DEF SeedPeriod, PeriodFails
  <2> HIDE DEF Over
  <2> QED
    BY <1>1, <1>3, <2>1, NoneYet
<1>5. CASE \E s : click' = [click EXCEPT ![c].step = s]
  <2> PICK s : click' = [click EXCEPT ![c].step = s]
    BY <1>5
  <2> DEFINE r == [click[c] EXCEPT !.step = s]
  <2>1. click' = [click EXCEPT ![c] = r]
    OBVIOUS
  <2>2. r.answer = NoAnswer
    BY <1>2 DEF Requests
  <2> HIDE DEF r
  <2> QED
    BY <1>1, <2>1, <2>2, NoneYet
<1>6. CASE SeedPeriod(c) \/ PeriodIsRead(c) \/ ComputeHasLock(c) \/ SimulateHasLock(c)
  BY <1>4, <1>5, <1>6 DEF SeedPeriod, PeriodIsRead, ComputeHasLock, SimulateHasLock
<1>7. CASE ComputeBegins(c) \/ (SimulateBegins(c) /\ Matches(shown, now)) \/ ResultKept(c) \/ PredictedBegins(c)
  <2>1. PICK r : click' = [click EXCEPT ![c] = r] /\ r.answer = NoAnswer
    <3>1. CASE ComputeBegins(c)
      <4> DEFINE r == [Asked EXCEPT !.step = "waiting", !.kind = "compute", !.pce = configured, !.epoch = generation, !.clock = now]
      <4>1. click' = [click EXCEPT ![c] = r] /\ r.answer = NoAnswer
        BY <3>1 DEF ComputeBegins, Asked
      <4> HIDE DEF r
      <4> QED
        BY <4>1
    <3>2. CASE SimulateBegins(c) /\ Matches(shown, now)
      <4> DEFINE r == [Asked EXCEPT !.step = "waiting", !.kind = "simulate", !.pce = shown.pce, !.epoch = shown.epoch,
                                    !.clock = now, !.result = shown]
      <4>1. click' = [click EXCEPT ![c] = r]
        BY <3>2 DEF SimulateBegins
      <4>2. r.answer = NoAnswer
        BY DEF Asked
      <4> HIDE DEF r
      <4> QED
        BY <4>1, <4>2
    <3>3. CASE ResultKept(c)
      <4> DEFINE r == [Asked EXCEPT !.step = "viewing", !.kind = "compute"]
      <4>1. click' = [click EXCEPT ![c] = r] /\ r.answer = NoAnswer
        BY <3>3 DEF ResultKept, Asked
      <4> HIDE DEF r
      <4> QED
        BY <4>1
    <3>4. CASE PredictedBegins(c)
      <4> DEFINE r == [Asked EXCEPT !.step = "waiting", !.kind = "predicted"]
      <4>1. click' = [click EXCEPT ![c] = r] /\ r.answer = NoAnswer
        BY <3>4 DEF PredictedBegins, Asked
      <4> HIDE DEF r
      <4> QED
        BY <4>1
    <3> QED
      BY <1>7, <3>1, <3>2, <3>3, <3>4
  <2> QED
    BY <1>1, <2>1, NoneYet
<1>8. CASE SimulateBegins(c) /\ ~Matches(shown, now)
  BY <1>4, <1>8 DEF SimulateBegins
<1>9. CASE RunBegins(c)
  <2>1. PICK length \in Lengths :
          LET next == [click[c] EXCEPT !.kind = "run", !.pce = configured, !.epoch = generation, !.length = length, !.clock = now]
              key == <<configured, generation>>
          IN \/ Lease(c, key, length, now, next)
             \/ NotCovered(key, length, now) /\ click' = [click EXCEPT ![c] = [next EXCEPT !.step = "waiting"]]
    BY <1>9 DEF RunBegins
  <2> DEFINE next == [click[c] EXCEPT !.kind = "run", !.pce = configured, !.epoch = generation, !.length = length, !.clock = now]
             r == [next EXCEPT !.step = "reading", !.store = kept]
             q == [next EXCEPT !.step = "waiting"]
  <2>2. r.answer = NoAnswer /\ q.answer = NoAnswer
    BY <1>2 DEF Requests
  <2>3. click' = [click EXCEPT ![c] = r] \/ click' = [click EXCEPT ![c] = q]
    BY <2>1 DEF Lease
  <2> HIDE DEF r, q
  <2> QED
    BY <1>1, <2>2, <2>3, NoneYet
<1>10. CASE RunHasLock(c)
  <2> DEFINE r == [click[c] EXCEPT !.step = "reading", !.store = kept]
  <2>1. click' = [click EXCEPT ![c] = r] \/ click' = [click EXCEPT ![c].step = "opening"]
    BY <1>10 DEF RunHasLock, Lease
  <2>2. r.answer = NoAnswer
    BY <1>2 DEF Requests
  <2> HIDE DEF r
  <2> QED
    BY <1>1, <1>5, <2>1, <2>2, NoneYet
<1>11. CASE OpenPeriod(c)
  <2> DEFINE r == [click[c] EXCEPT !.step = "seeding", !.reads = configured, !.store = NextStore]
  <2>1. click' = [click EXCEPT ![c] = r]
    BY <1>11 DEF OpenPeriod
  <2>2. r.answer = NoAnswer
    BY <1>2 DEF Requests
  <2> HIDE DEF r
  <2> QED
    BY <1>1, <2>1, <2>2, NoneYet
<1>12. CASE PredictedHasLock(c) \/ PredictedReadsSettings(c)
  <2> DEFINE r == [click[c] EXCEPT !.step = "noted", !.epoch = generation]
             q == [click[c] EXCEPT !.step = "pulling", !.reads = configured]
  <2>1. click' = [click EXCEPT ![c] = r] \/ click' = [click EXCEPT ![c] = q]
    BY <1>12 DEF PredictedHasLock, PredictedReadsSettings
  <2>2. r.answer = NoAnswer /\ q.answer = NoAnswer
    BY <1>2 DEF Requests
  <2> HIDE DEF r, q
  <2> QED
    BY <1>1, <2>1, <2>2, NoneYet
<1> QED
  BY <1>4, <1>6, <1>7, <1>8, <1>9, <1>10, <1>11, <1>12

\* Every step is one request's, or leaves the requests and what they answered.
LEMMA EveryStepAnswers ==
    ASSUME IInv, [InteractiveNext]_interactiveVars
    PROVE  (\E c \in Clicks : AnswerStep(c)) \/ (click' = click /\ configured' \in PceNames)
<1>1. CASE \E c \in Clicks : ClickBegins(c) \/ ClickSteps(c)
  <2> PICK c \in Clicks : ClickBegins(c) \/ ClickSteps(c)
    BY <1>1
  <2>1. CASE RunChecks(c) \/ RunReleases(c)
    BY <2>1, RunAnswers
  <2>2. CASE View(c) \/ Refused(c)
    BY <2>2, ViewAnswers
  <2>3. CASE ComputeEnds(c) \/ PredictedEnds(c)
    BY <2>3, ComputedAnswers
  <2>4. CASE ~(RunChecks(c) \/ RunReleases(c) \/ View(c) \/ Refused(c) \/ ComputeEnds(c) \/ PredictedEnds(c))
    BY <2>4, OthersAnswerNothing DEF ClickBegins, ClickSteps
  <2> QED
    BY <2>1, <2>2, <2>3, <2>4
<1>2. CASE SavePce \/ ClearForPce \/ CollectorBinds \/ TimePasses
  BY <1>2 DEF SavePce, ClearForPce, CollectorBinds, TimePasses, others, IInv, Shape
<1>3. CASE UNCHANGED interactiveVars
  BY <1>3 DEF interactiveVars, IInv, Shape
<1> QED
  BY <1>1, <1>2, <1>3 DEF InteractiveNext

\* Interactive implements PceAnswers: whatever was read over however many steps, an answer of the workbench or the
\* lateral page is of the PCE configured when it is given (WorkbenchStore.lease.check, lateral_view's keys).
THEOREM AnswersOfConfiguredPce == InteractiveSpec => AnswersAreCurrent
<1> DEFINE given == [c \in Clicks |-> IF click[c].kind = "predicted" THEN NoAnswer ELSE click[c].answer]
<1>1. InteractiveInit => Answers!AnswersInit
  BY DEF InteractiveInit, Answers!AnswersInit, Asked
<1>2. IInv /\ [InteractiveNext]_interactiveVars => [Answers!AnswersNext]_(Answers!answerVars)
  <2> SUFFICES ASSUME IInv, [InteractiveNext]_interactiveVars PROVE [Answers!AnswersNext]_(Answers!answerVars)
    OBVIOUS
  <2>1. CASE click' = click /\ configured' \in PceNames
    BY <2>1 DEF Answers!AnswersNext, Answers!SwitchPce
  <2>2. ASSUME NEW c \in Clicks, AnswerStep(c) PROVE [Answers!AnswersNext]_(Answers!answerVars)
    <3>1. configured' = configured /\ \A d \in Clicks : d # c => given'[d] = given[d]
      BY <2>2 DEF AnswerStep, pceVars
    <3>2. CASE Keeps(c) \/ GivesPrediction(c)
      <4>1. given'[c] = given[c]
        BY <3>2 DEF Keeps, GivesPrediction
      <4>2. given' = given
        BY <3>1, <4>1
      <4> QED
        BY <3>1, <4>2 DEF Answers!answerVars
    <3>3. CASE Gives(c)
      <4>1. given[c] = NoAnswer /\ given'[c] = configured
        BY <3>3 DEF Gives
      <4>2. given' = [given EXCEPT ![c] = configured]
        BY <3>1, <4>1
      <4> QED
        BY <3>1, <4>1, <4>2 DEF Answers!AnswersNext, Answers!Answer
    <3> QED
      BY <2>2, <3>2, <3>3 DEF AnswerStep
  <2> QED
    BY <2>1, <2>2, EveryStepAnswers
<1> QED
  BY <1>1, <1>2, AlwaysSound, PTL DEF InteractiveSpec, AnswersAreCurrent, Answers!AnswersSpec

\* A prediction is of the configured PCE, or of one whose clearing has not ended (predict_blocks).
THEOREM PredictionsAreCurrent == InteractiveSpec => PredictedIsCurrent
<1> DEFINE Current == \A c \in Clicks :
             click[c].kind = "predicted" /\ click[c].answer = NoAnswer /\ click'[c].answer # NoAnswer =>
                click'[c].answer = configured \/ clearing
<1>1. IInv /\ [InteractiveNext]_interactiveVars => [Current]_interactiveVars
  <2> SUFFICES ASSUME IInv, [InteractiveNext]_interactiveVars PROVE Current
    OBVIOUS
  <2> QED
    BY EveryStepAnswers DEF AnswerStep, Keeps, Gives, GivesPrediction
<1> QED
  BY <1>1, AlwaysSound, PTL DEF InteractiveSpec, PredictedIsCurrent

=============================================================================
