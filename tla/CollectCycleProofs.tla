------------------------- MODULE CollectCycleProofs -------------------------
(***************************************************************************)
(* What CollectCycle claims to have read, for any lengths of days, slices, *)
(* overlaps, cold starts and backfills and any number of failures.         *)
(***************************************************************************)
EXTENDS CollectCycle, WellFoundedInduction, TLAPS

Origin == Now0 - Cold
PlanNames == {"initial", "manual"}

\* The clock is past the first cold start, and every remembered bound before the clock.
ClockInv ==
    /\ now >= Now0
    /\ \A s \in Sources : cold[s] # None => cold[s] >= Origin /\ cold[s] < now
    /\ \A s \in Sources : watermark[s] # None => watermark[s] >= Origin

\* Without a watermark the remembered bound is where the source began; a running cycle stands
\* there, or no further than the watermark.
CycleOk(s) ==
    /\ watermark[s] = None => cold[s] = bound[s]
    /\ watermark[s] # None => bound[s] # None
    /\ cycle[s].step = "read" =>
         /\ bound[s] # None
         /\ watermark[s] = None => cycle[s].pos = bound[s]
         /\ watermark[s] # None => /\ cycle[s].pos <= watermark[s]
                                   /\ watermark[s] <= cycle[s].pos + Slice
                                   /\ watermark[s] <= cycle[s].at
         /\ s = "events" => cycle[s].from = cycle[s].pos

CycleInv == \A s \in Sources : CycleOk(s)

\* What a plan says it has read, each of its sources covers.
PlanInv ==
    \A p \in PlanNames : \A s \in plans[p].sources :
        /\ Span(plans[p].start, plans[p].through) \subseteq cover[s]
        /\ plans[p].finished => Span(plans[p].start, plans[p].end) \subseteq cover[s]

\* A running backfill is the one of its plan: all before its position is covered, and of the day it
\* is in, the traffic up to its position has been read and the events once the first piece is in.
DayInv ==
    long.step = "backfill" =>
        /\ plans[long.plan] # NoPlan
        /\ plans[long.plan].sources = long.reads /\ plans[long.plan].end = long.end
        /\ long.from <= long.pos
        /\ long.pos = long.from \/ "traffic" \in long.reads
        /\ \A s \in long.reads : Span(plans[long.plan].start, long.pos) \subseteq cover[s]
        /\ "traffic" \in long.reads => Span(long.from, long.pos) \subseteq read["traffic"]
        /\ "events" \in long.reads /\ long.pos # long.from => Span(long.from, DayEnd) \subseteq cover["events"]

\* A re-read runs only while an attempt is left.
RereadInv == long.step = "reread" => reread.attempts < MaxAttempts

CollectInv ==
    /\ TypeOK /\ ClockInv /\ CycleInv /\ PlanInv /\ DayInv /\ RereadInv
    /\ WatermarkLeavesNothing /\ CoverageIsRead /\ UnreadHasGap

-----------------------------------------------------------------------------
(* Slots, days and least elements.                                         *)

\* A day begins at or before each of its slots, and days follow each other.
LEMMA MidnightFacts ==
    ASSUME NEW t \in Int
    PROVE  Day(t) \in Int /\ Midnight(t) \in Int /\ Midnight(t) <= t /\ (t \in Nat => Midnight(t) \in Nat)
BY CollectCycleAssumption DEF Day, Midnight

\* Whole days are in the order of their numbers.
LEMMA DaysInOrder ==
    ASSUME NEW a \in Nat, NEW b \in Nat, a <= b
    PROVE  a * DayLen \in Nat /\ b * DayLen \in Nat /\ a * DayLen <= b * DayLen
BY CollectCycleAssumption

\* A set of slots that is not empty has a first one.
LEMMA LeastExists ==
    ASSUME NEW S \in SUBSET Nat, S # {}
    PROVE  Least(S) \in S /\ \A y \in S : Least(S) <= y
<1> DEFINE R == {ss \in Nat \X Nat : ss[1] < ss[2]}
<1>1. IsWellFoundedOn(R, Nat)
  BY NatLessThanWellFounded DEF OpToRel
<1> HIDE DEF R
<1>2. \E x \in S : \A y \in S : ~(<<y, x>> \in R)
  BY <1>1, WFMin
<1>3. PICK x \in S : \A y \in S : ~(<<y, x>> \in R)
  BY <1>2
<1>4. ASSUME NEW y \in S PROVE x <= y
  <2>1. ~(<<y, x>> \in R)
    BY <1>3
  <2>2. y \in Nat /\ x \in Nat
    OBVIOUS
  <2> QED BY <2>1, <2>2 DEF R
<1> QED BY <1>3, <1>4 DEF Least

-----------------------------------------------------------------------------
(* Every step keeps the invariant.                                         *)

\* A new installation claims nothing.
LEMMA InitInv == Init => CollectInv
<1> SUFFICES ASSUME Init PROVE CollectInv
  OBVIOUS
<1>1. NoPlan.sources = {} /\ NoPlan.finished = FALSE /\ NoPlan.start <= NoPlan.end
  BY DEF NoPlan, None
<1>2. TypeOK
  BY <1>1, CollectCycleAssumption DEF Init, TypeOK, IdleCycle, IdleLong, NoReread, None, Sources
<1>3. ClockInv /\ CycleInv /\ RereadInv /\ DayInv
  BY CollectCycleAssumption DEF Init, ClockInv, CycleInv, CycleOk, RereadInv, DayInv, IdleCycle, IdleLong
<1>4. PlanInv
  BY <1>1 DEF Init, PlanInv, PlanNames
<1>5. WatermarkLeavesNothing /\ CoverageIsRead /\ UnreadHasGap
  BY DEF Init, WatermarkLeavesNothing, CoverageIsRead, UnreadHasGap
<1> QED BY <1>2, <1>3, <1>4, <1>5 DEF CollectInv

\* Steps that leave alone what the collectors claim: the clock, the mode, a stop.
LEMMA AroundStep ==
    ASSUME CollectInv, Tick \/ Crash \/ (\E m \in Modes : ChangeMode(m))
    PROVE  CollectInv'
<1> USE DEF CollectInv
<1>1. /\ UNCHANGED <<watermark, cold, cover, gaps, plans, done, reread, bound, read, failed>>
      /\ now' \in Nat /\ now <= now' /\ mode' \in Modes
  BY DEF Tick, Crash, ChangeMode, TypeOK, state, progress, history
<1>2. (cycle' = cycle /\ long' = long) \/ (cycle' = [s \in Sources |-> IdleCycle] /\ long' = IdleLong)
  BY DEF Tick, Crash, ChangeMode
<1>3. TypeOK'
  BY <1>1, <1>2 DEF TypeOK, IdleCycle, IdleLong, Sources
<1>4. ClockInv' /\ CycleInv' /\ RereadInv'
  <2>1. ClockInv'
    BY <1>1, CollectCycleAssumption DEF ClockInv, TypeOK
  <2>2. CycleInv'
    BY <1>1, <1>2 DEF CycleInv, CycleOk, IdleCycle
  <2>3. RereadInv'
    BY <1>1, <1>2 DEF RereadInv, IdleLong
  <2> QED BY <2>1, <2>2, <2>3
<1>5. PlanInv' /\ DayInv'
  BY <1>1, <1>2 DEF PlanInv, DayInv, IdleLong, DayEnd
<1>6. WatermarkLeavesNothing' /\ CoverageIsRead' /\ UnreadHasGap'
  BY <1>1 DEF WatermarkLeavesNothing, CoverageIsRead, UnreadHasGap
<1> QED BY <1>3, <1>4, <1>5, <1>6

\* A cycle starts at the watermark less the overlap, or where the source began.
LEMMA BeginStep ==
    ASSUME CollectInv, NEW s \in Sources, CycleBegin(s)
    PROVE  CollectInv'
<1> USE DEF CollectInv
<1> DEFINE start == IF watermark[s] # None THEN watermark[s] - Overlap
                    ELSE IF cold[s] # None THEN cold[s] ELSE now - Cold
<1>1. /\ cycle' = [cycle EXCEPT ![s] = [step |-> "read", pos |-> start, from |-> start, at |-> now]]
      /\ cold' = IF watermark[s] # None THEN cold ELSE [cold EXCEPT ![s] = start]
      /\ bound' = IF bound[s] = None THEN [bound EXCEPT ![s] = start] ELSE bound
      /\ watermark[s] < now
      /\ UNCHANGED <<now, mode, watermark, cover, gaps, plans, done, reread, long, read, failed>>
  BY DEF CycleBegin, progress
<1>2. /\ now \in Nat /\ watermark[s] \in Nat \cup {None} /\ cold[s] \in Nat \cup {None}
      /\ bound[s] \in Nat \cup {None}
  BY DEF TypeOK
<1>3. start \in Nat /\ start < now /\ start >= Origin - Overlap /\ (watermark[s] = None => start >= Origin)
  BY <1>1, <1>2, CollectCycleAssumption DEF ClockInv, None, Origin
<1>4. start # None
  BY <1>3 DEF None
<1>5. watermark[s] = None => cold'[s] = start /\ bound'[s] = start
  BY <1>1, <1>2, <1>4 DEF CycleInv, CycleOk, TypeOK
<1>6. watermark[s] # None => cold' = cold /\ bound' = bound
  BY <1>1 DEF CycleInv, CycleOk
<1>7. \A q \in Sources : q # s => cold'[q] = cold[q] /\ bound'[q] = bound[q] /\ cycle'[q] = cycle[q]
  BY <1>1 DEF TypeOK
<1>8. cycle'[s] = [step |-> "read", pos |-> start, from |-> start, at |-> now]
  BY <1>1 DEF TypeOK
<1> HIDE DEF start
<1>9. TypeOK'
  <2>1. cold' \in [Sources -> Nat \cup {None}] /\ bound' \in [Sources -> Nat \cup {None}]
    BY <1>1, <1>3 DEF TypeOK
  <2>2. cycle' \in [Sources -> [step : {"idle", "read"}, pos : Nat, from : Nat, at : Nat]]
    BY <1>1, <1>2, <1>3 DEF TypeOK
  <2>3. \A q \in Sources : cycle'[q].step = "read" => cycle'[q].pos < cycle'[q].at /\ cycle'[q].at <= now
    BY <1>2, <1>3, <1>7, <1>8 DEF TypeOK
  <2> QED BY <1>1, <2>1, <2>2, <2>3 DEF TypeOK
<1>10. ClockInv'
  BY <1>1, <1>3, <1>5, <1>6, <1>7 DEF ClockInv
<1>11. CycleInv'
  <2> SUFFICES ASSUME NEW q \in Sources PROVE CycleOk(q)'
    BY DEF CycleInv
  <2>1. CASE q # s
    BY <2>1, <1>1, <1>7 DEF CycleInv, CycleOk
  <2>2. CASE q = s
    <3>1. CycleOk(s) /\ watermark'[s] = watermark[s]
      BY <1>1 DEF CycleInv
    <3>2. CASE watermark[s] = None
      BY <2>2, <3>1, <3>2, <1>4, <1>5, <1>8 DEF CycleOk
    <3>3. CASE watermark[s] # None
      <4>1. start = watermark[s] - Overlap /\ watermark[s] \in Nat
        BY <3>3, <1>2 DEF start
      <4> QED BY <2>2, <3>1, <3>3, <4>1, <1>1, <1>2, <1>6, <1>8, CollectCycleAssumption DEF CycleOk
    <3> QED BY <3>2, <3>3
  <2> QED BY <2>1, <2>2
<1>12. PlanInv' /\ DayInv' /\ RereadInv' /\ CoverageIsRead' /\ UnreadHasGap'
  BY <1>1 DEF PlanInv, DayInv, DayEnd, RereadInv, CoverageIsRead, UnreadHasGap
<1>13. WatermarkLeavesNothing'
  BY <1>1, <1>6, <1>7 DEF WatermarkLeavesNothing
<1> QED BY <1>9, <1>10, <1>11, <1>12, <1>13

\* The slots of a range of slots.
LEMMA SpanSlots ==
    ASSUME NEW a \in Nat, NEW b \in Int
    PROVE  Span(a, b) \subseteq Nat /\ \A x \in Int : x \in Span(a, b) <=> a <= x /\ x < b
BY DEF Span

\* Reading more takes nothing away from what plans and a running backfill claim.
LEMMA MoreCovered ==
    ASSUME CollectInv, UNCHANGED <<plans, long>>,
           \A q \in Sources : cover[q] \subseteq cover'[q] /\ read[q] \subseteq read'[q]
    PROVE  PlanInv' /\ DayInv'
<1>1. \A p \in PlanNames : plans[p].sources \subseteq Sources
  BY DEF CollectInv, TypeOK, PlanNames, Plans, NoPlan
<1>2. long.reads \subseteq Sources
  BY DEF CollectInv, TypeOK
<1>3. PlanInv'
  BY <1>1 DEF CollectInv, PlanInv
<1>4. DayInv'
  <2>1. DayEnd' = DayEnd
    BY DEF DayEnd
  <2> QED BY <1>2, <2>1 DEF CollectInv, DayInv, Sources
<1> QED BY <1>3, <1>4

\* A gap is closed only when its window is covered.
LEMMA GapsKept ==
    ASSUME CollectInv, failed' = failed, gaps' \in [Sources -> SUBSET (Nat \X Nat)],
           \A q \in Sources : cover[q] \subseteq cover'[q],
           \A q \in Sources : \A g \in gaps[q] : g \in gaps'[q] \/ Span(g[1], g[2]) \subseteq cover'[q]
    PROVE  UnreadHasGap'
<1> SUFFICES ASSUME NEW q \in Sources, NEW x \in failed[q], x \notin cover'[q]
             PROVE  \E g \in gaps'[q] : x \in Span(g[1], g[2])
  BY DEF UnreadHasGap
<1>1. PICK g \in gaps[q] : x \in Span(g[1], g[2])
  BY DEF CollectInv, UnreadHasGap
<1> QED BY <1>1

\* A window that failed is in the gap recorded for it.
LEMMA FailureHasGap ==
    ASSUME CollectInv, NEW S \in SUBSET Sources, NEW a \in Nat, NEW b \in Nat, RecordGap(S, a, b),
           cover' = cover,
           \A q \in Sources : failed'[q] \subseteq (IF q \in S THEN failed[q] \cup Span(a, b) ELSE failed[q])
    PROVE  UnreadHasGap' /\ gaps' \in [Sources -> SUBSET (Nat \X Nat)]
<1>1. gaps' = [s \in Sources |-> IF s \in S THEN gaps[s] \cup {<<a, b>>} ELSE gaps[s]]
  BY DEF RecordGap
<1>2. gaps' \in [Sources -> SUBSET (Nat \X Nat)]
  BY <1>1 DEF CollectInv, TypeOK
<1>3. ASSUME NEW q \in Sources, NEW x \in failed'[q], x \notin cover'[q]
      PROVE  \E g \in gaps'[q] : x \in Span(g[1], g[2])
  <2>1. CASE x \in failed[q]
    <3>1. PICK g \in gaps[q] : x \in Span(g[1], g[2])
      BY <1>3, <2>1 DEF CollectInv, UnreadHasGap
    <3> QED BY <1>1, <3>1
  <2>2. CASE x \notin failed[q]
    <3>1. q \in S /\ x \in Span(a, b)
      BY <2>2
    <3>2. <<a, b>> \in gaps'[q]
      BY <1>1, <3>1
    <3>3. x \in Span(<<a, b>>[1], <<a, b>>[2])
      BY <3>1
    <3> QED BY <3>2, <3>3
  <2> QED BY <2>1, <2>2
<1> QED BY <1>2, <1>3 DEF UnreadHasGap

\* A cycle's failed query leaves the watermark and records the rest of its window.
LEMMA CycleFailStep ==
    ASSUME CollectInv, NEW s \in Sources, CycleFail(s)
    PROVE  CollectInv'
<1> USE DEF CollectInv
<1>1. /\ cycle' = [cycle EXCEPT ![s] = IdleCycle]
      /\ failed' = [failed EXCEPT ![s] = @ \cup Span(cycle[s].pos, cycle[s].at)]
      /\ RecordGap({s}, cycle[s].pos, cycle[s].at)
      /\ UNCHANGED <<now, mode, watermark, cold, cover, plans, done, reread, long, bound, read>>
  BY DEF CycleFail, progress
<1>2. cycle[s].pos \in Nat /\ cycle[s].at \in Nat
  BY DEF TypeOK
<1>3. Span(cycle[s].pos, cycle[s].at) \subseteq Nat
  BY <1>2, SpanSlots
<1>4. UnreadHasGap' /\ gaps' \in [Sources -> SUBSET (Nat \X Nat)]
  <2>1. {s} \in SUBSET Sources
    OBVIOUS
  <2>2. \A q \in Sources : failed'[q] \subseteq
                             (IF q \in {s} THEN failed[q] \cup Span(cycle[s].pos, cycle[s].at) ELSE failed[q])
    BY <1>1 DEF TypeOK
  <2>3. RecordGap({s}, cycle[s].pos, cycle[s].at) /\ cover' = cover
    BY <1>1
  <2>4. CollectInv
    OBVIOUS
  <2> HIDE DEF CollectInv
  <2> QED BY <2>1, <2>2, <2>3, <2>4, <1>2, FailureHasGap
<1>5. TypeOK'
  BY <1>1, <1>3, <1>4 DEF TypeOK, IdleCycle
<1>6. ClockInv' /\ RereadInv' /\ WatermarkLeavesNothing' /\ CoverageIsRead'
  BY <1>1 DEF ClockInv, RereadInv, WatermarkLeavesNothing, CoverageIsRead
<1>7. CycleInv'
  BY <1>1 DEF CycleInv, CycleOk, IdleCycle, TypeOK
<1>8. PlanInv' /\ DayInv'
  BY <1>1, MoreCovered
<1> QED BY <1>4, <1>5, <1>6, <1>7, <1>8

\* A piece that is read moves the watermark over what is covered.
LEMMA CycleReadStep ==
    ASSUME CollectInv, NEW s \in Sources, CycleRead(s)
    PROVE  CollectInv'
<1> USE DEF CollectInv
<1> DEFINE c == cycle[s]
           b == PieceEnd(s)
           piece == Span(c.pos, b)
<1>1. /\ c.step = "read" /\ c.pos \in Nat /\ c.at \in Nat /\ c.from \in Nat /\ c.pos < c.at /\ c.at <= now
      /\ c \in [step : {"idle", "read"}, pos : Nat, from : Nat, at : Nat]
  BY DEF CycleRead, TypeOK
<1>2. b \in Nat /\ c.pos < b /\ b <= c.at /\ (b # c.at => b = c.pos + Slice) /\ (s = "events" => b = c.at)
      /\ (b = c.at \/ b = c.pos + Slice)
  BY <1>1, CollectCycleAssumption DEF PieceEnd, Smaller
<1>3. /\ read' = [q \in Sources |-> read[q] \cup Only(s, piece)[q]]
      /\ cover' = [q \in Sources |-> cover[q] \cup Only(s, piece)[q]]
      /\ watermark' = [watermark EXCEPT ![s] = b]
      /\ cold' = [cold EXCEPT ![s] = None]
      /\ cycle' = [cycle EXCEPT ![s] = IF b = c.at THEN IdleCycle ELSE [c EXCEPT !.pos = b]]
      /\ UNCHANGED <<now, mode, plans, done, reread, long, bound, failed>>
  BY DEF CycleRead, Answer, AddCoverage, progress
<1>4. IF s = "traffic" THEN ResolveCoveredGaps({s})
      ELSE gaps' = [gaps EXCEPT ![s] = {g \in gaps[s] : ~(c.from <= g[1] /\ g[2] <= c.at)}]
  BY DEF CycleRead
<1>5. Only(s, piece) \in [Sources -> SUBSET Nat] /\ Only(s, piece)[s] = piece
      /\ \A q \in Sources : q # s => Only(s, piece)[q] = {}
  BY <1>1, <1>2, SpanSlots DEF Only
<1>6. \A x \in Int : x \in piece <=> c.pos <= x /\ x < b
  BY <1>1, <1>2, SpanSlots
<1> HIDE DEF b, piece
<1>7. /\ cover' \in [Sources -> SUBSET Nat] /\ read' \in [Sources -> SUBSET Nat]
      /\ \A q \in Sources : cover[q] \subseteq cover'[q] /\ read[q] \subseteq read'[q]
      /\ piece \subseteq cover'[s] /\ piece \subseteq read'[s]
  BY <1>3, <1>5 DEF TypeOK
<1>8. /\ gaps' \in [Sources -> SUBSET (Nat \X Nat)]
      /\ \A q \in Sources : \A g \in gaps[q] : g \in gaps'[q] \/ Span(g[1], g[2]) \subseteq cover'[q]
  <2>1. CASE s = "traffic"
    <3>1. gaps' = [q \in Sources |-> IF q \in {s} THEN {g \in gaps[q] : StillOpen(q, g)} ELSE gaps[q]]
      BY <1>4, <2>1 DEF ResolveCoveredGaps
    <3>2. gaps' \in [Sources -> SUBSET (Nat \X Nat)]
      BY <3>1 DEF TypeOK
    <3> QED BY <3>1, <3>2 DEF StillOpen
  <2>2. CASE s # "traffic"
    <3>1. s = "events" /\ c.from = c.pos /\ b = c.at
      BY <1>1, <1>2, <2>2 DEF Sources, CycleInv, CycleOk
    <3>2. gaps' = [gaps EXCEPT ![s] = {g \in gaps[s] : ~(c.from <= g[1] /\ g[2] <= c.at)}]
      BY <1>4, <2>2
    <3>3. ASSUME NEW g \in gaps[s], c.from <= g[1], g[2] <= c.at
          PROVE  Span(g[1], g[2]) \subseteq cover'[s]
      <4>1. g[1] \in Nat /\ g[2] \in Nat
        BY <3>3 DEF TypeOK
      <4>2. \A x \in Span(g[1], g[2]) : x \in Int /\ g[1] <= x /\ x < g[2]
        BY <4>1 DEF Span
      <4> QED BY <1>1, <1>2, <1>6, <1>7, <3>1, <3>3, <4>1, <4>2
    <3> QED BY <3>2, <3>3 DEF TypeOK
  <2> QED BY <2>1, <2>2
<1>9. cycle'[s] = IF b = c.at THEN IdleCycle ELSE [c EXCEPT !.pos = b]
  BY <1>3 DEF TypeOK
<1>10. /\ cycle' \in [Sources -> [step : {"idle", "read"}, pos : Nat, from : Nat, at : Nat]]
       /\ \A q \in Sources : q # s => /\ cycle'[q] = cycle[q] /\ watermark'[q] = watermark[q]
                                      /\ cold'[q] = cold[q] /\ cover'[q] = cover[q]
       /\ watermark'[s] = b /\ cold'[s] = None /\ b # None
  <2>1. IdleCycle \in [step : {"idle", "read"}, pos : Nat, from : Nat, at : Nat]
    BY DEF IdleCycle
  <2>2. [c EXCEPT !.pos = b] \in [step : {"idle", "read"}, pos : Nat, from : Nat, at : Nat]
    BY <1>1, <1>2
  <2>3. cycle' \in [Sources -> [step : {"idle", "read"}, pos : Nat, from : Nat, at : Nat]]
    BY <1>3, <2>1, <2>2 DEF TypeOK
  <2> QED BY <1>2, <1>3, <1>5, <2>3 DEF TypeOK, None
<1>11. TypeOK'
  <2>1. watermark' \in [Sources -> Nat \cup {None}] /\ cold' \in [Sources -> Nat \cup {None}]
    BY <1>2, <1>3 DEF TypeOK
  <2>2. \A q \in Sources : cycle'[q].step = "read" => cycle'[q].pos < cycle'[q].at /\ cycle'[q].at <= now
    <3>1. cycle'[s].step = "read" => cycle'[s].pos = b /\ cycle'[s].at = c.at /\ b # c.at
      BY <1>1, <1>9 DEF IdleCycle
    <3>2. cycle'[s].step = "read" => cycle'[s].pos < cycle'[s].at /\ cycle'[s].at <= now
      BY <3>1, <1>1, <1>2
    <3> QED BY <3>2, <1>10 DEF TypeOK
  <2> QED BY <1>3, <1>7, <1>8, <1>10, <2>1, <2>2 DEF TypeOK
<1>12. CycleOk(s)
  BY DEF CycleInv
<1>13. bound[s] # None /\ bound[s] \in Nat /\ watermark[s] \in Nat \cup {None}
  BY <1>1, <1>12 DEF CycleOk, TypeOK
<1>14. b >= Origin
  <2>1. CASE watermark[s] = None
    BY <2>1, <1>1, <1>2, <1>12, <1>13, CollectCycleAssumption DEF CycleOk, ClockInv, Origin
  <2>2. CASE watermark[s] # None
    <3>1. watermark[s] <= b
      BY <2>2, <1>1, <1>2, <1>12, <1>13, CollectCycleAssumption DEF CycleOk
    <3> QED BY <2>2, <3>1, <1>2, <1>13, CollectCycleAssumption DEF ClockInv, Origin
  <2> QED BY <2>1, <2>2
<1>15. ClockInv'
  BY <1>3, <1>10, <1>14 DEF ClockInv
<1>16. CycleInv'
  <2>1. \A q \in Sources : q # s => CycleOk(q)'
    BY <1>3, <1>10 DEF CycleInv, CycleOk
  <2>2. CycleOk(s)'
    <3>1. CASE b = c.at
      BY <3>1, <1>3, <1>9, <1>10, <1>13 DEF CycleOk, IdleCycle
    <3>2. CASE b # c.at
      <4>1. s # "events"
        BY <3>2, <1>2
      <4>2. cycle'[s].step = "read" /\ cycle'[s].pos = b /\ cycle'[s].at = c.at
        BY <3>2, <1>1, <1>9
      <4> QED BY <4>1, <4>2, <1>1, <1>2, <1>3, <1>10, <1>13, CollectCycleAssumption DEF CycleOk
    <3> QED BY <3>1, <3>2
  <2> QED BY <2>1, <2>2 DEF CycleInv
<1>17. PlanInv' /\ DayInv'
  BY <1>3, <1>7, MoreCovered
<1>18. RereadInv'
  BY <1>3 DEF RereadInv
<1>19. WatermarkLeavesNothing'
  <2>1. Span(bound[s], b) \subseteq cover'[s]
    <3> SUFFICES ASSUME NEW x \in Span(bound[s], b) PROVE x \in cover'[s]
      OBVIOUS
    <3>1. x \in Int /\ bound[s] <= x /\ x < b
      BY <1>2, <1>13, SpanSlots DEF Span
    <3>2. CASE c.pos <= x
      BY <3>1, <3>2, <1>6, <1>7
    <3>3. CASE x < c.pos
      <4>1. watermark[s] # None /\ watermark[s] \in Nat
        BY <3>1, <3>3, <1>1, <1>12, <1>13 DEF CycleOk
      <4>2. x \in Span(bound[s], watermark[s])
        BY <4>1, <3>1, <3>3, <1>1, <1>12, <1>13 DEF CycleOk, Span
      <4> QED BY <4>1, <4>2, <1>7 DEF WatermarkLeavesNothing
    <3> QED BY <3>1, <3>2, <3>3, <1>1
  <2> QED BY <2>1, <1>3, <1>10 DEF WatermarkLeavesNothing
<1>20. CoverageIsRead'
  BY <1>3, <1>5 DEF CoverageIsRead, TypeOK
<1>21. UnreadHasGap'
  BY <1>3, <1>7, <1>8, GapsKept
<1> QED BY <1>11, <1>15, <1>16, <1>17, <1>18, <1>19, <1>20, <1>21

\* A backfill takes up its plan where the plan's sources are covered to.
LEMMA StartStep ==
    ASSUME CollectInv, NEW plan \in PlanNames, NEW start \in Nat, NEW end \in Nat, start <= end,
           NEW reads \in (SUBSET Sources) \ {{}}, StartBackfill(plan, start, end, reads)
    PROVE  CollectInv'
<1> USE DEF CollectInv
<1> DEFINE mine == plans[plan]
           same == mine # NoPlan /\ ~mine.finished /\ mine.start = start /\ mine.end = end /\ mine.sources = reads
           from == IF same THEN mine.through ELSE start
           resume == IF Day(from) <= Day(now - FlowLen) THEN Larger(start, Midnight(from)) ELSE from
           fresh == [start |-> start, end |-> end, through |-> start, finished |-> FALSE, sources |-> reads]
<1>1. /\ plans' = IF same THEN plans ELSE [plans EXCEPT ![plan] = fresh]
      /\ long' = [IdleLong EXCEPT !.step = "backfill", !.plan = plan, !.reads = reads,
                                  !.from = resume, !.pos = resume, !.end = end]
      /\ UNCHANGED <<now, mode, watermark, cold, cover, gaps, cycle, done, reread, bound, read, failed>>
  BY DEF StartBackfill, state, history
<1>2. mine \in Plans \cup {NoPlan} /\ (same => mine \in Plans)
  BY DEF TypeOK, PlanNames
<1>3. from \in Nat /\ (same => from = mine.through)
  BY <1>2 DEF Plans
<1>4. resume \in Nat /\ (resume <= from \/ resume = start)
  BY <1>3, MidnightFacts DEF Larger
<1>5. fresh \in Plans
  BY DEF Plans
<1> HIDE DEF from, resume
<1>6. /\ long'.step = "backfill" /\ long'.plan = plan /\ long'.reads = reads /\ long'.from = resume
      /\ long'.pos = resume /\ long'.end = end /\ long'.begins = IdleLong.begins
      /\ long' \in [step : {"idle", "backfill", "reread"}, plan : {"initial", "manual"}, reads : SUBSET Sources,
                    from : Nat, pos : Nat, end : Nat, begins : [Sources -> Int]]
  <2>1. long' = [step |-> "backfill", plan |-> plan, reads |-> reads, from |-> resume, pos |-> resume,
                 end |-> end, begins |-> IdleLong.begins]
    BY <1>1 DEF IdleLong
  <2>2. IdleLong.begins \in [Sources -> Int]
    BY DEF IdleLong
  <2> QED BY <1>4, <2>1, <2>2 DEF PlanNames
<1>7. /\ plans' \in [PlanNames -> Plans \cup {NoPlan}]
      /\ plans'[plan] = (IF same THEN mine ELSE fresh)
      /\ \A p \in PlanNames : p # plan => plans'[p] = plans[p]
  BY <1>1, <1>2, <1>5 DEF TypeOK, PlanNames
<1>8. /\ plans'[plan].start = start /\ plans'[plan].end = end /\ plans'[plan].sources = reads
      /\ plans'[plan].finished = FALSE /\ plans'[plan] # NoPlan
  <2>1. CASE same
    BY <2>1, <1>2, <1>7 DEF Plans
  <2>2. CASE ~same
    <3>1. NoPlan.start = None /\ start # None
      BY DEF NoPlan, None
    <3> QED BY <2>2, <3>1, <1>7
  <2> QED BY <2>1, <2>2
<1>9. TypeOK'
  <2>1. \A p \in {"initial", "manual"} : plans'[p].start <= plans'[p].end
    BY <1>7, <1>8 DEF TypeOK, PlanNames
  <2> QED BY <1>1, <1>6, <1>7, <2>1 DEF TypeOK, PlanNames
<1>10. ClockInv' /\ WatermarkLeavesNothing' /\ CoverageIsRead' /\ UnreadHasGap'
  BY <1>1 DEF ClockInv, WatermarkLeavesNothing, CoverageIsRead, UnreadHasGap
<1>11. CycleInv' /\ RereadInv'
  BY <1>1, <1>6 DEF CycleInv, CycleOk, RereadInv
<1>12. PlanInv'
  <2> SUFFICES ASSUME NEW p \in PlanNames, NEW s \in plans'[p].sources
               PROVE  /\ Span(plans'[p].start, plans'[p].through) \subseteq cover[s]
                      /\ plans'[p].finished => Span(plans'[p].start, plans'[p].end) \subseteq cover[s]
    BY <1>1 DEF PlanInv
  <2>1. CASE plans'[p] = plans[p]
    BY <2>1 DEF PlanInv
  <2>2. CASE plans'[p] # plans[p]
    <3>1. p = plan /\ ~same
      BY <2>2, <1>7
    <3>2. plans'[p].start = start /\ plans'[p].through = start /\ plans'[p].finished = FALSE
      BY <3>1, <1>7
    <3>3. Span(start, start) = {}
      BY DEF Span
    <3> QED BY <3>2, <3>3
  <2> QED BY <2>1, <2>2
<1>13. DayInv'
  <2>1. ASSUME NEW s \in reads PROVE Span(start, resume) \subseteq cover[s]
    <3>1. CASE resume = start
      BY <3>1 DEF Span
    <3>2. CASE resume # start /\ same
      <4>1. Span(start, mine.through) \subseteq cover[s]
        BY <2>1, <3>2 DEF PlanInv
      <4> QED BY <4>1, <3>2, <1>3, <1>4 DEF Span
    <3>3. CASE resume # start /\ ~same
      <4>1. from = start
        BY <3>3 DEF from
      <4> QED BY <4>1, <3>3, <1>4 DEF Span
    <3> QED BY <3>1, <3>2, <3>3
  <2>2. Span(resume, resume) = {}
    BY <1>4 DEF Span
  <2> QED BY <1>1, <1>4, <1>6, <1>8, <2>1, <2>2 DEF DayInv
<1> QED BY <1>9, <1>10, <1>11, <1>12, <1>13

\* The sources a backfill may read are never none.
LEMMA SomeSources == InitialSources \in (SUBSET Sources) \ {{}} /\ ManualSources \in (SUBSET Sources) \ {{}}
<1>1. "events" \in Sources
  BY DEF Sources
<1>2. {"events"} # {} /\ Sources # {}
  BY <1>1
<1> QED BY <1>1, <1>2 DEF InitialSources, ManualSources

\* The initial backfill ends at or after the first cold start.
LEMMA InitialStep == ASSUME CollectInv, EnsureInitial PROVE CollectInv'
<1> USE DEF CollectInv
<1> DEFINE mine == plans.initial
           resumed == mine.sources \cap InitialSources
           missing == InitialSources \ done
           starts == {LiveStart(s) : s \in missing} \ {None}
           end == IF starts = {} THEN now ELSE Least(starts)
           reads == IF resumed = {} THEN InitialSources ELSE resumed
<1>1. \/ mine # NoPlan /\ StartBackfill("initial", mine.start, mine.end, reads)
      \/ missing # {} /\ StartBackfill("initial", end - BackfillLen, end, missing)
  BY DEF EnsureInitial
<1>2. "initial" \in PlanNames
  BY DEF PlanNames
<1>3. CASE mine # NoPlan /\ StartBackfill("initial", mine.start, mine.end, reads)
  <2>1. mine \in Plans /\ mine.start \in Nat /\ mine.end \in Nat /\ mine.start <= mine.end
    BY <1>3 DEF TypeOK, Plans
  <2>2. reads \in (SUBSET Sources) \ {{}}
    BY SomeSources
  <2> HIDE DEF mine, reads, CollectInv
  <2>3. CollectInv
    BY DEF CollectInv
  <2> QED BY <1>2, <1>3, <2>1, <2>2, <2>3, StartStep
<1>4. CASE missing # {} /\ StartBackfill("initial", end - BackfillLen, end, missing)
  <2>1. missing \in (SUBSET Sources) \ {{}}
    BY <1>4, SomeSources
  <2>2. ASSUME NEW s \in Sources, LiveStart(s) # None PROVE LiveStart(s) \in Nat /\ LiveStart(s) >= Origin
    BY <2>2 DEF LiveStart, ClockInv, TypeOK
  <2>3. starts \in SUBSET Nat /\ \A t \in starts : t >= Origin
    BY <2>1, <2>2
  <2>4. end \in Nat /\ end >= Origin
    <3>1. CASE starts = {}
      BY <3>1, CollectCycleAssumption DEF TypeOK, ClockInv, Origin
    <3>2. CASE starts # {}
      <4> HIDE DEF starts
      <4>1. Least(starts) \in starts
        BY <2>3, <3>2, LeastExists
      <4> QED BY <2>3, <3>2, <4>1
    <3> QED BY <3>1, <3>2
  <2> HIDE DEF end, missing, CollectInv
  <2>5. end - BackfillLen \in Nat /\ end - BackfillLen <= end
    BY <2>4, CollectCycleAssumption DEF Origin
  <2>6. CollectInv
    BY DEF CollectInv
  <2> QED BY <1>2, <1>4, <2>1, <2>4, <2>5, <2>6, StartStep
<1> QED BY <1>1, <1>3, <1>4

\* The collection page asks for days that have begun.
LEMMA ManualStep ==
    ASSUME CollectInv, NEW first \in ManualDays, NEW last \in ManualDays,
           NEW reads \in (SUBSET Sources) \ {{}}, StartManual(first, last, reads)
    PROVE  CollectInv'
<1> DEFINE start == first * DayLen
           end == Smaller((last + 1) * DayLen, now)
<1>1. /\ first \in Nat /\ last \in Nat /\ first <= last /\ last <= Day(now) /\ now \in Nat
      /\ StartBackfill("manual", start, end, reads)
  BY CollectCycleAssumption DEF StartManual, CollectInv, TypeOK
<1>2. start \in Nat /\ (last + 1) * DayLen \in Nat /\ start <= (last + 1) * DayLen
  <2>1. last + 1 \in Nat /\ first <= last + 1
    BY <1>1
  <2> QED BY <1>1, <2>1, DaysInOrder
<1>3. start <= now
  <2>1. Day(now) \in Nat /\ Day(now) * DayLen <= now /\ first <= Day(now)
    BY <1>1, MidnightFacts, CollectCycleAssumption DEF Midnight, Day
  <2>2. start <= Day(now) * DayLen /\ Day(now) * DayLen \in Nat
    BY <1>1, <2>1, DaysInOrder
  <2> HIDE DEF start
  <2> QED BY <1>1, <1>2, <2>1, <2>2
<1> HIDE DEF start
<1>4. end \in Nat /\ start <= end
  BY <1>1, <1>2, <1>3 DEF Smaller
<1>5. "manual" \in PlanNames
  BY DEF PlanNames
<1> HIDE DEF end
<1> QED BY <1>1, <1>2, <1>4, <1>5, StartStep

\* The day and the piece a running backfill reads.
LEMMA PieceFacts ==
    ASSUME CollectInv, long.step = "backfill", long.pos < long.end
    PROVE  /\ DayEnd \in Nat /\ PartEnd \in Nat /\ PartEnd <= DayEnd
           /\ PartReads \subseteq long.reads /\ long.reads \subseteq Sources
           /\ long.from \in Nat /\ long.pos \in Nat /\ long.end \in Nat /\ long.from <= long.pos
           /\ "traffic" \notin long.reads => PartEnd = DayEnd
           /\ PartEnd # DayEnd => PartEnd = long.pos + Slice
           /\ "traffic" \in long.reads => "traffic" \in PartReads
           /\ "events" \in PartReads => long.pos = long.from
           /\ "events" \in long.reads /\ "events" \notin PartReads => long.pos # long.from
<1>1. /\ long.from \in Nat /\ long.pos \in Nat /\ long.end \in Nat /\ long.from <= long.pos
      /\ long.reads \subseteq Sources /\ (long.pos = long.from \/ "traffic" \in long.reads)
  BY DEF CollectInv, TypeOK, DayInv
<1>2. DayEnd \in Nat
  BY <1>1, MidnightFacts, CollectCycleAssumption DEF DayEnd, Smaller
<1>3. /\ PartEnd \in Nat /\ PartEnd <= DayEnd
      /\ "traffic" \notin long.reads => PartEnd = DayEnd
      /\ PartEnd # DayEnd => PartEnd = long.pos + Slice
  BY <1>1, <1>2, CollectCycleAssumption DEF PartEnd, Smaller
<1>4. /\ PartReads \subseteq long.reads
      /\ "traffic" \in long.reads => "traffic" \in PartReads
      /\ "events" \in PartReads => long.pos = long.from
      /\ "events" \in long.reads /\ "events" \notin PartReads => long.pos # long.from
  BY <1>1 DEF PartReads, First
<1> QED BY <1>1, <1>2, <1>3, <1>4

\* A backfill's failed query records the rest of its day; the progress stays.
LEMMA BackfillFailStep == ASSUME CollectInv, BackfillFail PROVE CollectInv'
<1>1. /\ long.step = "backfill" /\ long.pos < long.end
      /\ RecordGap(PartReads, long.pos, DayEnd) /\ cover' = cover
      /\ failed' = [s \in Sources |-> IF s \in PartReads THEN failed[s] \cup Span(long.pos, DayEnd) ELSE failed[s]]
      /\ long' = IdleLong
      /\ UNCHANGED <<now, mode, watermark, cold, cycle, plans, done, reread, bound, read>>
  BY DEF BackfillFail, progress
<1>2. PartReads \in SUBSET Sources /\ long.pos \in Nat /\ DayEnd \in Nat
  BY <1>1, PieceFacts
<1>3. UnreadHasGap' /\ gaps' \in [Sources -> SUBSET (Nat \X Nat)]
  <2>1. \A q \in Sources : failed'[q] \subseteq
                             (IF q \in PartReads THEN failed[q] \cup Span(long.pos, DayEnd) ELSE failed[q])
    BY <1>1
  <2>2. RecordGap(PartReads, long.pos, DayEnd) /\ cover' = cover
    BY <1>1
  <2> QED BY <1>2, <2>1, <2>2, FailureHasGap
<1> USE DEF CollectInv
<1>4. TypeOK'
  <2>1. failed' \in [Sources -> SUBSET Nat]
    BY <1>1, <1>2, SpanSlots DEF TypeOK
  <2>2. IdleLong \in [step : {"idle", "backfill", "reread"}, plan : {"initial", "manual"}, reads : SUBSET Sources,
                      from : Nat, pos : Nat, end : Nat, begins : [Sources -> Int]]
    BY DEF IdleLong
  <2> QED BY <1>1, <1>3, <2>1, <2>2 DEF TypeOK
<1>5. ClockInv' /\ CycleInv' /\ RereadInv' /\ PlanInv' /\ DayInv' /\ WatermarkLeavesNothing' /\ CoverageIsRead'
  BY <1>1 DEF ClockInv, CycleInv, CycleOk, RereadInv, PlanInv, DayInv, WatermarkLeavesNothing, CoverageIsRead, IdleLong
<1> QED BY <1>3, <1>4, <1>5

\* A piece that is read claims from where this run began its day, and the progress follows.
LEMMA BackfillReadStep == ASSUME CollectInv, BackfillRead PROVE CollectInv'
<1> DEFINE p == long.plan
           slots == [s \in Sources |-> IF s \notin PartReads THEN {}
                                       ELSE IF s = "traffic" THEN Span(long.pos, PartEnd) ELSE Span(long.from, DayEnd)]
<1>1. /\ long.step = "backfill" /\ long.pos < long.end
      /\ read' = [s \in Sources |-> read[s] \cup slots[s]]
      /\ cover' = [s \in Sources |-> cover[s] \cup DayClaims[s]]
      /\ gaps' = [s \in Sources |-> IF s \in PartReads THEN {g \in gaps[s] : StillOpen(s, g)} ELSE gaps[s]]
      /\ plans' = [plans EXCEPT ![p].through = PartEnd]
      /\ long' = [long EXCEPT !.pos = PartEnd, !.from = IF PartEnd = DayEnd THEN DayEnd ELSE long.from]
      /\ UNCHANGED <<now, mode, watermark, cold, cycle, done, reread, bound, failed>>
  BY DEF BackfillRead, Answer, AddCoverage, ResolveCoveredGaps
<1>2. /\ DayEnd \in Nat /\ PartEnd \in Nat /\ PartEnd <= DayEnd
      /\ PartReads \subseteq long.reads /\ long.reads \subseteq Sources
      /\ long.from \in Nat /\ long.pos \in Nat /\ long.end \in Nat /\ long.from <= long.pos
      /\ "traffic" \notin long.reads => PartEnd = DayEnd
      /\ PartEnd # DayEnd => PartEnd = long.pos + Slice
      /\ "traffic" \in long.reads => "traffic" \in PartReads
      /\ "events" \in PartReads => long.pos = long.from
      /\ "events" \in long.reads /\ "events" \notin PartReads => long.pos # long.from
  BY <1>1, PieceFacts
<1>3. Sources = {"traffic", "events"} /\ "traffic" # "events"
  BY DEF Sources
<1>4. DayClaims = [s \in Sources |-> IF s \notin PartReads THEN {}
                                     ELSE Span(long.from, IF s = "traffic" THEN PartEnd ELSE DayEnd)]
  BY DEF DayClaims
<1>5. slots \in [Sources -> SUBSET Nat] /\ DayClaims \in [Sources -> SUBSET Nat]
  <2>1. Span(long.pos, PartEnd) \subseteq Nat /\ Span(long.from, DayEnd) \subseteq Nat
        /\ Span(long.from, PartEnd) \subseteq Nat
    BY <1>2, SpanSlots
  <2> QED BY <1>4, <2>1
<1>6. \* what a plan's day has in hand
      /\ p \in PlanNames /\ plans[p] \in Plans /\ plans[p].sources = long.reads /\ plans[p].end = long.end
      /\ \A s \in long.reads : Span(plans[p].start, long.pos) \subseteq cover[s]
      /\ "traffic" \in long.reads => Span(long.from, long.pos) \subseteq read["traffic"]
      /\ "events" \in long.reads /\ long.pos # long.from => Span(long.from, DayEnd) \subseteq cover["events"]
  BY <1>1 DEF CollectInv, TypeOK, DayInv, PlanNames
<1>7. plans[p].start \in Nat
  BY <1>6 DEF Plans
<1> HIDE DEF p, slots
<1>8. /\ cover' \in [Sources -> SUBSET Nat] /\ read' \in [Sources -> SUBSET Nat]
      /\ \A q \in Sources : cover[q] \subseteq cover'[q] /\ read[q] \subseteq read'[q]
  BY <1>1, <1>5 DEF CollectInv, TypeOK
<1>9. gaps' \in [Sources -> SUBSET (Nat \X Nat)]
  BY <1>1 DEF CollectInv, TypeOK
<1>10. /\ long'.step = "backfill" /\ long'.plan = p /\ long'.reads = long.reads /\ long'.end = long.end
       /\ long'.pos = PartEnd /\ long'.from = (IF PartEnd = DayEnd THEN DayEnd ELSE long.from)
       /\ long' \in [step : {"idle", "backfill", "reread"}, plan : {"initial", "manual"}, reads : SUBSET Sources,
                     from : Nat, pos : Nat, end : Nat, begins : [Sources -> Int]]
  BY <1>1, <1>2 DEF CollectInv, TypeOK, p
<1>11. /\ plans' \in [PlanNames -> Plans \cup {NoPlan}]
       /\ plans'[p] \in Plans /\ plans'[p].start = plans[p].start /\ plans'[p].end = plans[p].end
       /\ plans'[p].sources = plans[p].sources /\ plans'[p].finished = plans[p].finished
       /\ plans'[p].through = PartEnd
       /\ \A o \in PlanNames : o # p => plans'[o] = plans[o]
  <2>1. plans'[p] = [plans[p] EXCEPT !.through = PartEnd] /\ \A o \in PlanNames : o # p => plans'[o] = plans[o]
    BY <1>1, <1>6 DEF CollectInv, TypeOK, PlanNames
  <2>2. [plans[p] EXCEPT !.through = PartEnd] \in Plans
    BY <1>2, <1>6 DEF Plans
  <2>3. plans' \in [PlanNames -> Plans \cup {NoPlan}]
    BY <1>1, <1>6, <2>2 DEF CollectInv, TypeOK, PlanNames
  <2> QED BY <1>6, <2>1, <2>2, <2>3 DEF Plans
<1>12. TypeOK'
  <2>1. \A o \in {"initial", "manual"} : plans'[o].start <= plans'[o].end
    BY <1>11 DEF CollectInv, TypeOK, PlanNames
  <2> QED BY <1>1, <1>8, <1>9, <1>10, <1>11, <2>1 DEF CollectInv, TypeOK, PlanNames
<1>13. /\ "traffic" \in long.reads => Span(long.from, PartEnd) \subseteq cover'["traffic"]
       /\ "events" \in PartReads => Span(long.from, DayEnd) \subseteq cover'["events"]
  BY <1>1, <1>2, <1>3, <1>4
<1>14. "events" \in long.reads => Span(long.from, DayEnd) \subseteq cover'["events"]
  BY <1>2, <1>3, <1>6, <1>8, <1>13
<1>15. ASSUME NEW s \in long.reads PROVE Span(plans[p].start, PartEnd) \subseteq cover'[s]
  <2> SUFFICES ASSUME NEW x \in Span(plans[p].start, PartEnd) PROVE x \in cover'[s]
    OBVIOUS
  <2>1. x \in Int /\ plans[p].start <= x /\ x < PartEnd
    BY <1>2, <1>7 DEF Span
  <2>2. CASE x < long.pos
    <3>1. x \in Span(plans[p].start, long.pos)
      BY <2>1, <2>2, <1>2, <1>7 DEF Span
    <3> QED BY <3>1, <1>2, <1>6, <1>8
  <2>3. CASE long.pos <= x
    <3>1. x \in Span(long.from, PartEnd) /\ x \in Span(long.from, DayEnd)
      BY <2>1, <2>3, <1>2 DEF Span
    <3> QED BY <3>1, <1>2, <1>3, <1>13, <1>14
  <2> QED BY <2>1, <2>2, <2>3, <1>2
<1>16. Span(long.from, PartEnd) \subseteq Span(long.from, long.pos) \cup Span(long.pos, PartEnd)
  BY <1>2 DEF Span
<1>17. "traffic" \in long.reads => Span(long.from, PartEnd) \subseteq read'["traffic"]
  <2>1. "traffic" \in long.reads => Span(long.pos, PartEnd) \subseteq read'["traffic"]
    BY <1>1, <1>2, <1>3 DEF slots
  <2> QED BY <2>1, <1>3, <1>6, <1>8, <1>16
<1>18. CoverageIsRead'
  <2>1. ASSUME NEW s \in Sources PROVE DayClaims[s] \subseteq read'[s]
    <3>1. CASE s = "traffic"
      BY <3>1, <1>2, <1>4, <1>17
    <3>2. CASE s = "events"
      BY <3>2, <1>1, <1>3, <1>4 DEF slots
    <3> QED BY <3>1, <3>2, <1>3
  <2> QED BY <2>1, <1>1, <1>8 DEF CollectInv, CoverageIsRead
<1>19. PlanInv'
  <2> SUFFICES ASSUME NEW o \in PlanNames, NEW s \in plans'[o].sources
               PROVE  /\ Span(plans'[o].start, plans'[o].through) \subseteq cover'[s]
                      /\ plans'[o].finished => Span(plans'[o].start, plans'[o].end) \subseteq cover'[s]
    BY DEF PlanInv
  <2>1. s \in plans[o].sources /\ s \in Sources
    BY <1>11, <1>6, <1>2 DEF CollectInv, TypeOK, PlanNames, Plans, NoPlan
  <2>2. plans[o].finished => Span(plans[o].start, plans[o].end) \subseteq cover'[s]
    BY <2>1, <1>8 DEF CollectInv, PlanInv
  <2>3. CASE o = p
    BY <2>1, <2>2, <2>3, <1>6, <1>11, <1>15
  <2>4. CASE o # p
    BY <2>1, <2>2, <2>4, <1>8, <1>11 DEF CollectInv, PlanInv
  <2> QED BY <2>3, <2>4
<1>20. DayInv'
  <2>1. \A s \in long'.reads : Span(plans'[p].start, long'.pos) \subseteq cover'[s]
    BY <1>10, <1>11, <1>15
  <2>2. /\ long'.from <= long'.pos
        /\ long'.pos = long'.from \/ "traffic" \in long'.reads
    BY <1>2, <1>10, CollectCycleAssumption
  <2>3. "traffic" \in long'.reads => Span(long'.from, long'.pos) \subseteq read'["traffic"]
    <3>1. CASE PartEnd = DayEnd
      <4>1. Span(DayEnd, DayEnd) = {}
        BY <1>2 DEF Span
      <4> QED BY <3>1, <4>1, <1>10
    <3>2. CASE PartEnd # DayEnd
      BY <3>2, <1>10, <1>17
    <3> QED BY <3>1, <3>2
  <2>4. "events" \in long'.reads /\ long'.pos # long'.from => Span(long'.from, DayEnd') \subseteq cover'["events"]
    <3> SUFFICES ASSUME "events" \in long.reads, PartEnd # DayEnd
                 PROVE  Span(long'.from, DayEnd') \subseteq cover'["events"]
      BY <1>10
    <3>1. long'.from = long.from /\ long'.end = long.end
      BY <1>10
    <3>2. DayEnd' = DayEnd
      BY <3>1 DEF DayEnd
    <3> QED BY <3>1, <3>2, <1>14
  <2>5. plans'[p] # NoPlan
    <3>1. NoPlan \notin Plans
      BY DEF NoPlan, Plans, None
    <3> QED BY <3>1, <1>11
  <2> QED BY <2>1, <2>2, <2>3, <2>4, <2>5, <1>6, <1>10, <1>11 DEF DayInv
<1>21. UnreadHasGap'
  <2>1. \A q \in Sources : \A g \in gaps[q] : g \in gaps'[q] \/ Span(g[1], g[2]) \subseteq cover'[q]
    BY <1>1 DEF StillOpen
  <2> QED BY <2>1, <1>1, <1>8, <1>9, GapsKept
<1>22. WatermarkLeavesNothing'
  BY <1>1, <1>8 DEF CollectInv, WatermarkLeavesNothing
<1>23. ClockInv' /\ CycleInv' /\ RereadInv'
  BY <1>1, <1>10 DEF CollectInv, ClockInv, CycleInv, CycleOk, RereadInv
<1> QED BY <1>12, <1>18, <1>19, <1>20, <1>21, <1>22, <1>23 DEF CollectInv

\* A plan is finished only when all of it is covered.
LEMMA BackfillFinishStep == ASSUME CollectInv, BackfillFinish PROVE CollectInv'
<1> DEFINE p == long.plan
<1>1. /\ long.step = "backfill" /\ long.pos >= long.end
      /\ plans' = [plans EXCEPT ![p].through = long.end, ![p].finished = TRUE]
      /\ done' = IF p = "initial" THEN done \cup long.reads ELSE done
      /\ long' = IdleLong
      /\ UNCHANGED <<now, mode, watermark, cold, cover, gaps, cycle, reread, bound, read, failed>>
  BY DEF BackfillFinish, state, history
<1>2. /\ p \in PlanNames /\ plans[p] \in Plans /\ plans[p].sources = long.reads /\ plans[p].end = long.end
      /\ \A s \in long.reads : Span(plans[p].start, long.pos) \subseteq cover[s]
      /\ long.pos \in Nat /\ long.end \in Nat /\ long.reads \subseteq Sources
  BY <1>1 DEF CollectInv, TypeOK, DayInv, PlanNames
<1> HIDE DEF p
<1>3. /\ plans' \in [PlanNames -> Plans \cup {NoPlan}]
      /\ plans'[p].start = plans[p].start /\ plans'[p].end = long.end
      /\ plans'[p].sources = long.reads /\ plans'[p].through = long.end
      /\ \A o \in PlanNames : o # p => plans'[o] = plans[o]
  <2>1. /\ plans'[p] = [plans[p] EXCEPT !.through = long.end, !.finished = TRUE]
        /\ \A o \in PlanNames : o # p => plans'[o] = plans[o]
    BY <1>1, <1>2 DEF CollectInv, TypeOK, PlanNames
  <2>2. [plans[p] EXCEPT !.through = long.end, !.finished = TRUE] \in Plans
    BY <1>2 DEF Plans
  <2>3. plans' \in [PlanNames -> Plans \cup {NoPlan}]
    BY <1>1, <1>2, <2>2 DEF CollectInv, TypeOK, PlanNames
  <2> QED BY <1>2, <2>1, <2>2, <2>3 DEF Plans
<1>4. plans[p].start \in Nat
  BY <1>2 DEF Plans
<1>5. \A s \in long.reads : Span(plans[p].start, long.end) \subseteq cover[s]
  <2>1. Span(plans[p].start, long.end) \subseteq Span(plans[p].start, long.pos)
    BY <1>1, <1>2, <1>4 DEF Span
  <2> QED BY <1>2, <2>1
<1>6. PlanInv'
  BY <1>1, <1>3, <1>5 DEF CollectInv, PlanInv
<1>7. TypeOK'
  <2>1. \A o \in {"initial", "manual"} : plans'[o].start <= plans'[o].end
    BY <1>2, <1>3 DEF CollectInv, TypeOK, PlanNames
  <2>2. done' \subseteq Sources
    BY <1>1, <1>2 DEF CollectInv, TypeOK
  <2>3. IdleLong \in [step : {"idle", "backfill", "reread"}, plan : {"initial", "manual"}, reads : SUBSET Sources,
                      from : Nat, pos : Nat, end : Nat, begins : [Sources -> Int]]
    BY DEF IdleLong
  <2> QED BY <1>1, <1>3, <2>1, <2>2, <2>3 DEF CollectInv, TypeOK, PlanNames
<1>8. ClockInv' /\ CycleInv' /\ RereadInv' /\ DayInv'
  BY <1>1 DEF CollectInv, ClockInv, CycleInv, CycleOk, RereadInv, DayInv, IdleLong
<1>9. WatermarkLeavesNothing' /\ CoverageIsRead' /\ UnreadHasGap'
  BY <1>1 DEF CollectInv, WatermarkLeavesNothing, CoverageIsRead, UnreadHasGap
<1> QED BY <1>6, <1>7, <1>8, <1>9 DEF CollectInv

\* A re-read begins where its sources' coverage begins, with an attempt left.
LEMMA RereadBeginStep == ASSUME CollectInv, RereadBegin PROVE CollectInv'
<1> DEFINE tonight == reread.date = Day(now)
           start == IF tonight THEN reread.day ELSE Target
           end == start + DayLen
           sources == {s \in Sources : Collects(s) /\ cover[s] \cap Span(start, end) # {}}
           begins == [s \in Sources |-> IF s \in sources THEN Larger(start, Least(cover[s])) ELSE end]
           again == [day |-> start, date |-> Day(now), through |-> start, finished |-> FALSE,
                     attempts |-> IF tonight THEN reread.attempts ELSE 0, sources |-> sources]
           mine == IF tonight /\ reread.sources = sources THEN reread ELSE again
           pos == Larger(mine.through, Least({begins[s] : s \in sources}))
<1>1. /\ tonight => ~reread.finished /\ reread.attempts < MaxAttempts
      /\ sources # {}
      /\ reread' = mine
      /\ long' = [IdleLong EXCEPT !.step = "reread", !.reads = sources, !.begins = begins, !.end = end, !.pos = pos]
      /\ UNCHANGED <<now, mode, watermark, cold, cover, gaps, cycle, plans, done, bound, read, failed>>
  BY DEF RereadBegin, state, history
<1>2. now \in Nat /\ reread.day \in Int /\ reread.through \in Int /\ reread.attempts \in 0 .. MaxAttempts
      /\ reread \in [day : Int, date : Int, through : Int, finished : BOOLEAN, attempts : 0 .. MaxAttempts,
                     sources : SUBSET Sources]
  BY DEF CollectInv, TypeOK
<1>3. Day(now) \in Int /\ Target \in Int
  <2>1. now - Settle \in Int
    BY <1>2, CollectCycleAssumption
  <2> QED BY <1>2, <2>1, MidnightFacts, CollectCycleAssumption DEF Target
<1>4. start \in Int /\ end \in Int
  BY <1>2, <1>3, CollectCycleAssumption
<1>5. \A s \in sources : s \in Sources /\ cover[s] \in SUBSET Nat /\ \E x \in cover[s] : x \in Span(start, end)
  BY DEF CollectInv, TypeOK
<1>6. end \in Nat
  <2>1. PICK s \in sources : TRUE
    BY <1>1
  <2>2. PICK x \in cover[s] : x \in Span(start, end)
    BY <1>5
  <2>3. x \in Nat
    BY <1>5, <2>2
  <2> HIDE DEF start, end
  <2>4. x < end
    BY <1>4, <2>2, <2>3 DEF Span
  <2> QED BY <1>4, <2>3, <2>4
<1>7. \A s \in sources : Least(cover[s]) \in Nat
  BY <1>5, LeastExists
<1> HIDE DEF start, sources
<1>8. sources \in SUBSET Sources
  BY DEF sources
<1>9. begins \in [Sources -> Int] /\ \A s \in sources : begins[s] \in Nat
  <2>1. \A s \in sources : Larger(start, Least(cover[s])) \in Nat
    BY <1>4, <1>7 DEF Larger
  <2> HIDE DEF end
  <2>2. begins = [s \in Sources |-> IF s \in sources THEN Larger(start, Least(cover[s])) ELSE end]
    OBVIOUS
  <2> QED BY <1>4, <1>8, <2>1, <2>2
<1>10. mine \in [day : Int, date : Int, through : Int, finished : BOOLEAN, attempts : 0 .. MaxAttempts,
                 sources : SUBSET Sources]
       /\ mine.attempts < MaxAttempts
  <2>1. again \in [day : Int, date : Int, through : Int, finished : BOOLEAN, attempts : 0 .. MaxAttempts,
                   sources : SUBSET Sources]
        /\ again.attempts < MaxAttempts
    BY <1>1, <1>2, <1>3, <1>4, <1>8, CollectCycleAssumption
  <2> HIDE DEF again
  <2> QED BY <1>1, <1>2, <2>1
<1>11. mine.through \in Int
  BY <1>10
<1> HIDE DEF mine, begins
<1>12. pos \in Nat
  <2> DEFINE T == {begins[s] : s \in sources}
  <2>1. T \in SUBSET Nat /\ T # {}
    BY <1>1, <1>9
  <2> HIDE DEF T
  <2>2. Least(T) \in Nat
    BY <2>1, LeastExists
  <2> QED BY <1>11, <2>2 DEF Larger, T
<1> HIDE DEF pos, end
<1>13. /\ long'.step = "reread"
       /\ long' \in [step : {"idle", "backfill", "reread"}, plan : {"initial", "manual"}, reads : SUBSET Sources,
                     from : Nat, pos : Nat, end : Nat, begins : [Sources -> Int]]
  <2>1. long' = [step |-> "reread", plan |-> "manual", reads |-> sources, from |-> 0, pos |-> pos,
                 end |-> end, begins |-> begins]
    BY <1>1 DEF IdleLong
  <2> QED BY <2>1, <1>6, <1>8, <1>9, <1>12
<1>14. TypeOK'
  BY <1>1, <1>10, <1>13 DEF CollectInv, TypeOK
<1>15. ClockInv' /\ CycleInv' /\ PlanInv' /\ WatermarkLeavesNothing' /\ CoverageIsRead' /\ UnreadHasGap'
  BY <1>1 DEF CollectInv, ClockInv, CycleInv, CycleOk, PlanInv, WatermarkLeavesNothing, CoverageIsRead, UnreadHasGap
<1>16. DayInv' /\ RereadInv'
  BY <1>1, <1>10, <1>13 DEF DayInv, RereadInv
<1> QED BY <1>14, <1>15, <1>16 DEF CollectInv

\* A slice of a re-read is claimed as it is read.
LEMMA RereadReadStep == ASSUME CollectInv, RereadRead PROVE CollectInv'
<1>1. /\ long.step = "reread"
      /\ read' = [s \in Sources |-> read[s] \cup SliceSlots[s]]
      /\ cover' = [s \in Sources |-> cover[s] \cup SliceSlots[s]]
      /\ ResolveCoveredGaps({s \in long.reads : long.begins[s] < SliceEnd})
      /\ reread' = [reread EXCEPT !.through = SliceEnd]
      /\ long' = [long EXCEPT !.pos = SliceEnd]
      /\ UNCHANGED <<now, mode, watermark, cold, cycle, plans, done, bound, failed>>
  BY DEF RereadRead, Answer, AddCoverage
<1>2. long.pos \in Nat /\ long.end \in Nat /\ long.begins \in [Sources -> Int]
  BY DEF CollectInv, TypeOK
<1>3. SliceEnd \in Nat
  BY <1>2, CollectCycleAssumption DEF SliceEnd, Smaller
<1>4. SliceSlots \in [Sources -> SUBSET Nat]
  <2>1. \A s \in Sources : Larger(long.pos, long.begins[s]) \in Nat
    BY <1>2 DEF Larger
  <2>2. \A s \in Sources : Span(Larger(long.pos, long.begins[s]), SliceEnd) \subseteq Nat
    BY <1>3, <2>1, SpanSlots
  <2> QED BY <2>2 DEF SliceSlots
<1>5. /\ cover' \in [Sources -> SUBSET Nat] /\ read' \in [Sources -> SUBSET Nat]
      /\ \A q \in Sources : cover[q] \subseteq cover'[q] /\ read[q] \subseteq read'[q]
  BY <1>1, <1>4 DEF CollectInv, TypeOK
<1>6. /\ gaps' \in [Sources -> SUBSET (Nat \X Nat)]
      /\ \A q \in Sources : \A g \in gaps[q] : g \in gaps'[q] \/ Span(g[1], g[2]) \subseteq cover'[q]
  <2> DEFINE S == {s \in long.reads : long.begins[s] < SliceEnd}
  <2>1. gaps' = [q \in Sources |-> IF q \in S THEN {g \in gaps[q] : StillOpen(q, g)} ELSE gaps[q]]
    BY <1>1 DEF ResolveCoveredGaps
  <2> HIDE DEF S
  <2>2. gaps' \in [Sources -> SUBSET (Nat \X Nat)]
    BY <2>1 DEF CollectInv, TypeOK
  <2> QED BY <2>1, <2>2 DEF StillOpen
<1>7. TypeOK'
  <2>1. reread' \in [day : Int, date : Int, through : Int, finished : BOOLEAN, attempts : 0 .. MaxAttempts,
                     sources : SUBSET Sources]
    <3>1. reread \in [day : Int, date : Int, through : Int, finished : BOOLEAN, attempts : 0 .. MaxAttempts,
                      sources : SUBSET Sources]
      BY DEF CollectInv, TypeOK
    <3>2. SliceEnd \in Int
      BY <1>3
    <3> HIDE DEF SliceEnd
    <3> QED BY <3>1, <3>2, <1>1
  <2>2. long' \in [step : {"idle", "backfill", "reread"}, plan : {"initial", "manual"}, reads : SUBSET Sources,
                   from : Nat, pos : Nat, end : Nat, begins : [Sources -> Int]]
    <3>1. long \in [step : {"idle", "backfill", "reread"}, plan : {"initial", "manual"}, reads : SUBSET Sources,
                     from : Nat, pos : Nat, end : Nat, begins : [Sources -> Int]]
      BY DEF CollectInv, TypeOK
    <3> QED BY <3>1, <1>1, <1>3
  <2> QED BY <1>1, <1>5, <1>6, <2>1, <2>2 DEF CollectInv, TypeOK
<1>8. long'.step = "reread" /\ reread'.attempts = reread.attempts
  BY <1>1 DEF CollectInv, TypeOK
<1>9. DayInv' /\ RereadInv'
  BY <1>1, <1>8 DEF CollectInv, DayInv, RereadInv
<1>10. PlanInv'
  <2>1. \A p \in PlanNames : plans[p].sources \subseteq Sources
    BY DEF CollectInv, TypeOK, PlanNames, Plans, NoPlan
  <2> QED BY <2>1, <1>1, <1>5 DEF CollectInv, PlanInv
<1>11. CoverageIsRead'
  BY <1>1 DEF CollectInv, CoverageIsRead
<1>12. UnreadHasGap'
  BY <1>1, <1>5, <1>6, GapsKept
<1>13. ClockInv' /\ CycleInv'
  BY <1>1 DEF CollectInv, ClockInv, CycleInv, CycleOk
<1>14. WatermarkLeavesNothing'
  BY <1>1, <1>5 DEF CollectInv, WatermarkLeavesNothing
<1> QED BY <1>7, <1>9, <1>10, <1>11, <1>12, <1>13, <1>14 DEF CollectInv

\* The end of a re-read, well or badly, changes only its own plan.
LEMMA RereadEndStep == ASSUME CollectInv, RereadFail \/ RereadFinish PROVE CollectInv'
<1>1. /\ long.step = "reread" /\ long' = IdleLong
      /\ \/ reread' = [reread EXCEPT !.attempts = @ + 1]
         \/ reread' = [reread EXCEPT !.finished = TRUE]
      /\ UNCHANGED <<now, mode, watermark, cold, cover, gaps, cycle, plans, done, bound, read, failed>>
  BY DEF RereadFail, RereadFinish, state, history
<1>2. reread' \in [day : Int, date : Int, through : Int, finished : BOOLEAN, attempts : 0 .. MaxAttempts,
                   sources : SUBSET Sources]
  <2>1. reread.attempts + 1 \in 0 .. MaxAttempts
    BY <1>1, CollectCycleAssumption DEF CollectInv, RereadInv, TypeOK
  <2> QED BY <1>1, <2>1 DEF CollectInv, TypeOK
<1>3. TypeOK'
  <2>1. IdleLong \in [step : {"idle", "backfill", "reread"}, plan : {"initial", "manual"}, reads : SUBSET Sources,
                      from : Nat, pos : Nat, end : Nat, begins : [Sources -> Int]]
    BY DEF IdleLong
  <2> QED BY <1>1, <1>2, <2>1 DEF CollectInv, TypeOK
<1>4. ClockInv' /\ CycleInv' /\ PlanInv' /\ WatermarkLeavesNothing' /\ CoverageIsRead' /\ UnreadHasGap'
  BY <1>1 DEF CollectInv, ClockInv, CycleInv, CycleOk, PlanInv, WatermarkLeavesNothing, CoverageIsRead, UnreadHasGap
<1>5. DayInv' /\ RereadInv'
  BY <1>1 DEF DayInv, RereadInv, IdleLong
<1> QED BY <1>3, <1>4, <1>5 DEF CollectInv

\* Every step keeps the invariant.
LEMMA NextInv == CollectInv /\ [Next]_vars => CollectInv'
<1> SUFFICES ASSUME CollectInv, [Next]_vars PROVE CollectInv'
  OBVIOUS
<1>1. CASE UNCHANGED vars
  BY <1>1 DEF vars, state, progress, history, CollectInv, TypeOK, ClockInv, CycleInv, CycleOk, PlanInv, DayInv,
      DayEnd, RereadInv, WatermarkLeavesNothing, CoverageIsRead, UnreadHasGap
<1>2. CASE \E s \in Sources : Cycle(s)
  BY <1>2, BeginStep, CycleReadStep, CycleFailStep DEF Cycle
<1>3. CASE Backfill
  BY <1>3, InitialStep, BackfillReadStep, BackfillFailStep, BackfillFinishStep DEF Backfill
<1>4. CASE Reread
  BY <1>4, RereadBeginStep, RereadReadStep, RereadEndStep DEF Reread
<1>5. CASE \E first, last \in ManualDays, reads \in (SUBSET Sources) \ {{}} : StartManual(first, last, reads)
  BY <1>5, ManualStep
<1>6. CASE Tick \/ Crash \/ \E m \in Modes : ChangeMode(m)
  BY <1>6, AroundStep
<1> QED BY <1>1, <1>2, <1>3, <1>4, <1>5, <1>6 DEF Next

-----------------------------------------------------------------------------
(* The theorems.                                                           *)

\* The inductive invariant holds in every state the collectors reach.
THEOREM Invariant == Spec => []CollectInv
<1>1. Init => CollectInv
  BY InitInv
<1>2. CollectInv /\ [Next]_vars => CollectInv'
  BY NextInv
<1> QED BY <1>1, <1>2, PTL DEF Spec

\* Type correctness, with the ranges of cycles, plans and attempts.
THEOREM TypeCorrect == Spec => []TypeOK
<1>1. CollectInv => TypeOK
  BY DEF CollectInv
<1> QED BY <1>1, Invariant, PTL

\* ingest_coverage claims nothing that no query has read.
THEOREM CoverageHonest == Spec => []CoverageIsRead
<1>1. CollectInv => CoverageIsRead
  BY DEF CollectInv
<1> QED BY <1>1, Invariant, PTL

\* Between the first cold-start bound and the watermark of a source everything is covered.
THEOREM NothingBehindWatermark == Spec => []WatermarkLeavesNothing
<1>1. CollectInv => WatermarkLeavesNothing
  BY DEF CollectInv
<1> QED BY <1>1, Invariant, PTL

\* What a failed window left unread is in an open gap.
THEOREM FailuresStayVisible == Spec => []UnreadHasGap
<1>1. CollectInv => UnreadHasGap
  BY DEF CollectInv
<1> QED BY <1>1, Invariant, PTL

\* A source that counts as backfilled was read over the whole range of its plan.
THEOREM BackfillComplete == Spec => []BackfilledIsRead
<1>1. CollectInv => BackfilledIsRead
  BY DEF CollectInv, PlanInv, PlanNames, BackfilledIsRead
<1> QED BY <1>1, Invariant, PTL

\* For every instance: the types hold, and a source that counts as backfilled was read over its whole plan.
THEOREM PlansInOrder == Spec => []PlansAreInOrder
<1>1. TypeOK /\ BackfilledIsRead => PlansAreInOrder
  BY DEF PlansAreInOrder
<1> QED BY <1>1, TypeCorrect, BackfillComplete, PTL

-----------------------------------------------------------------------------
(* The daily re-read finds what came late.                                 *)

\* The day of a night's re-read ended at least Settle ago, and a running re-read is that of its plan.
NightInv ==
    /\ reread.date = None => reread.sources = {}
    /\ reread.date # None => reread.day + DayLen + Settle <= now
    /\ long.step = "reread" => long.reads = reread.sources /\ long.end = reread.day + DayLen

\* What a backfill has read of the day it is in, it has claimed.
ClaimInv == long.step = "backfill" /\ "traffic" \in long.reads => Span(long.from, long.pos) \subseteq cover["traffic"]

\* The re-read owes the late record: it is of the re-read's day, came in time for it, its slot is
\* claimed and no query has seen it.
Awaited ==
    /\ "traffic" \in reread.sources /\ LateAt \in Span(reread.day, reread.day + DayLen)
    /\ LateSeen < reread.day + DayLen + Settle
    /\ LateAt \in cover["traffic"] /\ ~found

\* A re-read that owes the record has not passed its slot yet, and will not leave it out.
LateInv == Awaited =>
    /\ ~reread.finished /\ reread.through <= LateAt
    /\ long.step = "reread" => long.pos <= LateAt /\ long.begins["traffic"] <= LateAt

NightlyInv == NightInv /\ ClaimInv /\ LateInv

\* A re-read that owes a record began after the PCE saw it: every query from then on finds it.
LEMMA AwaitedIsSeen ==
    ASSUME CollectInv, NightInv, "traffic" \in reread.sources, LateSeen < reread.day + DayLen + Settle
    PROVE  LateSeen < now
<1>1. reread.date # None
  BY DEF NightInv
<1>2. reread.day \in Int /\ now \in Nat
  BY DEF CollectInv, TypeOK
<1> QED BY <1>1, <1>2, CollectCycleAssumption DEF NightInv

\* A read that claims no more than it has read, or than was claimed, leaves no new record owed.
LEMMA ReadLeavesNothingOwed ==
    ASSUME CollectInv, NightlyInv, NEW slots, Answer(slots),
           UNCHANGED <<now, reread>>, long.step # "reread", long'.step # "reread",
           cover'["traffic"] \subseteq cover["traffic"] \cup slots["traffic"]
    PROVE  NightInv' /\ LateInv'
<1>1. NightInv'
  BY DEF NightlyInv, NightInv
<1>2. ASSUME Awaited' PROVE ~reread.finished /\ reread.through <= LateAt
  <2>1. LateSeen < now
    BY <1>2, AwaitedIsSeen DEF Awaited, NightlyInv
  <2>2. ~found /\ LateAt \notin slots["traffic"]
    BY <1>2, <2>1 DEF Answer, Awaited
  <2>3. Awaited
    BY <1>2, <2>2 DEF Awaited
  <2> QED BY <2>3 DEF NightlyInv, LateInv
<1> QED BY <1>1, <1>2 DEF LateInv

\* Steps that read nothing and leave the re-read as it was, or stop it.
LEMMA NightUndisturbed ==
    ASSUME CollectInv, CollectInv', NightlyInv, UNCHANGED <<cover, reread, found>>, now' \in Nat, now <= now',
           long' = long \/ long'.step = "idle" \/ (long'.step = "backfill" /\ long'.from = long'.pos)
    PROVE  NightlyInv'
<1>1. NightInv'
  <2>1. reread.day \in Int /\ now \in Nat
    BY DEF CollectInv, TypeOK
  <2>2. reread.date # None => reread.day + DayLen + Settle <= now'
    BY <2>1, CollectCycleAssumption DEF NightlyInv, NightInv
  <2> QED BY <2>2 DEF NightlyInv, NightInv
<1>2. ClaimInv'
  <2>1. CASE long' = long
    BY <2>1 DEF NightlyInv, ClaimInv
  <2>2. CASE long'.step = "backfill" /\ long'.from = long'.pos
    <3>1. Span(long'.from, long'.pos) = {} \/ long'.from \notin Int
      BY <2>2 DEF Span
    <3>2. long'.from \in Int
      BY DEF CollectInv, TypeOK
    <3> QED BY <3>1, <3>2 DEF ClaimInv
  <2> QED BY <2>1, <2>2 DEF ClaimInv
<1>3. LateInv'
  BY DEF NightlyInv, LateInv, Awaited
<1> QED BY <1>1, <1>2, <1>3 DEF NightlyInv

\* A new installation owes nothing.
LEMMA InitNightly == Init => NightlyInv
  BY DEF Init, NightlyInv, NightInv, ClaimInv, LateInv, Awaited, NoReread, IdleLong, None

\* A night's re-read starts before every claimed slot of its day that is still owed.
LEMMA RereadBeginNightly == ASSUME CollectInv, NightlyInv, RereadBegin PROVE NightlyInv'
<1> DEFINE tonight == reread.date = Day(now)
           start == IF tonight THEN reread.day ELSE Target
           end == start + DayLen
           sources == {s \in Sources : Collects(s) /\ cover[s] \cap Span(start, end) # {}}
           begins == [s \in Sources |-> IF s \in sources THEN Larger(start, Least(cover[s])) ELSE end]
           again == [day |-> start, date |-> Day(now), through |-> start, finished |-> FALSE,
                     attempts |-> IF tonight THEN reread.attempts ELSE 0, sources |-> sources]
           mine == IF tonight /\ reread.sources = sources THEN reread ELSE again
           first == Least({begins[s] : s \in sources})
<1>1. /\ tonight => ~reread.finished
      /\ reread' = mine
      /\ long' = [IdleLong EXCEPT !.step = "reread", !.reads = sources, !.begins = begins, !.end = end,
                                  !.pos = Larger(mine.through, first)]
      /\ UNCHANGED <<now, cover, found>>
  BY DEF RereadBegin, state, history
<1>2. now \in Nat /\ reread.day \in Int /\ reread.through \in Int /\ cover \in [Sources -> SUBSET Nat]
  BY DEF CollectInv, TypeOK
<1>3. Day(now) \in Nat /\ Target \in Int /\ Target + DayLen + Settle <= now
  <2>1. Day(now) \in Nat
    BY <1>2, CollectCycleAssumption DEF Day
  <2>2. now - Settle \in Int
    BY <1>2, CollectCycleAssumption
  <2>3. Midnight(now - Settle) \in Int /\ Midnight(now - Settle) <= now - Settle
    BY <2>2, MidnightFacts
  <2> QED BY <1>2, <2>1, <2>3, CollectCycleAssumption DEF Target
<1>4. start \in Int /\ start + DayLen + Settle <= now
  <2>1. CASE tonight
    BY <1>2, <1>3, <2>1 DEF NightlyInv, NightInv, None
  <2>2. CASE ~tonight
    BY <1>3, <2>2
  <2> QED BY <2>1, <2>2
<1> HIDE DEF start, sources, begins, first
<1>5. mine.day = start /\ mine.date = Day(now) /\ mine.sources = sources /\ ~mine.finished
      /\ (mine.through = start \/ mine = reread)
  BY <1>1 DEF start
<1> HIDE DEF mine
<1>6. /\ long'.step = "reread" /\ long'.reads = sources /\ long'.end = end /\ long'.begins = begins
      /\ long'.pos = Larger(mine.through, first)
  BY <1>1 DEF IdleLong
<1>7. NightInv'
  BY <1>1, <1>3, <1>4, <1>5, <1>6 DEF NightInv, None
<1>8. ClaimInv'
  BY <1>6 DEF ClaimInv
<1>9. LateInv'
  <2> SUFFICES ASSUME Awaited' PROVE ~reread'.finished /\ reread'.through <= LateAt /\ long'.pos <= LateAt
                                     /\ long'.begins["traffic"] <= LateAt
    BY DEF LateInv
  <2>1. "traffic" \in sources /\ LateAt \in Span(start, end) /\ LateAt \in cover["traffic"]
    BY <1>1, <1>5 DEF Awaited
  <2>2. LateAt \in Nat /\ start <= LateAt
    BY <2>1, <1>4, CollectCycleAssumption DEF Span
  <2>3. Least(cover["traffic"]) \in Nat /\ Least(cover["traffic"]) <= LateAt
    BY <2>1, <1>2, LeastExists DEF Sources
  <2>4. begins["traffic"] = Larger(start, Least(cover["traffic"]))
    BY <2>1 DEF begins, Sources
  <2>5. begins["traffic"] <= LateAt
    BY <2>2, <2>3, <2>4, <1>4 DEF Larger
  <2>6. first \in Nat /\ first <= begins["traffic"]
    <3> DEFINE T == {begins[s] : s \in sources}
    <3>1. \A s \in sources : begins[s] = Larger(start, Least(cover[s])) /\ cover[s] \in SUBSET Nat /\ cover[s] # {}
      BY <1>2 DEF begins, sources
    <3>2. \A s \in sources : begins[s] \in Nat
      BY <3>1, <1>4, LeastExists DEF Larger
    <3>3. T \in SUBSET Nat /\ begins["traffic"] \in T
      BY <3>2, <2>1
    <3> HIDE DEF T
    <3>4. Least(T) \in Nat /\ Least(T) <= begins["traffic"]
      BY <3>3, LeastExists
    <3> QED BY <3>4 DEF T, first
  <2>7. mine.through \in Int /\ mine.through <= LateAt
    <3>1. CASE mine.through = start
      BY <3>1, <1>4, <2>2
    <3>2. CASE mine = reread
      <4>1. Awaited
        BY <3>2, <1>1, <1>5 DEF Awaited
      <4> QED BY <3>2, <4>1, <1>2 DEF NightlyInv, LateInv
    <3> QED BY <3>1, <3>2, <1>5
  <2>8. begins["traffic"] \in Int
    BY <2>3, <2>4, <1>4 DEF Larger
  <2>9. Larger(mine.through, first) <= LateAt
    BY <2>2, <2>5, <2>6, <2>7, <2>8 DEF Larger
  <2> QED BY <1>1, <1>5, <1>6, <2>5, <2>7, <2>9
<1> QED BY <1>7, <1>8, <1>9 DEF NightlyInv

\* A slice that passes the slot of a record it owes has read it.
LEMMA RereadReadNightly == ASSUME CollectInv, NightlyInv, RereadRead PROVE NightlyInv'
<1>1. /\ long.step = "reread"
      /\ found' = (found \/ (LateSeen < now /\ LateAt \in SliceSlots["traffic"]))
      /\ cover' = [s \in Sources |-> cover[s] \cup SliceSlots[s]]
      /\ reread' = [reread EXCEPT !.through = SliceEnd]
      /\ long' = [long EXCEPT !.pos = SliceEnd]
      /\ now' = now
  BY DEF RereadRead, Answer, AddCoverage
<1>2. long.pos \in Nat /\ long.end \in Nat /\ long.begins \in [Sources -> Int]
  BY DEF CollectInv, TypeOK
<1>3. SliceEnd \in Int
  BY <1>2, CollectCycleAssumption DEF SliceEnd, Smaller
<1>4. /\ reread'.day = reread.day /\ reread'.date = reread.date /\ reread'.sources = reread.sources
      /\ reread'.finished = reread.finished /\ reread'.through = SliceEnd
  BY <1>1 DEF CollectInv, TypeOK
<1>5. /\ long'.step = "reread" /\ long'.reads = long.reads /\ long'.end = long.end /\ long'.begins = long.begins
      /\ long'.pos = SliceEnd
  BY <1>1 DEF CollectInv, TypeOK
<1>6. NightInv'
  BY <1>1, <1>4, <1>5 DEF NightlyInv, NightInv
<1>7. ClaimInv'
  BY <1>5 DEF ClaimInv
<1>8. LateInv'
  <2> SUFFICES ASSUME Awaited' PROVE ~reread'.finished /\ reread'.through <= LateAt /\ long'.pos <= LateAt
                                     /\ long'.begins["traffic"] <= LateAt
    BY DEF LateInv
  <2>1. "traffic" \in reread.sources /\ LateSeen < reread.day + DayLen + Settle
        /\ LateAt \in Span(reread.day, reread.day + DayLen) /\ LateAt \in cover'["traffic"] /\ ~found'
    BY <1>4 DEF Awaited
  <2>2. LateSeen < now
    BY <2>1, AwaitedIsSeen DEF NightlyInv
  <2>3. ~found /\ LateAt \notin SliceSlots["traffic"]
    BY <1>1, <2>1, <2>2
  <2>4. LateAt \in cover["traffic"]
    BY <1>1, <2>1, <2>3 DEF Sources
  <2>5. Awaited
    BY <2>1, <2>3, <2>4 DEF Awaited
  <2>6. ~reread.finished /\ long.pos <= LateAt /\ long.begins["traffic"] <= LateAt
    BY <2>5, <1>1 DEF NightlyInv, LateInv
  <2>7. SliceSlots["traffic"] = Span(Larger(long.pos, long.begins["traffic"]), SliceEnd)
    BY <2>1, <1>1 DEF SliceSlots, Sources, NightlyInv, NightInv
  <2>8. long.begins["traffic"] \in Int /\ LateAt \in Int
    BY <1>2, CollectCycleAssumption DEF Sources
  <2>9. Larger(long.pos, long.begins["traffic"]) \in Int /\ Larger(long.pos, long.begins["traffic"]) <= LateAt
    BY <1>2, <2>6, <2>8 DEF Larger
  <2> HIDE DEF SliceEnd
  <2>10. ~(LateAt < SliceEnd)
    BY <2>3, <2>7, <2>8, <2>9, <1>3 DEF Span
  <2>11. SliceEnd <= LateAt
    BY <2>8, <2>10, <1>3
  <2> QED BY <1>4, <1>5, <2>6, <2>11
<1> QED BY <1>6, <1>7, <1>8 DEF NightlyInv

\* A re-read that has come to its end owes nothing; one that failed owes what it owed.
LEMMA RereadEndNightly == ASSUME CollectInv, NightlyInv, RereadFail \/ RereadFinish PROVE NightlyInv'
<1>1. long.step = "reread" /\ long'.step = "idle" /\ UNCHANGED <<now, cover, found>>
  BY DEF RereadFail, RereadFinish, state, history, IdleLong
<1>2. /\ reread'.day = reread.day /\ reread'.date = reread.date /\ reread'.sources = reread.sources
      /\ reread'.through = reread.through
      /\ RereadFail => reread'.finished = reread.finished
  BY DEF RereadFail, RereadFinish, CollectInv, TypeOK
<1>3. NightInv' /\ ClaimInv'
  BY <1>1, <1>2 DEF NightlyInv, NightInv, ClaimInv
<1>4. LateInv'
  <2> SUFFICES ASSUME Awaited' PROVE ~reread'.finished /\ reread'.through <= LateAt
    BY <1>1 DEF LateInv
  <2>1. Awaited
    BY <1>1, <1>2 DEF Awaited
  <2>2. CASE RereadFail
    BY <1>2, <2>1, <2>2 DEF NightlyInv, LateInv
  <2>3. CASE RereadFinish
    <3>1. long.pos >= long.end /\ long.end = reread.day + DayLen /\ long.pos <= LateAt
      BY <1>1, <2>1, <2>3 DEF RereadFinish, NightlyInv, NightInv, LateInv
    <3>2. LateAt < reread.day + DayLen /\ reread.day + DayLen \in Int /\ long.pos \in Int /\ LateAt \in Int
      BY <2>1, CollectCycleAssumption DEF Awaited, Span, CollectInv, TypeOK
    <3> QED BY <3>1, <3>2
  <2> QED BY <2>2, <2>3
<1> QED BY <1>3, <1>4 DEF NightlyInv

\* A piece of a traffic or events cycle claims the slots it has read.
LEMMA CycleNightly == ASSUME CollectInv, CollectInv', NightlyInv, NEW s \in Sources, Cycle(s) PROVE NightlyInv'
<1>1. CASE CycleBegin(s) \/ CycleFail(s)
  <2>1. UNCHANGED <<now, cover, reread, long, found>>
    BY <1>1 DEF CycleBegin, CycleFail, progress
  <2>2. now \in Nat
    BY DEF CollectInv, TypeOK
  <2> QED BY <2>1, <2>2, NightUndisturbed
<1>2. CASE CycleRead(s)
  <2> DEFINE slots == Only(s, Span(cycle[s].pos, PieceEnd(s)))
  <2>1. Answer(slots) /\ AddCoverage(slots) /\ UNCHANGED <<now, reread, long>>
    BY <1>2 DEF CycleRead, progress
  <2> HIDE DEF slots
  <2>2. cover'["traffic"] = cover["traffic"] \cup slots["traffic"]
    BY <2>1 DEF AddCoverage, Sources
  <2>3. ClaimInv'
    BY <2>1, <2>2 DEF NightlyInv, ClaimInv
  <2>4. CASE long.step # "reread"
    <3>1. NightInv' /\ LateInv'
      BY <2>1, <2>2, <2>4, ReadLeavesNothingOwed
    <3> QED BY <2>3, <3>1 DEF NightlyInv
  <2>5. CASE long.step = "reread"
    <3>1. NightInv'
      BY <2>1 DEF NightlyInv, NightInv
    <3>2. LateInv'
      <4> SUFFICES ASSUME Awaited' PROVE Awaited
        BY <2>1 DEF NightlyInv, LateInv
      <4>1. "traffic" \in reread.sources /\ LateAt \in Span(reread.day, reread.day + DayLen)
            /\ LateSeen < reread.day + DayLen + Settle /\ LateAt \in cover'["traffic"] /\ ~found'
        BY <2>1 DEF Awaited
      <4>2. LateSeen < now
        BY <4>1, AwaitedIsSeen DEF NightlyInv
      <4>3. ~found /\ LateAt \notin slots["traffic"]
        BY <2>1, <4>1, <4>2 DEF Answer
      <4> QED BY <2>2, <4>1, <4>3 DEF Awaited
    <3> QED BY <2>3, <3>1, <3>2 DEF NightlyInv
  <2> QED BY <2>4, <2>5
<1> QED BY <1>1, <1>2 DEF Cycle

\* A backfill that starts has read and claimed nothing of its day yet.
LEMMA StartNightly ==
    ASSUME CollectInv, CollectInv', NightlyInv, NEW plan, NEW start, NEW end, NEW reads,
           StartBackfill(plan, start, end, reads)
    PROVE  NightlyInv'
<1>1. UNCHANGED <<now, cover, reread, found>>
  BY DEF StartBackfill, state, history
<1>2. long'.step = "backfill" /\ long'.from = long'.pos
  BY DEF StartBackfill, IdleLong
<1>3. now \in Nat
  BY DEF CollectInv, TypeOK
<1> QED BY <1>1, <1>2, <1>3, NightUndisturbed

\* A piece of a backfill claims, beside what it reads, only what the day's earlier pieces claimed.
LEMMA BackfillReadNightly == ASSUME CollectInv, NightlyInv, BackfillRead PROVE NightlyInv'
<1> DEFINE slots == [s \in Sources |-> IF s \notin PartReads THEN {}
                                       ELSE IF s = "traffic" THEN Span(long.pos, PartEnd) ELSE Span(long.from, DayEnd)]
<1>1. /\ long.step = "backfill" /\ long.pos < long.end
      /\ Answer(slots)
      /\ cover' = [s \in Sources |-> cover[s] \cup DayClaims[s]]
      /\ long' = [long EXCEPT !.pos = PartEnd, !.from = IF PartEnd = DayEnd THEN DayEnd ELSE long.from]
      /\ UNCHANGED <<now, reread>>
  BY DEF BackfillRead, AddCoverage
<1>2. /\ long.pos \in Nat /\ long.from \in Nat /\ long.end \in Nat
      /\ long.from <= long.pos /\ (long.pos = long.from \/ "traffic" \in long.reads)
  BY <1>1 DEF CollectInv, TypeOK, DayInv
<1>3. DayEnd \in Int /\ PartEnd \in Int
  <2>1. DayEnd \in Int
    BY <1>2, MidnightFacts, CollectCycleAssumption DEF DayEnd, Smaller
  <2> HIDE DEF DayEnd
  <2> QED BY <1>2, <2>1, CollectCycleAssumption DEF PartEnd, Smaller
<1>4. slots["traffic"] = IF "traffic" \in PartReads THEN Span(long.pos, PartEnd) ELSE {}
  BY DEF Sources
<1>5. DayClaims["traffic"] = IF "traffic" \in PartReads THEN Span(long.from, PartEnd) ELSE {}
  BY DEF Sources, DayClaims
<1>6. "traffic" \in PartReads => "traffic" \in long.reads
  BY <1>2 DEF PartReads, First
<1>7. "traffic" \in long.reads => "traffic" \in PartReads
  BY DEF PartReads
<1> HIDE DEF slots
<1>8. cover'["traffic"] = cover["traffic"] \cup DayClaims["traffic"]
  BY <1>1 DEF Sources
<1>9. cover'["traffic"] \subseteq cover["traffic"] \cup slots["traffic"]
  <2> SUFFICES ASSUME NEW x \in DayClaims["traffic"], x \notin slots["traffic"] PROVE x \in cover["traffic"]
    BY <1>8
  <2>1. "traffic" \in PartReads /\ x \in Span(long.from, PartEnd) /\ x \notin Span(long.pos, PartEnd)
    BY <1>4, <1>5
  <2> HIDE DEF PartEnd
  <2>2. x \in Span(long.from, long.pos)
    BY <1>2, <1>3, <2>1 DEF Span
  <2> QED BY <1>1, <1>6, <2>1, <2>2 DEF NightlyInv, ClaimInv
<1>10. long'.step = "backfill" /\ long'.reads = long.reads /\ long'.pos = PartEnd
       /\ long'.from = IF PartEnd = DayEnd THEN DayEnd ELSE long.from
  BY <1>1 DEF CollectInv, TypeOK
<1>11. NightInv' /\ LateInv'
  BY <1>1, <1>9, <1>10, ReadLeavesNothingOwed
<1>12. ClaimInv'
  <2> SUFFICES ASSUME "traffic" \in long.reads PROVE Span(long'.from, long'.pos) \subseteq cover'["traffic"]
    BY <1>10 DEF ClaimInv
  <2>1. DayClaims["traffic"] = Span(long.from, PartEnd)
    BY <1>5, <1>7
  <2>2. CASE PartEnd = DayEnd
    <3>1. Span(long'.from, long'.pos) = Span(DayEnd, DayEnd)
      BY <1>10, <2>2
    <3>2. Span(DayEnd, DayEnd) = {}
      BY <1>3 DEF Span
    <3> QED BY <3>1, <3>2
  <2>3. CASE PartEnd # DayEnd
    BY <1>8, <1>10, <2>1, <2>3
  <2> QED BY <2>2, <2>3
<1> QED BY <1>11, <1>12 DEF NightlyInv

\* Every step keeps what the nights rely on.
LEMMA NextNightly == CollectInv /\ CollectInv' /\ NightlyInv /\ [Next]_vars => NightlyInv'
<1> SUFFICES ASSUME CollectInv, CollectInv', NightlyInv, [Next]_vars PROVE NightlyInv'
  OBVIOUS
<1>n. now \in Nat /\ now' \in Nat
  BY DEF CollectInv, TypeOK
<1>1. CASE UNCHANGED vars
  <2>1. UNCHANGED <<now, cover, reread, long, found>>
    BY <1>1 DEF vars, state, progress, history
  <2> QED BY <1>n, <2>1, NightUndisturbed
<1>2. CASE \E s \in Sources : Cycle(s)
  BY <1>2, CycleNightly
<1>3. CASE Backfill
  <2>1. CASE EnsureInitial
    <3>1. PICK start, end, reads : StartBackfill("initial", start, end, reads)
      BY <2>1 DEF EnsureInitial
    <3> QED BY <3>1, StartNightly
  <2>2. CASE BackfillFail \/ BackfillFinish
    <3>1. UNCHANGED <<now, cover, reread, found>> /\ long'.step = "idle"
      BY <2>2 DEF BackfillFail, BackfillFinish, state, progress, history, IdleLong
    <3> QED BY <1>n, <3>1, NightUndisturbed
  <2> QED BY <1>3, <2>1, <2>2, BackfillReadNightly DEF Backfill
<1>4. CASE Reread
  BY <1>4, RereadBeginNightly, RereadReadNightly, RereadEndNightly DEF Reread
<1>5. CASE \E first, last \in ManualDays, reads \in (SUBSET Sources) \ {{}} : StartManual(first, last, reads)
  <2>1. PICK start, end, reads : StartBackfill("manual", start, end, reads)
    BY <1>5 DEF StartManual
  <2> QED BY <2>1, StartNightly
<1>6. CASE Tick \/ Crash \/ \E m \in Modes : ChangeMode(m)
  <2>1. UNCHANGED <<cover, reread, found>> /\ now <= now' /\ (long' = long \/ long'.step = "idle")
    BY <1>n, <1>6 DEF Tick, Crash, ChangeMode, state, progress, history, IdleLong
  <2> QED BY <1>n, <2>1, NightUndisturbed
<1> QED BY <1>1, <1>2, <1>3, <1>4, <1>5, <1>6 DEF Next

\* "Every record of the day had at least this long to reach the PCE": for every instance, a record
\* that came in time is stored once the re-read of its day has finished, if its slot is claimed.
THEOREM LateIsFound == Spec => []RereadFindsLate
<1>1. NightlyInv => RereadFindsLate
  BY DEF NightlyInv, LateInv, Awaited, RereadFindsLate
<1> QED BY <1>1, Invariant, InitNightly, NextNightly, PTL DEF Spec
=============================================================================
