------------------------------ MODULE Coverage ------------------------------
(***************************************************************************)
(* What part of a requested window the store can answer (store_coverage),  *)
(* and what a query that fills its gaps from the PCE says it could not     *)
(* read (query_flows).  A window <<a, b>> holds the instants a .. b - 1.   *)
(***************************************************************************)
EXTENDS Integers, FiniteSets, SequencesExt

CONSTANTS
    CoverageEnd,  \* bound: instants are 0 .. CoverageEnd
    Requests, \* the windows that are asked for
    Budget    \* FILL_BUDGET: records one answer may hold

Failed == "ingest_failed"
Truncated == "truncated"

CoverageWindows == {w \in (0 .. CoverageEnd) \X (0 .. CoverageEnd) : w[1] < w[2]}
ASSUME CoverageAssumption == CoverageEnd \in Nat /\ Requests \subseteq CoverageWindows /\ Budget \in Nat

VARIABLE answer  \* the request, what the store knew, and what is answered; Unanswered before the first

-----------------------------------------------------------------------------
Greater(a, b) == IF a > b THEN a ELSE b
Lesser(a, b) == IF a < b THEN a ELSE b
Meets(v, w) == v[1] < w[2] /\ v[2] > w[1]

\* subtract: what remains of a window once every cut is taken out of every part.
CutOne(parts, cut) ==
    UNION {IF ~Meets(cut, p) THEN {p}
           ELSE {w \in {<<p[1], cut[1]>>, <<cut[2], p[2]>>} : w[1] < w[2]} : p \in parts}
Subtract(window, cuts) == FoldLeft(CutOne, {window}, SetToSeq(cuts))

\* Mutation of JoinGap: a gap inside the one before it shortens it.
JoinGapLast(out, g) ==
    IF out # <<>> /\ Last(out)[3] = g[3] /\ g[1] <= Last(out)[2]
    THEN Append(Front(out), <<Last(out)[1], g[2], g[3]>>) ELSE Append(out, g)
JoinGap(out, g) ==
    IF out # <<>> /\ Last(out)[3] = g[3] /\ g[1] <= Last(out)[2]
    THEN Append(Front(out), <<Last(out)[1], Greater(Last(out)[2], g[2]), g[3]>>) ELSE Append(out, g)
\* merge_gaps: of one reason, those that overlap or touch are joined.
ByStart(a, b) == a[1] < b[1] \/ (a[1] = b[1] /\ a[2] < b[2])
MergeGaps(gaps) ==
    UNION {ToSet(FoldLeft(JoinGap, <<>>, SetToSortSeq({g \in gaps : g[3] = reason}, ByStart))) : reason \in {g[3] : g \in gaps}}

\* store_coverage: the ranges read, clipped at the retention floor; recorded gaps are listed even where the
\* window around them was read, and what is outside the ranges and not recorded is a gap by its place.
StoreCoverage(window, read, open, floor, collected) ==
    LET ranges == {<<Greater(r[1], floor), r[2]>> : r \in {x \in read : x[2] > floor}}
        recorded == {<<Greater(g[1], window[1]), Lesser(g[2], window[2]), g[3]>> : g \in {x \in open : Meets(x, window)}}
        unread == UNION {Subtract(p, {<<g[1], g[2]>> : g \in recorded}) : p \in Subtract(window, ranges)}
        below == {<<p[1], Lesser(p[2], floor), "before_retention">> : p \in {x \in unread : x[1] < floor}}
        above == {<<Greater(p[1], floor), p[2], IF collected THEN "not_yet_collected" ELSE "collection_off">> :
                    p \in {x \in unread : x[2] > floor}}
    IN MergeGaps(recorded \cup below \cup above)

-----------------------------------------------------------------------------
(* query_flows with fill_gaps: gap after gap is read at the PCE, in order. *)

\* What the PCE does with one read: a failure, or as many records, perhaps capped.
Readings == {[ok |-> FALSE, records |-> 0, capped |-> FALSE]} \cup [ok : {TRUE}, records : {1}, capped : BOOLEAN]

FillOne(state, g, reading) ==
    IF g[3] = Truncated \/ state.budget <= 0
    THEN [state EXCEPT !.kept = @ \cup {<<g[1], g[2], Truncated>>}]
    ELSE IF ~reading.ok THEN [state EXCEPT !.kept = @ \cup {<<g[1], g[2], Failed>>}]
    ELSE [budget |-> state.budget - reading.records, filled |-> state.filled \cup {<<g[1], g[2]>>},
          kept |-> state.kept \cup (IF reading.capped THEN {<<g[1], g[2], Truncated>>} ELSE {})]

\* It may go otherwise with a gap that failed before than with the rest.
FillGaps(gaps, reading) ==
    LET ordered == SetToSortSeq(gaps, ByStart)
        last == FoldLeft(LAMBDA state, g : FillOne(state, g, reading[g[3] = Failed]), [budget |-> Budget, filled |-> {}, kept |-> {}], ordered)
    IN [filled |-> last.filled, kept |-> MergeGaps(last.kept)]

-----------------------------------------------------------------------------
Unanswered == [asked |-> FALSE]
CoverageInit == answer = Unanswered

OpenGaps == {o \in SUBSET (CoverageWindows \X {Failed, Truncated}) : Cardinality(o) <= 2}
\* add_coverage: a range is joined with those it overlaps or touches.
ReadRanges == {r \in SUBSET CoverageWindows : \A v, w \in r : v = w \/ v[2] < w[1] \/ w[2] < v[1]}
AskCoverage ==
    /\ answer = Unanswered
    /\ \E window \in Requests, read \in ReadRanges, open \in OpenGaps :
       \E floor \in 0 .. CoverageEnd, collected \in BOOLEAN, reading \in [BOOLEAN -> Readings] :
          LET gaps == StoreCoverage(window, read, {<<g[1][1], g[1][2], g[2]>> : g \in open}, floor, collected)
          IN answer' = [asked |-> TRUE, window |-> window, read |-> read, open |-> open, floor |-> floor,
                        collected |-> collected, reading |-> reading, gaps |-> gaps, fill |-> FillGaps(gaps, reading)]

\* Why an instant of the request is missing: the reasons it is listed under.
Reasons(gaps, t) == {g[3] : g \in {x \in gaps : x[1] <= t /\ t < x[2]}}
RecordedAt(t) == {g[2] : g \in {x \in answer.open : x[1][1] <= t /\ t < x[1][2]}}
ReadAt(t) == t >= answer.floor /\ \E r \in answer.read : r[1] <= t /\ t < r[2]
ReasonOf(t) == IF t < answer.floor THEN "before_retention" ELSE IF answer.collected THEN "not_yet_collected" ELSE "collection_off"

\* Every instant of the request is answered from the store or listed as missing, for the reason it is missing
\* for; what was recorded as failed or cut short is listed also where the window around it was read, and
\* nothing outside the request is listed.
MissingIsListed ==
    answer # Unanswered =>
       /\ \A t \in answer.window[1] .. (answer.window[2] - 1) :
             Reasons(answer.gaps, t) = IF RecordedAt(t) # {} THEN RecordedAt(t) ELSE IF ReadAt(t) THEN {} ELSE {ReasonOf(t)}
       /\ \A g \in answer.gaps : answer.window[1] <= g[1] /\ g[1] < g[2] /\ g[2] <= answer.window[2]
       /\ \A g, h \in answer.gaps : g # h /\ g[3] = h[3] => g[2] < h[1] \/ h[2] < g[1]

\* What a filled answer does not list as missing was read: from the store, or at the PCE and to its end.
FilledIsRead ==
    answer # Unanswered =>
       \A t \in answer.window[1] .. (answer.window[2] - 1) :
          Reasons(answer.fill.kept, t) = {} =>
             \/ Reasons(answer.gaps, t) = {}
             \/ \A reason \in Reasons(answer.gaps, t) :
                   LET r == answer.reading[reason = Failed] IN r.ok /\ ~r.capped /\ reason # Truncated

\* An answer says of every instant asked for whether and why it is missing, before and after gaps are filled
\* (coverage, query_flows with fill_gaps).
AnswerSaysWhatIsMissing == MissingIsListed /\ FilledIsRead
=============================================================================
