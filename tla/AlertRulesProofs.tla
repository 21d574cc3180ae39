-------------------------- MODULE AlertRulesProofs --------------------------
(***************************************************************************)
(* Proofs about AlertRules, for any number of detections and severities,   *)
(* any page, gate and bound: a rule alerts on every rise it takes, no more *)
(* often than its gate lets it, and not on repeats (RiseAlertsOnce).       *)
(***************************************************************************)
EXTENDS AlertRules, FiniteSetTheorems, SequenceTheorems, WellFoundedInduction, TLAPS

-----------------------------------------------------------------------------
(* The inductive invariant.                                                *)

Marks == Int \X Int
Row == [sev : 0 .. MaxSev, created : Int, updated : Int]
Pages == UNION {[S -> Row] : S \in SUBSET Detections}
Steps == {"idle", "detect", "evaluate", "page", "commit"}
JobState == [step : Steps, at : Int, start : Marks, from : Marks, pages : Int, page : Pages \cup {<<>>}]

Shape ==
    /\ now \in Nat /\ mark \in Marks
    /\ rows \in [Detections -> Row]
    /\ seen \in [Detections -> Int] /\ last \in [Detections -> Int]
    /\ recent \in [Detections -> SUBSET Nat]
    /\ alerts \in [Detections -> Seq([sev : Int, at : Int])]
    /\ job \in [Jobs -> JobState]
    /\ passed \in [Detections -> Int] /\ era \in [Detections -> Nat]

\* No stamp and no run is ahead of the clock; what a rule remembers of a detection, and what counts as
\* history, is no more than its severity.
Stamps ==
    /\ now <= MaxNow
    /\ \A d \in Detections :
        /\ Found(d) => rows[d].sev >= 1 /\ rows[d].created \in 0 .. now /\ rows[d].updated \in 0 .. now
        /\ seen[d] \in 0 .. rows[d].sev /\ passed[d] \in 0 .. rows[d].sev
        /\ d \notin restamped => rows[d].created <= rows[d].updated
    /\ \A j \in Jobs : job[j].at \in 0 .. now

\* One evaluation at a time, from the watermark on; the rows of its page are what they were when it was read.
Pagewise ==
    /\ \A i, j \in Jobs : Evaluating(i) /\ Evaluating(j) => i = j
    /\ \A j \in Jobs : Evaluating(j) => job[j].from = mark /\ mark # NoMark
    /\ \A j \in Jobs : job[j].step = "commit" =>
        /\ job[j].page \in Pages /\ DOMAIN job[j].page # {}
        /\ \A d \in DOMAIN job[j].page :
            /\ job[j].page[d].sev \in 1 .. rows[d].sev /\ seen[d] <= job[j].page[d].sev
            /\ job[j].page[d].created = rows[d].created /\ job[j].page[d].updated \in 0 .. now
            /\ After(job[j].page[d].updated, d, mark)
            /\ d \notin restamped => job[j].page[d].created <= job[j].page[d].updated

\* The alerts on a detection and what the gate keeps of them.
GateState ==
    \A d \in Detections :
        /\ era[d] <= Len(alerts[d])
        /\ \A i \in DOMAIN alerts[d] :
            /\ alerts[d][i].at \in 0 .. now
            /\ \A j \in Jobs : Evaluating(j) => alerts[d][i].at <= job[j].at
            /\ \A k \in DOMAIN alerts[d] : i <= k => alerts[d][i].at <= alerts[d][k].at
        /\ last[d] = IF Len(alerts[d]) > era[d] THEN alerts[d][Len(alerts[d])].at ELSE NoTime
        /\ recent[d] \subseteq era[d] + 1 .. Len(alerts[d])
        /\ \A i \in era[d] + 1 .. Len(alerts[d]) : i \notin recent[d] =>
            /\ alerts[d][i].at + Period <= now
            /\ \A j \in Jobs : Evaluating(j) => alerts[d][i].at + Period <= job[j].at

\* A rule remembers at least what it alerted on, and a severity it takes and remembers was alerted on or
\* is history.
Remembers ==
    \A d \in Detections :
        /\ \A i \in DOMAIN alerts[d] : alerts[d][i].sev \in 1 .. seen[d]
        /\ seen[d] >= MinSev => seen[d] <= passed[d] \/ \E i \in DOMAIN alerts[d] : alerts[d][i].sev >= seen[d]

\* The watermark is past what was alerted on, and a run does not take for new what an earlier one alerted on.
PastAlerts ==
    \A d \in Detections : d \notin restamped /\ alerts[d] # <<>> =>
        /\ ~After(rows[d].created, d, mark)
        /\ \A j \in Jobs : Evaluating(j) =>
            \/ ~After(rows[d].created, d, job[j].start)
            \/ \A i \in DOMAIN alerts[d] : alerts[d][i].at = job[j].at

IInv ==
    /\ Shape /\ Stamps /\ Pagewise /\ GateState /\ Remembers /\ PastAlerts
    /\ NoRiseForgotten /\ GateIsKept /\ RepeatsDoNotAlert

-----------------------------------------------------------------------------
(* The order of marks, and the last row of a page.                         *)

\* Marks are ordered by time, then by detection: passing a later mark passes an earlier one.
LEMMA AfterIsTransitive ==
    ASSUME NEW t \in Int, NEW d \in Int, NEW m \in Marks, NEW n \in Marks,
           After(n[1], n[2], m), After(t, d, n)
    PROVE  After(t, d, m)
BY DEF After, Marks

\* Two detections of one stamp are told apart by their fingerprint, so one mark is after the other.
LEMMA AfterIsTotal ==
    ASSUME NEW t \in Int, NEW d \in Int, NEW u \in Int, NEW e \in Int, d # e
    PROVE  After(t, d, <<u, e>>) \/ After(u, e, <<t, d>>)
BY DEF After

\* A page is made of rows of detections.
LEMMA PageShape ==
    ASSUME NEW page \in Pages
    PROVE  /\ page \in [DOMAIN page -> Row] /\ DOMAIN page \subseteq Detections
           /\ \A d \in DOMAIN page : page[d] \in Row /\ d \in Int
<1>1. PICK S \in SUBSET Detections : page \in [S -> Row]
  BY DEF Pages
<1>2. DOMAIN page = S
  BY <1>1
<1> QED
  BY <1>1, <1>2, AlertRulesAssumption DEF Detections

\* A page of rows has a last one, found by ranking each row by its stamp and fingerprint.
LEMMA PageHasLast ==
    ASSUME NEW page \in Pages, DOMAIN page # {}, \A d \in DOMAIN page : page[d].updated \in 0 .. now, now \in Nat
    PROVE  \E d \in DOMAIN page : \A e \in DOMAIN page \ {d} : After(page[d].updated, d, <<page[e].updated, e>>)
<1> DEFINE S == DOMAIN page
           Stamp == {page[d].updated : d \in S}
<1>0. S \subseteq Nat /\ S # {} /\ page \in [S -> Row] /\ \A d \in S : d \in 1 .. NumDetections
  BY PageShape, AlertRulesAssumption DEF Detections
<1>1. PICK t \in Stamp : \A u \in Stamp : u <= t
  <2> DEFINE T == {n \in Nat : n <= now /\ now - n \in Stamp}
  <2>0. \A u \in Stamp : u \in 0 .. now
    BY <1>0
  <2>4. \A u \in Stamp : now - u \in T
    BY <2>0
  <2>1. T # {} /\ T \subseteq Nat
    BY <1>0, <2>4
  <2>2. PICK n \in T : \A k \in T : <<k, n>> \notin OpToRel(<, Nat)
    BY <2>1, WFMin, NatLessThanWellFounded, Zenon
  <2>3. \A k \in T : ~(k < n)
    BY <2>1, <2>2 DEF OpToRel
  <2>5. now - n \in Stamp /\ n \in Nat
    BY <2>2
  <2>6. ASSUME NEW u \in Stamp PROVE u <= now - n
    <3> HIDE DEF Stamp, T
    <3>1. now - u \in T /\ ~(now - u < n) /\ u \in Int
      BY <2>0, <2>3, <2>4
    <3> QED
      BY <3>1, <2>5
  <2> QED
    BY <2>5, <2>6
<1>2. PICK d \in S : page[d].updated = t /\ \A e \in S : page[e].updated = t => e <= d
  <2> DEFINE T == {n \in Nat : n <= NumDetections /\ NumDetections - n \in S /\ page[NumDetections - n].updated = t}
  <2>1. T # {} /\ T \subseteq Nat
    <3>1. PICK e \in S : page[e].updated = t
      BY <1>1
    <3>2. NumDetections - e \in T
      BY <3>1, <1>0, AlertRulesAssumption
    <3> QED
      BY <3>2
  <2>2. PICK n \in T : \A k \in T : <<k, n>> \notin OpToRel(<, Nat)
    BY <2>1, WFMin, NatLessThanWellFounded, Zenon
  <2>3. \A k \in T : ~(k < n)
    BY <2>1, <2>2 DEF OpToRel
  <2>4. \A e \in S : page[e].updated = t => NumDetections - e \in T
    BY <1>0, AlertRulesAssumption
  <2>5. NumDetections - n \in S /\ page[NumDetections - n].updated = t
    BY <2>2
  <2>6. \A e \in S : page[e].updated = t => e <= NumDetections - n
    BY <2>3, <2>4, <1>0, AlertRulesAssumption
  <2> QED
    BY <2>5, <2>6
<1>3. ASSUME NEW e \in S \ {d} PROVE After(page[d].updated, d, <<page[e].updated, e>>)
  <2>1. page[e].updated <= t /\ page[e].updated \in Int /\ t \in Int
    BY <1>0, <1>1, <1>2
  <2> QED
    BY <2>1, <1>0, <1>2 DEF After
<1> QED
  BY <1>3

\* PageEnd is the mark of a row of the page, and no row of the page is after it.
LEMMA PageEndIsLast ==
    ASSUME NEW page \in Pages, DOMAIN page # {}, \A d \in DOMAIN page : page[d].updated \in 0 .. now, now \in Nat
    PROVE  \E d \in DOMAIN page :
              /\ PageEnd(page) = <<page[d].updated, d>>
              /\ \A e \in DOMAIN page : ~After(page[e].updated, e, PageEnd(page))
<1> DEFINE d == CHOOSE d \in DOMAIN page :
                    \A e \in DOMAIN page \ {d} : After(page[d].updated, d, <<page[e].updated, e>>)
<1>1. d \in DOMAIN page /\ \A e \in DOMAIN page \ {d} : After(page[d].updated, d, <<page[e].updated, e>>)
  BY PageHasLast
<1>2. PageEnd(page) = <<page[d].updated, d>>
  BY DEF PageEnd
<1>3. \A e \in DOMAIN page : e \in Int /\ page[e].updated \in Int
  BY PageShape
<1> HIDE DEF d
<1>4. ASSUME NEW e \in DOMAIN page PROVE ~After(page[e].updated, e, <<page[d].updated, d>>)
  BY <1>1, <1>3 DEF After
<1> QED
  BY <1>1, <1>2, <1>4

\* What Shape says of one detection's alerts.
LEMMA AlertShape ==
    ASSUME Shape, NEW d \in Detections
    PROVE  /\ alerts[d] \in Seq([sev : Int, at : Int]) /\ Len(alerts[d]) \in Nat /\ era[d] \in Nat
           /\ DOMAIN alerts[d] = 1 .. Len(alerts[d])
           /\ \A i \in 1 .. Len(alerts[d]) : alerts[d][i].sev \in Int /\ alerts[d][i].at \in Int
           /\ \A i \in era[d] + 1 .. Len(alerts[d]) : i \in 1 .. Len(alerts[d])
<1>1. alerts[d] \in Seq([sev : Int, at : Int]) /\ era[d] \in Nat
  BY DEF Shape
<1>2. Len(alerts[d]) \in Nat /\ DOMAIN alerts[d] = 1 .. Len(alerts[d])
  BY <1>1
<1>3. \A i \in 1 .. Len(alerts[d]) : alerts[d][i] \in [sev : Int, at : Int]
  BY <1>1, ElementOfSeq
<1>4. \A i \in 1 .. Len(alerts[d]) : alerts[d][i].sev \in Int /\ alerts[d][i].at \in Int
  BY <1>3
<1>5. \A i \in era[d] + 1 .. Len(alerts[d]) : i \in 1 .. Len(alerts[d])
  BY <1>1, <1>2
<1> QED
  BY <1>1, <1>2, <1>4, <1>5

-----------------------------------------------------------------------------
(* The invariant holds at first and is kept by each step.                  *)

LEMMA InitEstablishes == Init => IInv
<1> SUFFICES ASSUME Init PROVE IInv
  OBVIOUS
<1> USE AlertRulesAssumption DEF Init, Found, NoRow, NoTime
<1>1. Shape
  BY DEF Shape, Marks, NoMark, Start, Row, JobState, IdleJob, Steps, Jobs
<1>2. Stamps
  BY DEF Stamps, IdleJob
<1>3. Pagewise
  BY DEF Pagewise, Evaluating, IdleJob
<1>4. GateState /\ Remembers /\ PastAlerts /\ GateIsKept /\ RepeatsDoNotAlert
  BY DEF GateState, Remembers, PastAlerts, Evaluating, IdleJob, GateIsKept, RepeatsDoNotAlert
<1>5. NoRiseForgotten
  BY DEF NoRiseForgotten
<1> QED
  BY <1>1, <1>2, <1>3, <1>4, <1>5 DEF IInv

\* A job that goes on without recording, and the watermark, the rows and the alerts left alone: what is
\* left to show is that the job's own state is in order.
LEMMA JobMovesOn ==
    ASSUME IInv, UNCHANGED <<rows, store, history>>, now' \in now .. MaxNow, job' \in [Jobs -> JobState],
           \A i \in Jobs : job'[i].at \in 0 .. now',
           \A i, k \in Jobs : Evaluating(i)' /\ Evaluating(k)' => i = k,
           \A i \in Jobs : Evaluating(i)' =>
              \/ Evaluating(i) /\ job'[i].at = job[i].at /\ job'[i].start = job[i].start /\ job'[i].from = job[i].from
              \/ job'[i].at = now /\ job'[i].start = mark /\ job'[i].from = mark /\ mark # NoMark,
           \A i \in Jobs : job'[i].step = "commit" =>
              \/ job[i].step = "commit" /\ job'[i].page = job[i].page
              \/ /\ job'[i].page \in Pages /\ DOMAIN job'[i].page # {}
                 /\ \A d \in DOMAIN job'[i].page : job'[i].page[d] = rows[d] /\ Ahead(d, mark)
    PROVE  IInv'
<1> USE DEF IInv, store, history
<1>1. Shape'
  BY DEF Shape, Stamps
<1>2. Stamps'
  BY DEF Stamps, Shape, Found
<1>3. Pagewise'
  <2>1. \A i \in Jobs : Evaluating(i)' => job'[i].from = mark' /\ mark' # NoMark
    BY DEF Pagewise
  <2>2. ASSUME NEW i \in Jobs, job'[i].step = "commit", NEW d \in DOMAIN job'[i].page
        PROVE  /\ job'[i].page[d].sev \in 1 .. rows'[d].sev /\ seen'[d] <= job'[i].page[d].sev
               /\ job'[i].page[d].created = rows'[d].created /\ job'[i].page[d].updated \in 0 .. now'
               /\ After(job'[i].page[d].updated, d, mark')
               /\ d \notin restamped' => job'[i].page[d].created <= job'[i].page[d].updated
    <3>1. CASE job[i].step = "commit" /\ job'[i].page = job[i].page
      <4>1. now' >= now /\ now \in Int /\ now' \in Int
        BY DEF Shape, Stamps
      <4>2. /\ job[i].page[d].sev \in 1 .. rows[d].sev /\ seen[d] <= job[i].page[d].sev
            /\ job[i].page[d].created = rows[d].created /\ job[i].page[d].updated \in 0 .. now
            /\ After(job[i].page[d].updated, d, mark)
            /\ d \notin restamped => job[i].page[d].created <= job[i].page[d].updated
        BY <2>2, <3>1 DEF Pagewise
      <4> QED
        BY <3>1, <4>1, <4>2
    <3>2. CASE /\ job'[i].page \in Pages
               /\ \A e \in DOMAIN job'[i].page : job'[i].page[e] = rows[e] /\ Ahead(e, mark)
      <4>1. d \in Detections
        BY <2>2, <3>2, PageShape
      <4> QED
        BY <2>2, <3>2, <4>1 DEF Stamps, Shape, Ahead, Found, Row
    <3> QED
      BY <2>2, <3>1, <3>2
  <2>3. \A i \in Jobs : job'[i].step = "commit" => job'[i].page \in Pages /\ DOMAIN job'[i].page # {}
    BY DEF Pagewise
  <2> QED
    BY <2>1, <2>2, <2>3 DEF Pagewise
<1>4. GateState'
  <2> SUFFICES ASSUME NEW d \in Detections
               PROVE  /\ era[d] <= Len(alerts[d])
                      /\ \A i \in DOMAIN alerts[d] :
                            /\ alerts[d][i].at \in 0 .. now'
                            /\ \A k \in Jobs : Evaluating(k)' => alerts[d][i].at <= job'[k].at
                            /\ \A k \in DOMAIN alerts[d] : i <= k => alerts[d][i].at <= alerts[d][k].at
                      /\ last[d] = IF Len(alerts[d]) > era[d] THEN alerts[d][Len(alerts[d])].at ELSE NoTime
                      /\ recent[d] \subseteq era[d] + 1 .. Len(alerts[d])
                      /\ \A i \in era[d] + 1 .. Len(alerts[d]) : i \notin recent[d] =>
                            /\ alerts[d][i].at + Period <= now'
                            /\ \A k \in Jobs : Evaluating(k)' => alerts[d][i].at + Period <= job'[k].at
    BY DEF GateState
  <2>1. now \in Nat /\ now' \in Nat /\ now <= now' /\ Period \in Nat
    BY AlertRulesAssumption DEF Shape
  <2>2. \A i \in DOMAIN alerts[d] : /\ alerts[d][i].at \in 0 .. now'
                                    /\ \A k \in Jobs : Evaluating(k)' => alerts[d][i].at <= job'[k].at
    BY <2>1, AlertShape DEF GateState
  <2>0. \A i \in era[d] + 1 .. Len(alerts[d]) : i \in DOMAIN alerts[d] /\ alerts[d][i].at \in Int
    BY AlertShape
  <2>3. \A i \in era[d] + 1 .. Len(alerts[d]) : i \notin recent[d] => alerts[d][i].at + Period <= now'
    <3>1. \A i \in era[d] + 1 .. Len(alerts[d]) : i \notin recent[d] => alerts[d][i].at + Period <= now
      BY DEF GateState
    <3> QED
      BY <2>0, <2>1, <3>1
  <2>4. \A i \in era[d] + 1 .. Len(alerts[d]) : i \notin recent[d] =>
            \A k \in Jobs : Evaluating(k)' => alerts[d][i].at + Period <= job'[k].at
    <3>1. \A i \in era[d] + 1 .. Len(alerts[d]) : i \notin recent[d] =>
            /\ alerts[d][i].at + Period <= now
            /\ \A k \in Jobs : Evaluating(k) => alerts[d][i].at + Period <= job[k].at
      BY DEF GateState
    <3> QED
      BY <3>1
  <2> QED
    BY <2>2, <2>3, <2>4 DEF GateState
<1>5. PastAlerts'
  BY DEF PastAlerts
<1>6. Remembers' /\ NoRiseForgotten' /\ RepeatsDoNotAlert'
  BY DEF Remembers, NoRiseForgotten, AlertedSevs, Ahead, Found, RepeatsDoNotAlert
<1>7. GateIsKept'
  BY Zenon DEF GateIsKept
<1> QED
  BY <1>1, <1>2, <1>3, <1>4, <1>5, <1>6, <1>7

\* A job that ends or is ready to evaluate, and nothing else changes.
LEMMA JobRests ==
    ASSUME IInv, NEW j \in Jobs, NEW rest \in {IdleJob, ReadyJob}, job' = [job EXCEPT ![j] = rest],
           UNCHANGED <<now, rows, store, history>>
    PROVE  IInv'
<1>0. Shape /\ Stamps /\ Pagewise
  BY DEF IInv
<1>1. rest \in JobState /\ rest.at = 0 /\ rest.step \notin {"page", "commit"}
  BY DEF IdleJob, ReadyJob, JobState, Steps, Marks, NoMark, NoTime
<1>2. job \in [Jobs -> JobState] /\ now \in Nat /\ now <= MaxNow /\ \A i \in Jobs : job[i].at \in 0 .. now
  BY <1>0 DEF Shape, Stamps
<1>3. job' \in [Jobs -> JobState] /\ job'[j] = rest /\ \A i \in Jobs \ {j} : job'[i] = job[i]
  BY <1>1, <1>2
<1>4. \A i \in Jobs : Evaluating(i)' => Evaluating(i) /\ job'[i] = job[i]
  BY <1>1, <1>3 DEF Evaluating
<1>5. \A i \in Jobs : job'[i].step = "commit" => job[i].step = "commit" /\ job'[i].page = job[i].page
  BY <1>1, <1>3
<1>6. \A i, k \in Jobs : Evaluating(i)' /\ Evaluating(k)' => i = k
  BY <1>0, <1>4 DEF Pagewise
<1>7. \A i \in Jobs : job'[i].at \in 0 .. now'
  BY <1>1, <1>2, <1>3
<1>8. now' \in now .. MaxNow
  BY <1>2, AlertRulesAssumption
<1> QED
  BY <1>3, <1>4, <1>5, <1>6, <1>7, <1>8, JobMovesOn

\* A job whose fields are set is still a job.
LEMMA JobFields ==
    ASSUME NEW record \in JobState, NEW s \in Steps, NEW t \in Int, NEW m \in Marks
    PROVE  /\ [record EXCEPT !.step = s, !.at = t] \in JobState
           /\ [record EXCEPT !.step = s, !.at = t, !.start = m, !.from = m] \in JobState
<1> DEFINE P == Pages \cup {<<>>}
<1>1. JobState = [step : Steps, at : Int, start : Marks, from : Marks, pages : Int, page : P]
  BY DEF JobState
<1> HIDE DEF P
<1> QED
  BY <1>1

\* The steps of the two jobs that record nothing, and the clock.
LEMMA QuietStepsKeep ==
    ASSUME IInv, NEW j \in Jobs
    PROVE  (DetectBegin(j) \/ DetectFail(j) \/ EvaluateWaits(j) \/ EvaluateBegin(j) \/ EvaluatePage(j) \/ Fail(j)
             \/ Tick \/ UNCHANGED vars) => IInv'
<1>0. Shape /\ Stamps /\ Pagewise
  BY DEF IInv
<1>1. /\ now \in Nat /\ now <= MaxNow /\ mark \in Marks /\ job \in [Jobs -> JobState] /\ rows \in [Detections -> Row]
      /\ \A i \in Jobs : job[i] \in JobState /\ job[i].at \in 0 .. now
  BY <1>0 DEF Shape, Stamps
<1>2. IdleJob \in JobState /\ ReadyJob \in JobState /\ <<>> \in Pages \cup {<<>>}
  BY DEF IdleJob, ReadyJob, JobState, Steps, Marks, NoMark, NoTime
<1>3. ASSUME DetectBegin(j) PROVE IInv'
  <2>1. job' \in [Jobs -> JobState]
    <3>1. job' = [job EXCEPT ![j] = [IdleJob EXCEPT !.step = "detect", !.at = now]]
      BY <1>3 DEF DetectBegin
    <3>2. [IdleJob EXCEPT !.step = "detect", !.at = now] \in JobState
      <4>1. "detect" \in Steps /\ now \in Int /\ mark \in Marks
        BY <1>1 DEF Steps
      <4> QED
        BY <1>2, <4>1, JobFields, Zenon
    <3> QED
      BY <1>1, <3>1, <3>2
  <2> QED
    BY <1>0, <1>1, <1>3, <2>1, JobMovesOn DEF DetectBegin, IdleJob, Evaluating, Pagewise
<1>4. ASSUME DetectFail(j) \/ EvaluateWaits(j) \/ Fail(j) PROVE IInv'
  <2>1. /\ UNCHANGED <<now, rows, store, history>>
        /\ job' = [job EXCEPT ![j] = ReadyJob] \/ job' = [job EXCEPT ![j] = IdleJob]
    BY <1>4 DEF DetectFail, EvaluateWaits, Fail
  <2> QED
    BY <2>1, JobRests
<1>5. ASSUME EvaluateBegin(j) PROVE IInv'
  <2>1. job' \in [Jobs -> JobState]
    <3>1. job' = [job EXCEPT ![j] = [IdleJob EXCEPT !.step = "page", !.at = now, !.start = mark, !.from = mark]]
      BY <1>5 DEF EvaluateBegin
    <3>2. [IdleJob EXCEPT !.step = "page", !.at = now, !.start = mark, !.from = mark] \in JobState
      <4>1. "page" \in Steps /\ now \in Int /\ mark \in Marks
        BY <1>1 DEF Steps
      <4> QED
        BY <1>2, <4>1, JobFields, Zenon
    <3> QED
      BY <1>1, <3>1, <3>2
  <2> QED
    BY <1>0, <1>1, <1>5, <2>1, JobMovesOn DEF EvaluateBegin, IdleJob, Evaluating, Pagewise
<1>6. ASSUME EvaluatePage(j) PROVE IInv'
  <2> DEFINE changed == {d \in Detections : Ahead(d, job[j].from)}
             before(d) == {e \in changed : After(rows[d].updated, d, <<rows[e].updated, e>>)}
             page == {d \in changed : Cardinality(before(d)) < Page}
             read == [d \in page |-> rows[d]]
  <2>1. /\ UNCHANGED <<now, rows, store, history>> /\ job[j].step = "page"
        /\ job' = [job EXCEPT ![j] = IF page = {} THEN IdleJob
                                     ELSE [@ EXCEPT !.step = "commit", !.page = read]]
    BY <1>6 DEF EvaluatePage
  <2>2. page \subseteq changed /\ changed \subseteq Detections
    OBVIOUS
  <2> HIDE DEF page
  <2>3. read \in Pages /\ DOMAIN read = page
    BY <1>1, <2>2 DEF Pages
  <2>4. job[j].from = mark
    BY <1>0, <2>1 DEF Pagewise, Evaluating
  <2>5. \A d \in DOMAIN read : read[d] = rows[d] /\ Ahead(d, mark)
    BY <2>2, <2>3, <2>4
  <2> HIDE DEF read
  <2>6. CASE page = {}
    <3>1. job' = [job EXCEPT ![j] = IdleJob]
      BY <2>1, <2>6
    <3> QED
      BY <2>1, <3>1, JobRests
  <2>7. CASE page # {}
    <3>1. job' = [job EXCEPT ![j] = [job[j] EXCEPT !.step = "commit", !.page = read]]
      BY <2>1, <2>7
    <3>2. job' \in [Jobs -> JobState]
      BY <1>1, <2>3, <3>1 DEF JobState, Steps
    <3>3. /\ job'[j].step = "commit" /\ job'[j].page = read /\ job'[j].at = job[j].at /\ job'[j].start = job[j].start
          /\ job'[j].from = job[j].from /\ \A i \in Jobs \ {j} : job'[i] = job[i]
      BY <1>1, <3>1 DEF JobState
    <3> QED
      BY <1>0, <1>1, <2>1, <2>3, <2>5, <2>7, <3>2, <3>3, JobMovesOn DEF Evaluating, Pagewise
  <2> QED
    BY <2>6, <2>7
<1>7. ASSUME Tick \/ UNCHANGED vars PROVE IInv'
  <2>1. UNCHANGED <<rows, store, history, job>> /\ now' \in now .. MaxNow /\ now <= now'
    BY <1>1, <1>7, AlertRulesAssumption DEF Tick, vars
  <2> QED
    BY <1>0, <1>1, <2>1, JobMovesOn DEF Evaluating, Pagewise
<1> QED
  BY <1>3, <1>4, <1>5, <1>6, <1>7

\* reset_rule_state: what the gate kept before does not count any more.
LEMMA ResetRuleKeeps ==
    ASSUME IInv, ResetRule PROVE IInv'
<1> USE DEF IInv, ResetRule
<1>1. /\ UNCHANGED <<now, rows, mark, seen, alerts, job, passed, restamped>>
      /\ last' = [d \in Detections |-> NoTime] /\ recent' = [d \in Detections |-> {}]
      /\ era' = [d \in Detections |-> Len(alerts[d])]
  OBVIOUS
<1>2. \A d \in Detections : Len(alerts[d]) \in Nat /\ last'[d] = NoTime /\ recent'[d] = {} /\ era'[d] = Len(alerts[d])
  BY <1>1, AlertShape
<1>3. Shape'
  BY <1>1, <1>2 DEF Shape, NoTime
<1>4. Stamps' /\ Pagewise'
  BY <1>1 DEF Stamps, Pagewise, Found, Evaluating, After
<1>5. Remembers' /\ PastAlerts' /\ NoRiseForgotten'
  BY <1>1 DEF Remembers, PastAlerts, NoRiseForgotten, AlertedSevs, Ahead, Found, Evaluating, After
<1>6. GateState'
  BY <1>1, <1>2, AlertShape DEF GateState, Evaluating
<1>7. GateIsKept'
  BY <1>1, <1>2 DEF GateIsKept
<1>8. RepeatsDoNotAlert'
  BY <1>1, <1>2, AlertShape DEF RepeatsDoNotAlert
<1> QED
  BY <1>3, <1>4, <1>5, <1>6, <1>7, <1>8

\* A first evaluation has no alerts behind it: it only sets the watermark, and what is there is history.
LEMMA EvaluateFirstKeeps ==
    ASSUME IInv, NEW j \in Jobs, EvaluateFirst(j) PROVE IInv'
<1> USE DEF IInv
<1>1. /\ mark = NoMark /\ \A i \in Jobs : ~Evaluating(i)
      /\ passed' = [d \in Detections |-> rows[d].sev] /\ job' = [job EXCEPT ![j] = IdleJob]
      /\ UNCHANGED <<now, rows, seen, last, recent, alerts, restamped, era>>
  BY DEF EvaluateFirst, Jobs
<1>2. mark' \in Marks
  <2> DEFINE page == [d \in {e \in Detections : Found(e)} |-> rows[d]]
  <2>1. CASE \E d \in Detections : Found(d)
    <3> DEFINE S == {e \in Detections : Found(e)}
    <3>1. S \in SUBSET Detections /\ S # {}
      BY <2>1
    <3>2. DOMAIN page = S /\ \A d \in S : page[d] = rows[d]
      OBVIOUS
    <3>6. page \in [S -> Row]
      BY <3>1 DEF Shape
    <3>7. page \in Pages
      <4> HIDE DEF page, S
      <4> QED
        BY <3>1, <3>6 DEF Pages
    <3>8. \A d \in DOMAIN page : page[d] = rows[d] /\ page[d].updated \in 0 .. now
      BY <3>2 DEF Stamps
    <3> HIDE DEF page
    <3>3. \E d \in DOMAIN page : \A e \in DOMAIN page \ {d} : After(page[d].updated, d, <<page[e].updated, e>>)
      BY <3>1, <3>2, <3>7, <3>8, PageHasLast DEF Shape
    <3>4. \E d \in Detections : Found(d) /\ \A e \in Detections \ {d} :
             ~Found(e) \/ After(rows[d].updated, d, <<rows[e].updated, e>>)
      BY <3>2, <3>3, <3>8
    <3>5. PICK d \in Detections : Found(d) /\ mark' = <<rows[d].updated, d>>
      BY <2>1, <3>4 DEF EvaluateFirst
    <3> QED
      BY <3>5, AlertRulesAssumption DEF Shape, Row, Marks, Detections
  <2>2. CASE ~\E d \in Detections : Found(d)
    BY <2>2 DEF EvaluateFirst, Start, NoTime, Marks
  <2> QED
    BY <2>1, <2>2
<1>3. \A i \in Jobs : ~Evaluating(i)' /\ job'[i].step # "commit" /\ job'[i].at \in 0 .. now
  BY <1>1 DEF Evaluating, IdleJob, Shape, Stamps
<1>4. IdleJob \in JobState
  BY DEF IdleJob, JobState, Steps, Marks, NoMark, NoTime
<1>5. Shape'
  BY <1>1, <1>2, <1>4 DEF Shape, Row
<1>6. Stamps' /\ Pagewise'
  BY <1>1, <1>3 DEF Stamps, Pagewise, Found, Shape, Row
<1>7. GateState'
  BY <1>1, <1>3 DEF GateState
<1>8. Remembers'
  BY <1>1 DEF Remembers, Stamps
<1>9. PastAlerts'
  <2>1. \A d \in Detections : d \notin restamped => alerts[d] = <<>>
    <3> SUFFICES ASSUME NEW d \in Detections, d \notin restamped, alerts[d] # <<>> PROVE FALSE
      OBVIOUS
    <3>1. 1 \in DOMAIN alerts[d]
      BY AlertShape
    <3>2. rows[d].sev >= 1
      <4>1. alerts[d][1].sev \in 1 .. seen[d] /\ seen[d] \in 0 .. rows[d].sev
        BY <3>1 DEF Remembers, Stamps
      <4>2. rows[d].sev \in Int
        BY DEF Shape, Row
      <4> QED
        BY <4>1, <4>2
    <3>3. rows[d].created \in 0 .. now
      BY <3>2 DEF Stamps, Found, NoRow
    <3> QED
      BY <1>1, <3>3 DEF PastAlerts, After, NoMark, NoTime, Shape
  <2> QED
    BY <1>1, <2>1 DEF PastAlerts
<1>10. NoRiseForgotten'
  BY <1>1 DEF NoRiseForgotten, Shape, Row
<1>11. GateIsKept' /\ RepeatsDoNotAlert'
  <2>1. GateIsKept'
    BY <1>1, Zenon DEF GateIsKept
  <2>2. RepeatsDoNotAlert'
    BY <1>1 DEF RepeatsDoNotAlert
  <2> QED
    BY <2>1, <2>2
<1> QED
  BY <1>5, <1>6, <1>7, <1>8, <1>9, <1>10, <1>11

\* What is written of a finding: a row's severity only grows, and a row that exists keeps its creation.
LEMMA RowsGrow ==
    ASSUME IInv, NEW j \in Jobs, NEW found \in Findings, DetectWrite(j, found), NEW d \in Detections
    PROVE  /\ rows'[d] \in Row /\ rows[d].sev <= rows'[d].sev
           /\ rows[d].sev >= 1 => rows'[d].created = rows[d].created
           /\ Found(d)' => rows'[d].sev >= 1 /\ rows'[d].created \in 0 .. now /\ rows'[d].updated \in 0 .. now
           /\ d \notin restamped' => rows'[d].created <= rows'[d].updated
           /\ d \notin DOMAIN found => rows'[d] = rows[d]
           /\ d \in DOMAIN found => Found(d)' /\ rows'[d].updated = job[j].at
<1>1. PICK S \in SUBSET Detections : found \in [S -> 1 .. MaxSev]
  BY DEF Findings
<1>2. /\ rows' = [e \in Detections |-> IF e \in S THEN Upsert(e, found[e], job[j].at) ELSE rows[e]]
      /\ restamped' = restamped \cup {e \in S : job[j].at < rows[e].updated} /\ DOMAIN found = S
  BY <1>1 DEF DetectWrite
<1>3. /\ rows[d] \in Row /\ now \in Nat /\ job[j].at \in 0 .. now
      /\ rows[d] # NoRow => rows[d].sev >= 1 /\ rows[d].created \in 0 .. now /\ rows[d].updated \in 0 .. now
      /\ d \notin restamped => rows[d].created <= rows[d].updated
  BY DEF IInv, Shape, Stamps, Found
<1>4. NoRow.sev = 0 /\ NoRow.created = -1 /\ NoRow.updated = -1
  BY DEF NoRow, NoTime
<1>5. CASE d \in S
  <2>1. /\ rows'[d] = Upsert(d, found[d], job[j].at) /\ found[d] \in 1 .. MaxSev
        /\ d \notin restamped' => d \notin restamped /\ rows[d].updated <= job[j].at
    BY <1>1, <1>2, <1>3, <1>5 DEF Row
  <2>2. /\ rows'[d].sev = (IF found[d] > rows[d].sev THEN found[d] ELSE rows[d].sev)
        /\ rows'[d].created = (IF rows[d] # NoRow THEN rows[d].created ELSE job[j].at)
        /\ rows'[d].updated = job[j].at
    BY <2>1 DEF Upsert, Found
  <2>3. rows'[d] \in Row
    BY <1>3, <2>1, AlertRulesAssumption DEF Upsert, Found, Row
  <2>4. rows'[d].sev >= 1 /\ rows[d].sev <= rows'[d].sev
    BY <1>3, <2>1, <2>2, AlertRulesAssumption DEF Row
  <2>5. rows'[d] # NoRow
    BY <1>4, <2>4
  <2>6. rows[d].sev >= 1 => rows[d] # NoRow
    BY <1>4
  <2>7. rows'[d].created \in 0 .. now /\ rows'[d].updated \in 0 .. now
    BY <1>3, <2>2
  <2>8. d \notin restamped' => rows'[d].created <= rows'[d].updated
    BY <1>3, <2>1, <2>2 DEF Row
  <2> QED
    BY <1>2, <1>5, <2>2, <2>3, <2>4, <2>5, <2>6, <2>7, <2>8 DEF Found
<1>6. CASE d \notin S
  <2>1. rows'[d] = rows[d] /\ (d \notin restamped' => d \notin restamped)
    BY <1>2, <1>6
  <2> QED
    BY <1>2, <1>3, <1>6, <2>1 DEF Found, Row
<1> QED
  BY <1>5, <1>6

\* upsert_detections: what it lifts is in a page to come, or was evaluated before, or is history.
LEMMA DetectWriteKeeps ==
    ASSUME IInv, NEW j \in Jobs, NEW found \in Findings, DetectWrite(j, found) PROVE IInv'
<1> USE DEF IInv
<1>1. /\ UNCHANGED <<now, mark, seen, last, recent, alerts, era>> /\ job' = [job EXCEPT ![j] = ReadyJob]
      /\ job[j].step = "detect" /\ restamped \subseteq restamped'
  BY DEF DetectWrite, store
<1>2. rows' \in [Detections -> Row] /\ \A d \in Detections : rows'[d] \in Row
  <2>1. \A d \in Detections : rows'[d] \in Row
    BY RowsGrow
  <2>2. rows' = [d \in Detections |-> rows'[d]]
    BY DEF DetectWrite
  <2> QED
    BY <2>1, <2>2
<1>3. \A d \in Detections : rows[d].sev \in Int /\ rows'[d].sev \in Int /\ rows[d].sev <= rows'[d].sev
  BY <1>2, RowsGrow DEF Shape, Row
<1>4. /\ passed' \in [Detections -> Int]
      /\ \A d \in Detections : passed[d] <= passed'[d] /\ passed'[d] \in 0 .. rows'[d].sev
  <2> DEFINE behind == {d \in DOMAIN found : mark # NoMark /\ seen[d] = 0 /\ ~After(job[j].at, d, mark)}
  <2>1. passed' = [d \in Detections |-> IF d \in behind THEN rows'[d].sev ELSE passed[d]]
    BY DEF DetectWrite
  <2> HIDE DEF behind
  <2>2. \A d \in Detections : passed[d] \in 0 .. rows[d].sev
    BY DEF Stamps
  <2> QED
    BY <1>3, <2>1, <2>2
<1>5. \A i \in Jobs : /\ Evaluating(i)' => Evaluating(i) /\ job'[i] = job[i]
                      /\ job'[i].step = "commit" => job[i].step = "commit" /\ job'[i] = job[i]
                      /\ job'[i].at \in 0 .. now
  BY <1>1 DEF Evaluating, ReadyJob, IdleJob, Shape, Stamps
<1>6. ReadyJob \in JobState
  BY DEF ReadyJob, IdleJob, JobState, Steps, Marks, NoMark, NoTime
<1>7. Shape'
  BY <1>1, <1>2, <1>4, <1>6 DEF Shape
<1>8. Stamps'
  <2>1. ASSUME NEW d \in Detections
        PROVE  /\ Found(d)' => rows'[d].sev >= 1 /\ rows'[d].created \in 0 .. now /\ rows'[d].updated \in 0 .. now
               /\ seen[d] \in 0 .. rows'[d].sev
               /\ d \notin restamped' => rows'[d].created <= rows'[d].updated
    <3>1. seen[d] \in 0 .. rows[d].sev
      BY DEF Stamps
    <3> QED
      BY <1>3, <3>1, RowsGrow
  <2> QED
    BY <1>1, <1>4, <1>5, <2>1 DEF Stamps
<1>9. Pagewise'
  <2>1. ASSUME NEW i \in Jobs, job'[i].step = "commit", NEW d \in DOMAIN job'[i].page
        PROVE  /\ job'[i].page[d].sev \in 1 .. rows'[d].sev /\ seen[d] <= job'[i].page[d].sev
               /\ job'[i].page[d].created = rows'[d].created /\ job'[i].page[d].updated \in 0 .. now
               /\ After(job'[i].page[d].updated, d, mark)
               /\ d \notin restamped' => job'[i].page[d].created <= job'[i].page[d].updated
    <3>1. job[i].step = "commit" /\ job'[i] = job[i] /\ job[i].page \in Pages
      BY <1>5, <2>1 DEF Pagewise
    <3>2. d \in DOMAIN job[i].page /\ d \in Detections
      BY <2>1, <3>1, PageShape
    <3>3. /\ job[i].page[d].sev \in 1 .. rows[d].sev /\ seen[d] <= job[i].page[d].sev
          /\ job[i].page[d].created = rows[d].created /\ job[i].page[d].updated \in 0 .. now
          /\ After(job[i].page[d].updated, d, mark)
          /\ d \notin restamped => job[i].page[d].created <= job[i].page[d].updated
      BY <3>1, <3>2 DEF Pagewise
    <3>4. job[i].page[d].sev \in 1 .. rows'[d].sev /\ rows'[d].created = rows[d].created
      BY <1>3, <3>2, <3>3, RowsGrow
    <3> QED
      BY <1>1, <3>1, <3>3, <3>4
  <2>2. \A i \in Jobs : job'[i].step = "commit" => job'[i].page \in Pages /\ DOMAIN job'[i].page # {}
    BY <1>5 DEF Pagewise
  <2>3. /\ \A i, k \in Jobs : Evaluating(i)' /\ Evaluating(k)' => i = k
        /\ \A i \in Jobs : Evaluating(i)' => job'[i].from = mark /\ mark # NoMark
    BY <1>5 DEF Pagewise
  <2> QED
    BY <1>1, <2>1, <2>2, <2>3 DEF Pagewise
<1>10. GateState'
  BY <1>1, <1>5 DEF GateState
<1>11. Remembers'
  <2>1. \A d \in Detections : seen[d] \in Int /\ passed[d] \in Int /\ passed'[d] \in Int /\ passed[d] <= passed'[d]
    BY <1>4 DEF Shape
  <2> QED
    BY <1>1, <2>1 DEF Remembers
<1>12. PastAlerts'
  <2> SUFFICES ASSUME NEW d \in Detections, d \notin restamped', alerts[d] # <<>>
               PROVE  /\ ~After(rows'[d].created, d, mark)
                      /\ \A i \in Jobs : Evaluating(i)' =>
                            \/ ~After(rows'[d].created, d, job'[i].start)
                            \/ \A k \in DOMAIN alerts[d] : alerts[d][k].at = job'[i].at
    BY <1>1 DEF PastAlerts
  <2>1. 1 \in DOMAIN alerts[d]
    BY AlertShape
  <2>2. rows[d].sev >= 1
    BY <1>3, <2>1 DEF Remembers, Stamps
  <2>3. rows'[d].created = rows[d].created /\ d \notin restamped
    BY <1>1, <2>2, RowsGrow
  <2> QED
    BY <1>5, <2>3 DEF PastAlerts
<1>13. NoRiseForgotten'
  <2> SUFFICES ASSUME NEW d \in Detections, mark # NoMark, rows'[d].sev >= MinSev, rows'[d].sev > passed'[d],
                      \A s \in AlertedSevs(d) : rows'[d].sev > s
               PROVE  Ahead(d, mark)' \/ seen[d] \in 1 .. rows'[d].sev - 1
    BY <1>1 DEF NoRiseForgotten, AlertedSevs, Ahead
  <2>1. CASE d \notin DOMAIN found
    <3>1. rows'[d] = rows[d]
      BY <2>1, RowsGrow
    <3>2. passed'[d] = passed[d]
      BY <2>1 DEF DetectWrite
    <3> QED
      BY <1>1, <3>1, <3>2 DEF NoRiseForgotten, Ahead, Found
  <2>2. CASE d \in DOMAIN found /\ After(job[j].at, d, mark)
    BY <1>1, <2>2, RowsGrow DEF Ahead
  <2>3. CASE d \in DOMAIN found /\ ~After(job[j].at, d, mark)
    <3>1. seen[d] # 0
      <4>1. seen[d] = 0 => passed'[d] = rows'[d].sev
        BY <2>3 DEF DetectWrite
      <4> QED
        BY <1>3, <4>1
    <3>2. seen[d] \in 1 .. rows'[d].sev
      BY <1>3, <3>1 DEF Stamps
    <3>3. seen[d] # rows'[d].sev
      <4> SUFFICES ASSUME seen[d] = rows'[d].sev PROVE FALSE
        OBVIOUS
      <4>1. seen[d] <= passed[d] \/ \E i \in DOMAIN alerts[d] : alerts[d][i].sev >= seen[d]
        BY DEF Remembers
      <4>2. \A i \in DOMAIN alerts[d] : rows'[d].sev > alerts[d][i].sev /\ alerts[d][i].sev \in Int
        BY AlertShape DEF AlertedSevs
      <4>3. passed[d] <= passed'[d] /\ passed[d] \in Int /\ passed'[d] \in Int
        BY <1>4 DEF Shape
      <4> QED
        BY <1>3, <4>1, <4>2, <4>3
    <3> QED
      BY <1>3, <3>2, <3>3
  <2> QED
    BY <2>1, <2>2, <2>3
<1>14. GateIsKept'
  BY <1>1, Zenon DEF GateIsKept
<1>15. RepeatsDoNotAlert'
  BY <1>1 DEF RepeatsDoNotAlert
<1> QED
  BY <1>7, <1>8, <1>9, <1>10, <1>11, <1>12, <1>13, <1>14, <1>15

-----------------------------------------------------------------------------
(* The commit of a page.                                                   *)

\* The detections of the page that alert, by j's run.
Triggers(j) == {d \in DOMAIN job[j].page : Noticed(job[j].page[d], d, job[j].start)}
Fired(j) == {d \in Triggers(j) : Allowed(d, job[j].at)}

\* Where the run stands when it commits.
LEMMA CommitBegins ==
    ASSUME IInv, NEW j \in Jobs, EvaluateCommit(j)
    PROVE  /\ Evaluating(j) /\ job[j].at \in 0 .. now /\ job[j].start \in Marks /\ job[j].pages \in Int /\ now \in Nat
           /\ job[j].page \in Pages /\ DOMAIN job[j].page # {} /\ DOMAIN job[j].page \subseteq Detections
           /\ mark \in Marks /\ mark # NoMark /\ mark' = PageEnd(job[j].page)
           /\ UNCHANGED <<now, rows, restamped, era>>
           /\ \A d \in DOMAIN job[j].page :
                /\ job[j].page[d].sev \in 1 .. rows[d].sev /\ seen[d] <= job[j].page[d].sev
                /\ job[j].page[d].created = rows[d].created /\ job[j].page[d].updated \in 0 .. now
                /\ After(job[j].page[d].updated, d, mark)
                /\ d \notin restamped => job[j].page[d].created <= job[j].page[d].updated
<1>1. job[j].step = "commit" /\ mark' = PageEnd(job[j].page) /\ UNCHANGED <<now, rows, restamped, era>>
  BY DEF EvaluateCommit
<1>2. Evaluating(j)
  BY <1>1 DEF Evaluating
<1>3. job[j].at \in 0 .. now /\ job[j].start \in Marks /\ job[j].pages \in Int /\ now \in Nat /\ mark \in Marks
  BY DEF IInv, Shape, Stamps, JobState
<1>4. /\ job[j].page \in Pages /\ DOMAIN job[j].page # {} /\ mark # NoMark
      /\ \A d \in DOMAIN job[j].page :
            /\ job[j].page[d].sev \in 1 .. rows[d].sev /\ seen[d] <= job[j].page[d].sev
            /\ job[j].page[d].created = rows[d].created /\ job[j].page[d].updated \in 0 .. now
            /\ After(job[j].page[d].updated, d, mark)
            /\ d \notin restamped => job[j].page[d].created <= job[j].page[d].updated
  BY <1>1, <1>2 DEF IInv, Pagewise
<1> QED
  BY <1>1, <1>2, <1>3, <1>4, PageShape

\* The watermark goes to the page's last row, so it moves forward and passes every row of the page.
LEMMA CommitMovesMark ==
    ASSUME IInv, NEW j \in Jobs, EvaluateCommit(j)
    PROVE  /\ mark' \in Marks /\ mark' # NoMark
           /\ \A d \in DOMAIN job[j].page : ~After(job[j].page[d].updated, d, mark')
           /\ \A t \in Int, d \in Detections : After(t, d, mark') => After(t, d, mark)
<1>1. PICK e \in DOMAIN job[j].page :
          /\ mark' = <<job[j].page[e].updated, e>>
          /\ \A d \in DOMAIN job[j].page : ~After(job[j].page[d].updated, d, mark')
  BY CommitBegins, PageEndIsLast
<1>2. job[j].page[e].updated \in 0 .. now /\ now \in Nat /\ e \in Int /\ After(job[j].page[e].updated, e, mark) /\ mark \in Marks
  BY <1>1, CommitBegins, PageShape
<1>3. mark' \in Marks /\ mark' # NoMark /\ mark'[1] = job[j].page[e].updated /\ mark'[2] = e
  BY <1>1, <1>2 DEF Marks, NoMark, NoTime
<1>4. ASSUME NEW t \in Int, NEW d \in Detections, After(t, d, mark') PROVE After(t, d, mark)
  <2>1. d \in Int
    BY AlertRulesAssumption DEF Detections
  <2> QED
    BY <1>2, <1>3, <1>4, <2>1, AfterIsTransitive
<1> QED
  BY <1>1, <1>3, <1>4

\* What the commit does to one detection.
LEMMA CommitRecords ==
    ASSUME IInv, NEW j \in Jobs, EvaluateCommit(j), NEW d \in Detections
    PROVE  /\ d \in Fired(j) => /\ alerts'[d] = Append(alerts[d], [sev |-> job[j].page[d].sev, at |-> job[j].at])
                                /\ last'[d] = job[j].at /\ seen'[d] = job[j].page[d].sev
                                /\ recent'[d] = Recent(d, job[j].at) \cup {Len(alerts[d]) + 1}
           /\ d \notin Fired(j) => /\ alerts'[d] = alerts[d] /\ last'[d] = last[d]
                                   /\ recent'[d] = recent[d] \/ recent'[d] = Recent(d, job[j].at)
           /\ seen'[d] = seen[d] \/ (d \in DOMAIN job[j].page /\ seen'[d] = job[j].page[d].sev)
           /\ d \in DOMAIN job[j].page \ Triggers(j) => seen'[d] = job[j].page[d].sev
           /\ d \notin DOMAIN job[j].page => seen'[d] = seen[d]
           /\ d \in Triggers(j) \ Fired(j) => seen'[d] = seen[d]
<1> DEFINE page == job[j].page
           at == job[j].at
<1>1. /\ alerts' = [e \in Detections |-> IF e \in Fired(j) THEN Append(alerts[e], [sev |-> page[e].sev, at |-> at])
                                          ELSE alerts[e]]
      /\ last' = [e \in Detections |-> IF e \in Fired(j) THEN at ELSE last[e]]
      /\ recent' = [e \in Detections |-> IF e \in Fired(j) THEN Recent(e, at) \cup {Len(alerts[e]) + 1}
                                          ELSE IF e \in Triggers(j) THEN Recent(e, at) ELSE recent[e]]
      /\ seen' = [e \in Detections |-> IF e \in Settled(page, Triggers(j), at) THEN page[e].sev ELSE seen[e]]
  BY DEF EvaluateCommit, Triggers, Fired
<1>2. /\ d \in Settled(page, Triggers(j), at) <=> d \in DOMAIN page /\ (d \in Triggers(j) => d \in Fired(j))
      /\ d \in Fired(j) => d \in Triggers(j) /\ (d \in Triggers(j) => d \in DOMAIN page)
  BY DEF Settled, Triggers, Fired
<1> HIDE DEF page, at
<1> QED
  BY <1>1, <1>2 DEF page, at

\* The alerts on a detection after the commit.
LEMMA CommitAlerts ==
    ASSUME IInv, NEW j \in Jobs, EvaluateCommit(j), NEW d \in Detections
    PROVE  /\ alerts'[d] \in Seq([sev : Int, at : Int]) /\ DOMAIN alerts'[d] = 1 .. Len(alerts'[d])
           /\ Len(alerts[d]) \in Nat /\ Len(alerts'[d]) \in Nat /\ Len(alerts[d]) <= Len(alerts'[d])
           /\ \A i \in 1 .. Len(alerts[d]) : alerts'[d][i] = alerts[d][i]
           /\ d \notin Fired(j) => Len(alerts'[d]) = Len(alerts[d])
           /\ d \in Fired(j) => /\ Len(alerts'[d]) = Len(alerts[d]) + 1
                                /\ alerts'[d][Len(alerts[d]) + 1].sev = job[j].page[d].sev
                                /\ alerts'[d][Len(alerts[d]) + 1].at = job[j].at
           /\ \A i \in 1 .. Len(alerts'[d]) : i \in 1 .. Len(alerts[d]) \/ (i = Len(alerts[d]) + 1 /\ d \in Fired(j))
<1>1. alerts[d] \in Seq([sev : Int, at : Int]) /\ Len(alerts[d]) \in Nat
  BY AlertShape DEF IInv
<1>2. CASE d \in Fired(j)
  <2> DEFINE new == [sev |-> job[j].page[d].sev, at |-> job[j].at]
             s == alerts[d]
  <2>1. new \in [sev : Int, at : Int]
    <3>1. d \in DOMAIN job[j].page
      BY <1>2 DEF Fired, Triggers
    <3>2. job[j].page[d].sev \in Int /\ job[j].at \in Int
      BY <3>1, CommitBegins, PageShape DEF Row
    <3> QED
      BY <3>2
  <2>2. alerts'[d] = Append(s, new)
    BY <1>2, CommitRecords
  <2> HIDE DEF new, s
  <2>3. s \in Seq([sev : Int, at : Int])
    BY <1>1 DEF s
  <2>4. /\ alerts'[d] \in Seq([sev : Int, at : Int]) /\ Len(alerts'[d]) = Len(s) + 1
        /\ \A i \in 1 .. Len(s) : alerts'[d][i] = s[i]
        /\ alerts'[d][Len(s) + 1] = new
    BY <2>1, <2>2, <2>3, AppendProperties
  <2>5. Len(s) \in Nat /\ DOMAIN alerts'[d] = 1 .. Len(alerts'[d])
    BY <2>3, <2>4
  <2>6. new.sev = job[j].page[d].sev /\ new.at = job[j].at
    BY DEF new
  <2>7. \A i \in 1 .. Len(alerts'[d]) : i \in 1 .. Len(s) \/ i = Len(s) + 1
    BY <2>4, <2>5
  <2> QED
    BY <1>2, <2>4, <2>5, <2>6, <2>7 DEF s
<1>3. CASE d \notin Fired(j)
  <2>1. alerts'[d] = alerts[d]
    BY <1>3, CommitRecords
  <2>2. DOMAIN alerts[d] = 1 .. Len(alerts[d])
    BY AlertShape DEF IInv
  <2> QED
    BY <1>1, <1>3, <2>1, <2>2
<1> QED
  BY <1>2, <1>3

\* What the rule remembers only grows, and so does what is history, unless the rule then remembers just that.
LEMMA CommitRemembers ==
    ASSUME IInv, NEW j \in Jobs, EvaluateCommit(j), NEW d \in Detections
    PROVE  /\ rows[d].sev \in Int /\ seen[d] \in Int /\ seen'[d] \in Int /\ passed[d] \in Int
           /\ seen[d] >= 0 /\ seen[d] <= seen'[d] /\ seen'[d] <= rows[d].sev
           /\ passed'[d] \in 0 .. rows[d].sev /\ (passed[d] <= passed'[d] \/ passed'[d] = seen'[d])
           /\ seen'[d] = 0 => passed'[d] = rows[d].sev \/ (passed'[d] = passed[d] /\ (Ahead(d, mark) => Ahead(d, mark')))
           /\ d \in DOMAIN job[j].page \ Triggers(j) =>
                (seen[d] = 0 /\ ~IsNew(job[j].page[d], d, job[j].start) => passed'[d] = seen'[d])
<1> DEFINE page == job[j].page
           end == PageEnd(page)
           overlooked == {e \in Detections : Ahead(e, mark) /\ ~After(rows[e].updated, e, end) /\ seen'[e] = 0}
           unknown == {e \in DOMAIN page : e \notin Triggers(j) /\ seen[e] = 0 /\ ~IsNew(page[e], e, job[j].start)}
<1>1. /\ passed' = [e \in Detections |-> IF e \in overlooked THEN rows[e].sev
                                         ELSE IF e \in unknown THEN page[e].sev ELSE passed[e]]
      /\ mark' = end
  BY DEF EvaluateCommit, Triggers
<1>2. rows[d].sev \in Int /\ seen[d] \in Int /\ passed[d] \in Int /\ seen[d] \in 0 .. rows[d].sev /\ passed[d] \in 0 .. rows[d].sev
  BY DEF IInv, Shape, Stamps, Row
<1>3. d \in DOMAIN page => page[d].sev \in 1 .. rows[d].sev /\ seen[d] <= page[d].sev
  BY CommitBegins
<1>4. seen'[d] = seen[d] \/ (d \in DOMAIN page /\ seen'[d] = page[d].sev)
  BY CommitRecords
<1>5. d \in DOMAIN page \ Triggers(j) => seen'[d] = page[d].sev
  BY CommitRecords
<1>6. seen'[d] \in Int /\ seen[d] <= seen'[d] /\ seen'[d] <= rows[d].sev
  BY <1>2, <1>3, <1>4
<1>7. d \in overlooked => seen'[d] = 0
  OBVIOUS
<1>8. d \in unknown => d \in DOMAIN page \ Triggers(j)
  OBVIOUS
<1>9. d \in DOMAIN page \ Triggers(j) => (d \in unknown <=> seen[d] = 0 /\ ~IsNew(page[d], d, job[j].start))
  OBVIOUS
<1>10. d \notin overlooked /\ seen'[d] = 0 => (Ahead(d, mark) => Ahead(d, mark'))
  BY <1>1 DEF Ahead
<1> HIDE DEF overlooked, unknown, page, end
<1>11. passed'[d] = IF d \in overlooked THEN rows[d].sev ELSE IF d \in unknown THEN page[d].sev ELSE passed[d]
  BY <1>1
<1>12. passed'[d] \in 0 .. rows[d].sev /\ (passed[d] <= passed'[d] \/ passed'[d] = seen'[d])
  BY <1>2, <1>3, <1>5, <1>8, <1>11
<1>13. seen'[d] = 0 => passed'[d] = rows[d].sev \/ (passed'[d] = passed[d] /\ (Ahead(d, mark) => Ahead(d, mark')))
  BY <1>2, <1>3, <1>5, <1>8, <1>10, <1>11
<1>14. d \in DOMAIN page \ Triggers(j) => (seen[d] = 0 /\ ~IsNew(page[d], d, job[j].start) => passed'[d] = seen'[d])
  BY <1>2, <1>3, <1>5, <1>7, <1>8, <1>9, <1>11
<1> QED
  BY <1>2, <1>6, <1>12, <1>13, <1>14 DEF page

\* The job after the commit: done, or at its next page, from the new watermark on.
LEMMA CommitLeavesJob ==
    ASSUME IInv, NEW j \in Jobs, EvaluateCommit(j)
    PROVE  /\ job' \in [Jobs -> JobState]
           /\ \A i \in Jobs : job'[i].at \in 0 .. now /\ job'[i].step # "commit"
           /\ \A i \in Jobs : Evaluating(i)' =>
                i = j /\ job'[i].from = mark' /\ job'[i].start = job[i].start /\ job'[i].at = job[i].at
<1> DEFINE more == [job[j] EXCEPT !.step = "page", !.from = PageEnd(job[j].page), !.pages = job[j].pages + 1,
                              !.page = <<>>]
<1>1. job' = [job EXCEPT ![j] = IdleJob] \/ job' = [job EXCEPT ![j] = more]
  <2>1. job' = [job EXCEPT ![j] = IF Cardinality(DOMAIN job[j].page) < Page \/ job[j].pages + 1 = Batches THEN IdleJob
                                  ELSE more]
    BY Zenon DEF EvaluateCommit
  <2> HIDE DEF more
  <2> QED
    BY <2>1
<1>2. job \in [Jobs -> JobState] /\ \A i \in Jobs : job[i] \in JobState /\ job[i].at \in 0 .. now
  BY DEF IInv, Shape, Stamps
<1>3. IdleJob \in JobState /\ IdleJob.step = "idle" /\ IdleJob.at = 0
  BY DEF IdleJob, JobState, Steps, Marks, NoMark, NoTime
<1>4. more \in JobState /\ more.step = "page" /\ more.from = mark' /\ more.start = job[j].start /\ more.at = job[j].at
  <2> DEFINE P == Pages \cup {<<>>}
  <2>1. JobState = [step : Steps, at : Int, start : Marks, from : Marks, pages : Int, page : P]
    BY DEF JobState
  <2>2. "page" \in Steps /\ mark' \in Marks /\ mark' = PageEnd(job[j].page) /\ job[j].pages + 1 \in Int /\ <<>> \in P
    BY CommitBegins, CommitMovesMark DEF Steps
  <2> HIDE DEF P
  <2> QED
    BY <1>2, <2>1, <2>2
<1>5. now \in Nat /\ \A i \in Jobs : Evaluating(i) => i = j
  BY CommitBegins DEF IInv, Pagewise
<1> HIDE DEF more
<1>6. CASE job' = [job EXCEPT ![j] = IdleJob]
  <2>1. job' \in [Jobs -> JobState] /\ job'[j] = IdleJob /\ \A i \in Jobs \ {j} : job'[i] = job[i]
    BY <1>2, <1>3, <1>6
  <2>2. \A i \in Jobs \ {j} : ~Evaluating(i)' /\ job'[i].step # "commit"
    BY <1>5, <2>1 DEF Evaluating
  <2>3. ~Evaluating(j)' /\ job'[j].step # "commit"
    BY <1>3, <2>1 DEF Evaluating
  <2> QED
    BY <1>2, <1>3, <1>5, <2>1, <2>2, <2>3
<1>7. CASE job' = [job EXCEPT ![j] = more]
  <2>1. job' \in [Jobs -> JobState] /\ job'[j] = more /\ \A i \in Jobs \ {j} : job'[i] = job[i]
    BY <1>2, <1>4, <1>7
  <2>2. \A i \in Jobs \ {j} : ~Evaluating(i)' /\ job'[i].step # "commit"
    BY <1>5, <2>1 DEF Evaluating
  <2> QED
    BY <1>2, <1>4, <1>5, <2>1, <2>2
<1> QED
  BY <1>1, <1>6, <1>7

LEMMA CommitKeepsShape ==
    ASSUME IInv, NEW j \in Jobs, EvaluateCommit(j) PROVE Shape' /\ Stamps' /\ Pagewise'
<1>1. /\ now \in Nat /\ now <= MaxNow /\ rows \in [Detections -> Row] /\ era \in [Detections -> Nat]
      /\ last \in [Detections -> Int] /\ recent \in [Detections -> SUBSET Nat]
      /\ \A d \in Detections : Found(d) => rows[d].sev >= 1 /\ rows[d].created \in 0 .. now /\ rows[d].updated \in 0 .. now
      /\ \A d \in Detections : d \notin restamped => rows[d].created <= rows[d].updated
  BY DEF IInv, Shape, Stamps
<1>2. Shape'
  <2>1. alerts' = [d \in Detections |-> alerts'[d]] /\ last' = [d \in Detections |-> last'[d]]
        /\ recent' = [d \in Detections |-> recent'[d]] /\ seen' = [d \in Detections |-> seen'[d]]
        /\ passed' = [d \in Detections |-> passed'[d]]
    BY DEF EvaluateCommit
  <2>2. ASSUME NEW d \in Detections
        PROVE  alerts'[d] \in Seq([sev : Int, at : Int]) /\ last'[d] \in Int /\ recent'[d] \in SUBSET Nat
               /\ seen'[d] \in Int /\ passed'[d] \in Int
    <3>1. job[j].at \in Int /\ Len(alerts[d]) + 1 \in Nat
      BY CommitBegins, CommitAlerts
    <3>2. (last'[d] = last[d] \/ last'[d] = job[j].at) /\ last[d] \in Int
      BY <1>1, CommitRecords
    <3>3. recent'[d] \subseteq recent[d] \cup {Len(alerts[d]) + 1}
      BY CommitRecords DEF Recent
    <3> QED
      <4>1. recent'[d] \in SUBSET Nat
        BY <1>1, <3>1, <3>3
      <4>2. alerts'[d] \in Seq([sev : Int, at : Int])
        BY CommitAlerts
      <4>3. seen'[d] \in Int /\ passed'[d] \in Int
        BY CommitRemembers
      <4> QED
        BY <3>1, <3>2, <4>1, <4>2, <4>3
  <2>3. mark' \in Marks /\ job' \in [Jobs -> JobState]
    BY CommitMovesMark, CommitLeavesJob
  <2>4. UNCHANGED <<now, rows, era>>
    BY CommitBegins
  <2>5. alerts' \in [Detections -> Seq([sev : Int, at : Int])]
    BY <2>1, <2>2, Zenon
  <2>6. last' \in [Detections -> Int] /\ seen' \in [Detections -> Int] /\ passed' \in [Detections -> Int]
    BY <2>1, <2>2, Zenon
  <2>7. recent' \in [Detections -> SUBSET Nat]
    BY <2>1, <2>2, Zenon
  <2> QED
    BY <1>1, <2>3, <2>4, <2>5, <2>6, <2>7 DEF Shape
<1>3. UNCHANGED <<now, rows, restamped>>
  BY CommitBegins
<1>4. Stamps'
  <2>1. \A d \in Detections : seen'[d] \in 0 .. rows[d].sev /\ passed'[d] \in 0 .. rows[d].sev
    BY CommitRemembers
  <2> QED
    BY <1>1, <1>3, <2>1, CommitLeavesJob DEF Stamps, Found
<1>5. Pagewise'
  BY CommitLeavesJob, CommitMovesMark DEF Pagewise
<1> QED
  BY <1>2, <1>4, <1>5

\* What the gate keeps of the alerts is what it needs of them: the last one, and those of the period.
LEMMA CommitKeepsGateState ==
    ASSUME IInv, NEW j \in Jobs, EvaluateCommit(j) PROVE GateState'
<1> SUFFICES ASSUME NEW d \in Detections
             PROVE  /\ era'[d] <= Len(alerts'[d])
                    /\ \A i \in DOMAIN alerts'[d] :
                        /\ alerts'[d][i].at \in 0 .. now'
                        /\ \A k \in Jobs : Evaluating(k)' => alerts'[d][i].at <= job'[k].at
                        /\ \A k \in DOMAIN alerts'[d] : i <= k => alerts'[d][i].at <= alerts'[d][k].at
                    /\ last'[d] = IF Len(alerts'[d]) > era'[d] THEN alerts'[d][Len(alerts'[d])].at ELSE NoTime
                    /\ recent'[d] \subseteq era'[d] + 1 .. Len(alerts'[d])
                    /\ \A i \in era'[d] + 1 .. Len(alerts'[d]) : i \notin recent'[d] =>
                        /\ alerts'[d][i].at + Period <= now'
                        /\ \A k \in Jobs : Evaluating(k)' => alerts'[d][i].at + Period <= job'[k].at
  BY DEF GateState
<1> DEFINE at == job[j].at
           n == Len(alerts[d])
<1>1. /\ at \in 0 .. now /\ now \in Nat /\ now' = now /\ era' = era /\ n \in Nat /\ era[d] \in Nat /\ era[d] <= n
      /\ Period \in Nat /\ Evaluating(j)
  BY CommitBegins, AlertShape, AlertRulesAssumption DEF IInv, GateState
<1>2. /\ \A i \in 1 .. n : alerts[d][i].at \in 0 .. now /\ alerts[d][i].at <= at
      /\ \A i, k \in 1 .. n : i <= k => alerts[d][i].at <= alerts[d][k].at
      /\ last[d] = IF n > era[d] THEN alerts[d][n].at ELSE NoTime
      /\ recent[d] \subseteq era[d] + 1 .. n
      /\ \A i \in era[d] + 1 .. n : i \notin recent[d] => alerts[d][i].at + Period <= at
  BY <1>1, AlertShape DEF IInv, GateState
<1>3. \A k \in Jobs : Evaluating(k)' => job'[k].at = at
  BY CommitLeavesJob
<1>4. /\ DOMAIN alerts'[d] = 1 .. Len(alerts'[d]) /\ Len(alerts'[d]) \in Nat /\ n <= Len(alerts'[d])
      /\ \A i \in 1 .. n : alerts'[d][i] = alerts[d][i]
      /\ d \notin Fired(j) => Len(alerts'[d]) = n
      /\ d \in Fired(j) => Len(alerts'[d]) = n + 1 /\ alerts'[d][n + 1].at = at
      /\ \A i \in 1 .. Len(alerts'[d]) : i \in 1 .. n \/ (i = n + 1 /\ d \in Fired(j))
  BY CommitAlerts
<1>5. /\ d \in Fired(j) => last'[d] = at /\ recent'[d] = Recent(d, at) \cup {n + 1}
      /\ d \notin Fired(j) => last'[d] = last[d] /\ (recent'[d] = recent[d] \/ recent'[d] = Recent(d, at))
  BY CommitRecords
<1>6. /\ Recent(d, at) \subseteq recent[d]
      /\ \A i \in recent[d] : i \notin Recent(d, at) => ~(alerts[d][i].at > at - Period)
  BY DEF Recent
<1> HIDE DEF at, n
<1>7. /\ recent'[d] \subseteq era[d] + 1 .. Len(alerts'[d])
      /\ \A i \in era[d] + 1 .. Len(alerts'[d]) : i \notin recent'[d] => i \in 1 .. n /\ alerts[d][i].at + Period <= at
  <2>1. recent'[d] \subseteq era[d] + 1 .. Len(alerts'[d])
    BY <1>1, <1>2, <1>4, <1>5, <1>6
  <2>2. ASSUME NEW i \in era[d] + 1 .. Len(alerts'[d]), i \notin recent'[d] PROVE i \in era[d] + 1 .. n
    BY <1>1, <1>4, <1>5, <2>2
  <2>3. ASSUME NEW i \in era[d] + 1 .. n, i \notin recent'[d] PROVE alerts[d][i].at + Period <= at
    <3>1. i \notin Recent(d, at) \/ i \notin recent[d]
      BY <1>5, <2>3
    <3>2. i \in 1 .. n
      BY <1>1
    <3>3. alerts[d][i].at \in Int /\ at \in Int
      BY <1>1, <1>2, <3>2
    <3> QED
      BY <1>1, <1>2, <1>6, <3>1, <3>3
  <2>4. \A i \in era[d] + 1 .. n : i \in 1 .. n
    BY <1>1
  <2> QED
    BY <2>1, <2>2, <2>3, <2>4
<1>8. \A i \in 1 .. Len(alerts'[d]) : alerts'[d][i].at \in 0 .. now /\ alerts'[d][i].at <= at
  BY <1>1, <1>2, <1>4
<1>9. ASSUME NEW i \in 1 .. Len(alerts'[d]), NEW k \in 1 .. Len(alerts'[d]), i <= k
      PROVE  alerts'[d][i].at <= alerts'[d][k].at
  <2>1. CASE k \in 1 .. n
    <3>1. i \in 1 .. n
      BY <1>4, <1>9, <2>1
    <3> QED
      BY <1>2, <1>4, <1>9, <2>1, <3>1
  <2>2. CASE k = n + 1 /\ d \in Fired(j)
    BY <1>4, <1>8, <2>2
  <2> QED
    BY <1>4, <2>1, <2>2
<1>10. last'[d] = IF Len(alerts'[d]) > era[d] THEN alerts'[d][Len(alerts'[d])].at ELSE NoTime
  BY <1>1, <1>2, <1>4, <1>5
<1>11. \A i \in era[d] + 1 .. Len(alerts'[d]) : i \notin recent'[d] =>
           /\ alerts'[d][i].at + Period <= now
           /\ alerts'[d][i].at + Period <= at
  <2> SUFFICES ASSUME NEW i \in era[d] + 1 .. Len(alerts'[d]), i \notin recent'[d]
               PROVE  alerts'[d][i].at + Period <= now /\ alerts'[d][i].at + Period <= at
    OBVIOUS
  <2>1. i \in 1 .. n /\ alerts[d][i].at + Period <= at
    BY <1>7
  <2>2. alerts'[d][i] = alerts[d][i] /\ alerts[d][i].at \in 0 .. now
    BY <1>2, <1>4, <2>1
  <2> QED
    BY <1>1, <2>1, <2>2
<1> QED
  <2>1. \A k \in Jobs : Evaluating(k)' => \A i \in 1 .. Len(alerts'[d]) : alerts'[d][i].at <= job'[k].at
    BY <1>3, <1>8
  <2>2. \A k \in Jobs : Evaluating(k)' => \A i \in era[d] + 1 .. Len(alerts'[d]) : i \notin recent'[d] =>
            alerts'[d][i].at + Period <= job'[k].at
    BY <1>3, <1>11
  <2>3. era[d] <= Len(alerts'[d])
    BY <1>1, <1>4
  <2> QED
    BY <1>1, <1>4, <1>7, <1>8, <1>9, <1>10, <1>11, <2>1, <2>2, <2>3

\* A severity the rule takes and then remembers was alerted on, is what it remembered, or is history.
LEMMA CommitKeepsRemembers ==
    ASSUME IInv, NEW j \in Jobs, EvaluateCommit(j) PROVE Remembers'
<1> SUFFICES ASSUME NEW d \in Detections
             PROVE  /\ \A i \in DOMAIN alerts'[d] : alerts'[d][i].sev \in 1 .. seen'[d]
                    /\ seen'[d] >= MinSev =>
                         seen'[d] <= passed'[d] \/ \E i \in DOMAIN alerts'[d] : alerts'[d][i].sev >= seen'[d]
  BY DEF Remembers
<1> DEFINE page == job[j].page
           n == Len(alerts[d])
<1>1. /\ \A i \in 1 .. n : alerts[d][i].sev \in 1 .. seen[d]
      /\ seen[d] >= MinSev => seen[d] <= passed[d] \/ \E i \in 1 .. n : alerts[d][i].sev >= seen[d]
  BY AlertShape DEF IInv, Remembers
<1>2. /\ DOMAIN alerts'[d] = 1 .. Len(alerts'[d]) /\ n \in Nat /\ Len(alerts'[d]) \in Nat /\ n <= Len(alerts'[d])
      /\ \A i \in 1 .. n : alerts'[d][i] = alerts[d][i]
      /\ d \notin Fired(j) => Len(alerts'[d]) = n
      /\ d \in Fired(j) => Len(alerts'[d]) = n + 1 /\ alerts'[d][n + 1].sev = page[d].sev
      /\ \A i \in 1 .. Len(alerts'[d]) : i \in 1 .. n \/ (i = n + 1 /\ d \in Fired(j))
  BY CommitAlerts
<1>3. /\ seen[d] \in Int /\ seen'[d] \in Int /\ seen[d] >= 0 /\ seen[d] <= seen'[d] /\ passed[d] \in Int /\ passed'[d] \in Int
      /\ passed[d] <= passed'[d] \/ passed'[d] = seen'[d]
  BY CommitRemembers
<1>4. d \in DOMAIN page => page[d].sev \in Int /\ page[d].sev >= 1 /\ seen[d] <= page[d].sev
  BY CommitBegins, PageShape DEF Row
<1>5. d \in Fired(j) => d \in DOMAIN page /\ seen'[d] = page[d].sev
  BY CommitRecords DEF Fired, Triggers
<1>6. d \notin Fired(j) /\ seen'[d] # seen[d] => d \in DOMAIN page \ Triggers(j) /\ seen'[d] = page[d].sev
  BY CommitRecords
<1>7. d \in DOMAIN page \ Triggers(j) =>
        /\ page[d].sev >= MinSev => ~IsNew(page[d], d, job[j].start) /\ ~Rose(page[d], d)
        /\ seen[d] = 0 /\ ~IsNew(page[d], d, job[j].start) => passed'[d] = seen'[d]
  BY CommitRemembers DEF Triggers, Noticed
<1> HIDE DEF page, n
<1>8. ASSUME NEW i \in 1 .. Len(alerts'[d]) PROVE alerts'[d][i].sev \in 1 .. seen'[d]
  <2>1. CASE i \in 1 .. n
    <3>1. alerts'[d][i].sev = alerts[d][i].sev /\ alerts[d][i].sev \in 1 .. seen[d]
      BY <1>1, <1>2, <2>1
    <3> QED
      BY <1>3, <3>1
  <2>2. CASE i = n + 1 /\ d \in Fired(j)
    BY <1>2, <1>3, <1>4, <1>5, <2>2
  <2> QED
    BY <1>2, <2>1, <2>2
<1>9. ASSUME seen'[d] >= MinSev
      PROVE  seen'[d] <= passed'[d] \/ \E i \in 1 .. Len(alerts'[d]) : alerts'[d][i].sev >= seen'[d]
  <2>1. CASE seen'[d] = seen[d]
    <3>1. CASE seen[d] <= passed[d]
      BY <1>3, <2>1, <3>1
    <3>2. CASE \E i \in 1 .. n : alerts[d][i].sev >= seen[d]
      <4>1. PICK i \in 1 .. n : alerts[d][i].sev >= seen[d]
        BY <3>2
      <4>2. i \in 1 .. Len(alerts'[d]) /\ alerts'[d][i].sev >= seen'[d]
        BY <1>2, <2>1, <4>1
      <4> QED
        BY <4>2
    <3> QED
      BY <1>1, <1>9, <2>1, <3>1, <3>2
  <2>2. CASE d \in Fired(j)
    <3>1. n + 1 \in 1 .. Len(alerts'[d]) /\ alerts'[d][n + 1].sev >= seen'[d]
      BY <1>2, <1>3, <1>5, <2>2
    <3> QED
      BY <3>1
  <2>3. CASE d \notin Fired(j) /\ seen'[d] # seen[d]
    <3>1. d \in DOMAIN page \ Triggers(j) /\ seen'[d] = page[d].sev
      BY <1>6, <2>3
    <3>2. ~IsNew(page[d], d, job[j].start) /\ ~Rose(page[d], d)
      BY <1>7, <1>9, <3>1
    <3>3. seen[d] = 0
      BY <1>3, <1>4, <2>3, <3>1, <3>2 DEF Rose, Previous
    <3> QED
      BY <1>3, <1>7, <3>1, <3>2, <3>3
  <2> QED
    BY <2>1, <2>2, <2>3
<1> QED
  BY <1>2, <1>8, <1>9

\* The watermark passes what is alerted on, so that a later run does not take it for new.
LEMMA CommitKeepsPastAlerts ==
    ASSUME IInv, NEW j \in Jobs, EvaluateCommit(j) PROVE PastAlerts'
<1> SUFFICES ASSUME NEW d \in Detections, d \notin restamped', alerts'[d] # <<>>
             PROVE  /\ ~After(rows'[d].created, d, mark')
                    /\ \A k \in Jobs : Evaluating(k)' =>
                          \/ ~After(rows'[d].created, d, job'[k].start)
                          \/ \A i \in DOMAIN alerts'[d] : alerts'[d][i].at = job'[k].at
  BY DEF PastAlerts
<1> DEFINE at == job[j].at
           n == Len(alerts[d])
<1>1. /\ rows' = rows /\ restamped' = restamped /\ Evaluating(j) /\ rows[d].created \in Int /\ d \in Int
      /\ mark \in Marks /\ mark' \in Marks
  <2>1. rows[d].created \in Int /\ d \in Int
    BY AlertRulesAssumption DEF IInv, Shape, Row, Detections
  <2> QED
    BY <2>1, CommitBegins, CommitMovesMark
<1>2. /\ DOMAIN alerts'[d] = 1 .. Len(alerts'[d]) /\ n \in Nat /\ Len(alerts'[d]) \in Nat
      /\ \A i \in 1 .. n : alerts'[d][i] = alerts[d][i]
      /\ d \notin Fired(j) => Len(alerts'[d]) = n /\ alerts'[d] = alerts[d]
      /\ d \in Fired(j) => Len(alerts'[d]) = n + 1 /\ alerts'[d][n + 1].at = at
      /\ \A i \in 1 .. Len(alerts'[d]) : i \in 1 .. n \/ (i = n + 1 /\ d \in Fired(j))
  <2>1. d \notin Fired(j) => alerts'[d] = alerts[d]
    BY CommitRecords
  <2> QED
    BY <2>1, CommitAlerts
<1>3. alerts[d] # <<>> =>
        /\ ~After(rows[d].created, d, mark)
        /\ ~After(rows[d].created, d, job[j].start) \/ \A i \in 1 .. n : alerts[d][i].at = at
  BY <1>1, AlertShape DEF IInv, PastAlerts
<1>4. alerts[d] = <<>> => d \in Fired(j) /\ n = 0
  BY <1>2
<1>5. ~After(rows[d].created, d, mark')
  <2>1. CASE alerts[d] # <<>>
    BY <1>1, <1>3, <2>1, CommitMovesMark
  <2>2. CASE d \in Fired(j)
    <3>1. d \in DOMAIN job[j].page
      BY <2>2 DEF Fired, Triggers
    <3>2. /\ rows[d].created <= job[j].page[d].updated /\ job[j].page[d].updated \in Int
          /\ ~After(job[j].page[d].updated, d, mark')
      BY <1>1, <3>1, CommitBegins, CommitMovesMark, PageShape DEF Row
    <3> QED
      BY <1>1, <3>2 DEF After, Marks
  <2> QED
    BY <1>4, <2>1, <2>2
<1>6. \A k \in Jobs : Evaluating(k)' => job'[k].start = job[j].start /\ job'[k].at = at
  BY CommitLeavesJob
<1> HIDE DEF at, n
<1>7. ~After(rows[d].created, d, job[j].start) \/ \A i \in 1 .. Len(alerts'[d]) : alerts'[d][i].at = at
  <2>1. CASE alerts[d] = <<>>
    BY <1>2, <1>4, <2>1
  <2>2. CASE alerts[d] # <<>>
    BY <1>2, <1>3, <2>2
  <2> QED
    BY <2>1, <2>2
<1> QED
  BY <1>1, <1>2, <1>5, <1>6, <1>7

\* Of what a page passes by, the rule remembers a lower severity, has alerted on it, or it is history.
LEMMA CommitKeepsNoRiseForgotten ==
    ASSUME IInv, NEW j \in Jobs, EvaluateCommit(j), Remembers' PROVE NoRiseForgotten'
<1> SUFFICES ASSUME NEW d \in Detections, rows'[d].sev >= MinSev, rows'[d].sev > passed'[d],
                    \A i \in DOMAIN alerts'[d] : rows'[d].sev > alerts'[d][i].sev, ~Ahead(d, mark)'
             PROVE  seen'[d] \in 1 .. rows'[d].sev - 1
  BY DEF NoRiseForgotten, AlertedSevs
<1>1. /\ rows' = rows /\ mark # NoMark /\ (Ahead(d, mark)' <=> Ahead(d, mark'))
  BY CommitBegins DEF Ahead, Found
<1>2. /\ rows[d].sev \in Int /\ seen[d] \in Int /\ seen'[d] \in Int /\ passed[d] \in Int /\ passed'[d] \in Int
      /\ seen[d] >= 0 /\ seen[d] <= seen'[d] /\ seen'[d] <= rows[d].sev
      /\ seen'[d] = 0 => passed'[d] = rows[d].sev \/ (passed'[d] = passed[d] /\ (Ahead(d, mark) => Ahead(d, mark')))
  BY CommitRemembers
<1>3. CASE seen'[d] = 0
  <2>1. passed'[d] = passed[d] /\ ~Ahead(d, mark)
    BY <1>1, <1>2, <1>3
  <2>2. ASSUME NEW i \in DOMAIN alerts[d] PROVE rows[d].sev > alerts[d][i].sev
    <3>1. i \in DOMAIN alerts'[d] /\ alerts'[d][i] = alerts[d][i]
      <4>1. DOMAIN alerts[d] = 1 .. Len(alerts[d]) /\ Len(alerts[d]) \in Nat
        BY AlertShape DEF IInv
      <4>2. /\ DOMAIN alerts'[d] = 1 .. Len(alerts'[d]) /\ Len(alerts'[d]) \in Nat /\ Len(alerts[d]) <= Len(alerts'[d])
            /\ \A h \in 1 .. Len(alerts[d]) : alerts'[d][h] = alerts[d][h]
        BY CommitAlerts
      <4> QED
        BY <2>2, <4>1, <4>2
    <3> QED
      BY <1>1, <3>1
  <2>3. seen[d] \in 1 .. rows[d].sev - 1
    BY <1>1, <2>1, <2>2 DEF IInv, NoRiseForgotten, AlertedSevs
  <2> QED
    BY <1>2, <1>3, <2>3
<1>4. CASE seen'[d] # 0
  <2>1. seen'[d] # rows[d].sev
    <3> SUFFICES ASSUME seen'[d] = rows[d].sev PROVE FALSE
      OBVIOUS
    <3>1. seen'[d] <= passed'[d] \/ \E i \in DOMAIN alerts'[d] : alerts'[d][i].sev >= seen'[d]
      BY <1>1 DEF Remembers
    <3>2. \A i \in DOMAIN alerts'[d] : alerts'[d][i].sev \in 1 .. seen'[d]
      BY DEF Remembers
    <3> QED
      BY <1>1, <1>2, <3>1, <3>2
  <2> QED
    BY <1>1, <1>2, <1>4, <2>1
<1> QED
  BY <1>3, <1>4

\* An alert that is let through keeps the cooldown to the last one, and so to each one before, and the
\* alerts of its period are those the gate kept and counted.
LEMMA CommitKeepsGate ==
    ASSUME IInv, NEW j \in Jobs, EvaluateCommit(j) PROVE GateIsKept'
<1> SUFFICES ASSUME NEW d \in Detections, NEW k \in era'[d] + 1 .. Len(alerts'[d])
             PROVE  /\ \A i \in era'[d] + 1 .. k - 1 : alerts'[d][i].at + Cooldown <= alerts'[d][k].at
                    /\ Cardinality({i \in era'[d] + 1 .. k - 1 : alerts'[d][i].at > alerts'[d][k].at - Period}) < Count
  BY DEF GateIsKept
<1> DEFINE at == job[j].at
           n == Len(alerts[d])
<1>1. /\ at \in 0 .. now /\ now \in Nat /\ era' = era /\ n \in Nat /\ era[d] \in Nat /\ era[d] <= n
      /\ Period \in Nat /\ Cooldown \in Nat /\ Evaluating(j)
  BY CommitBegins, AlertShape, AlertRulesAssumption DEF IInv, GateState
<1>2. /\ \A i \in 1 .. n : alerts[d][i].at \in 0 .. now /\ alerts[d][i].at <= at
      /\ \A i, h \in 1 .. n : i <= h => alerts[d][i].at <= alerts[d][h].at
      /\ last[d] = IF n > era[d] THEN alerts[d][n].at ELSE NoTime
      /\ recent[d] \subseteq era[d] + 1 .. n
      /\ \A i \in era[d] + 1 .. n : i \notin recent[d] => alerts[d][i].at + Period <= at
  BY <1>1, AlertShape DEF IInv, GateState
<1>3. /\ \A i \in 1 .. n : alerts'[d][i] = alerts[d][i]
      /\ d \in Fired(j) => alerts'[d][n + 1].at = at
      /\ \A i \in 1 .. Len(alerts'[d]) : i \in 1 .. n \/ (i = n + 1 /\ d \in Fired(j))
      /\ Len(alerts'[d]) \in Nat
  BY CommitAlerts
<1>4. d \in Fired(j) => ~Cool(d, at) /\ Cardinality(Recent(d, at)) < Count
  BY DEF Fired, Allowed
<1>5. Recent(d, at) = {i \in recent[d] : alerts[d][i].at > at - Period}
  BY DEF Recent
<1> HIDE DEF at, n
<1>6. k \in 1 .. n \/ (k = n + 1 /\ d \in Fired(j))
  BY <1>1, <1>3
<1>7. CASE k \in 1 .. n
  <2>1. k \in era[d] + 1 .. n /\ \A i \in era[d] + 1 .. k - 1 : i \in 1 .. n
    BY <1>1, <1>7
  <2>2. alerts'[d][k] = alerts[d][k] /\ \A i \in era[d] + 1 .. k - 1 : alerts'[d][i] = alerts[d][i]
    BY <1>3, <1>7, <2>1
  <2>3. {i \in era'[d] + 1 .. k - 1 : alerts'[d][i].at > alerts'[d][k].at - Period}
          = {i \in era[d] + 1 .. k - 1 : alerts[d][i].at > alerts[d][k].at - Period}
    BY <1>1, <2>2
  <2>4. /\ \A i \in era[d] + 1 .. k - 1 : alerts[d][i].at + Cooldown <= alerts[d][k].at
        /\ Cardinality({i \in era[d] + 1 .. k - 1 : alerts[d][i].at > alerts[d][k].at - Period}) < Count
    BY <2>1 DEF IInv, GateIsKept, n
  <2> QED
    BY <1>1, <2>2, <2>3, <2>4
<1>8. CASE k = n + 1 /\ d \in Fired(j)
  <2>1. /\ alerts'[d][k].at = at /\ k - 1 = n
        /\ \A i \in era[d] + 1 .. n : i \in 1 .. n /\ alerts'[d][i] = alerts[d][i] /\ alerts[d][i].at \in 0 .. now
    BY <1>1, <1>2, <1>3, <1>8
  <2>2. ASSUME NEW i \in era[d] + 1 .. n PROVE alerts[d][i].at + Cooldown <= at
    <3>1. n > era[d] /\ n \in 1 .. n /\ i <= n
      BY <1>1
    <3>2. last[d] = alerts[d][n].at /\ alerts[d][n].at \in 0 .. now
      BY <1>2, <3>1
    <3>3. ~(at < last[d] + Cooldown)
      BY <1>4, <1>8, <3>2 DEF Cool, NoTime
    <3>4. alerts[d][i].at <= alerts[d][n].at /\ alerts[d][i].at \in 0 .. now
      BY <1>2, <2>1, <3>1
    <3>5. last[d] \in Int /\ alerts[d][i].at \in Int /\ at \in Int /\ last[d] + Cooldown <= at
      BY <1>1, <3>2, <3>3, <3>4
    <3>6. alerts[d][i].at <= last[d]
      BY <3>2, <3>4
    <3> QED
      BY <1>1, <3>5, <3>6
  <2>3. {i \in era'[d] + 1 .. k - 1 : alerts'[d][i].at > alerts'[d][k].at - Period} = Recent(d, at)
    <3>1. ASSUME NEW i \in era[d] + 1 .. n PROVE alerts'[d][i].at > at - Period <=> i \in Recent(d, at)
      <4>1. alerts'[d][i].at = alerts[d][i].at /\ alerts[d][i].at \in Int /\ at \in Int
        BY <1>1, <2>1
      <4>2. i \notin recent[d] => ~(alerts[d][i].at > at - Period)
        BY <1>1, <1>2, <4>1
      <4> QED
        BY <1>5, <4>1, <4>2
    <3>2. Recent(d, at) \subseteq era[d] + 1 .. n
      BY <1>2, <1>5
    <3> QED
      BY <1>1, <2>1, <3>1, <3>2
  <2> QED
    BY <1>1, <1>4, <1>8, <2>1, <2>2, <2>3
<1> QED
  BY <1>6, <1>7, <1>8

\* A second alert is about a rise: what is past the watermark a run began with is not new to it.
LEMMA CommitKeepsRepeats ==
    ASSUME IInv, NEW j \in Jobs, EvaluateCommit(j) PROVE RepeatsDoNotAlert'
<1> SUFFICES ASSUME NEW d \in Detections, era'[d] = 0, d \notin restamped',
                    NEW i \in DOMAIN alerts'[d], NEW k \in DOMAIN alerts'[d], i < k
             PROVE  \/ alerts'[d][i].sev < alerts'[d][k].sev
                    \/ Cooldown = 0 /\ alerts'[d][i].at = alerts'[d][k].at
  BY DEF RepeatsDoNotAlert
<1> DEFINE at == job[j].at
           n == Len(alerts[d])
<1>1. /\ at \in 0 .. now /\ now \in Nat /\ era[d] = 0 /\ n \in Nat /\ d \notin restamped /\ Cooldown \in Nat /\ Evaluating(j)
      /\ DOMAIN alerts[d] = 1 .. n
  BY CommitBegins, AlertShape, AlertRulesAssumption DEF IInv
<1>2. /\ DOMAIN alerts'[d] = 1 .. Len(alerts'[d]) /\ Len(alerts'[d]) \in Nat
      /\ \A h \in 1 .. n : alerts'[d][h] = alerts[d][h]
      /\ d \in Fired(j) => alerts'[d][n + 1].at = at /\ alerts'[d][n + 1].sev = job[j].page[d].sev
      /\ \A h \in 1 .. Len(alerts'[d]) : h \in 1 .. n \/ (h = n + 1 /\ d \in Fired(j))
  BY CommitAlerts
<1>3. CASE k \in 1 .. n
  <2>1. i \in 1 .. n /\ alerts'[d][i] = alerts[d][i] /\ alerts'[d][k] = alerts[d][k]
    BY <1>1, <1>2, <1>3
  <2> QED
    BY <1>1, <1>3, <2>1 DEF IInv, RepeatsDoNotAlert
<1>4. CASE k = n + 1 /\ d \in Fired(j)
  <2>1. i \in 1 .. n /\ n > 0 /\ n \in 1 .. n /\ alerts'[d][i] = alerts[d][i]
    BY <1>1, <1>2, <1>4
  <2>2. /\ alerts[d][i].sev \in 1 .. seen[d] /\ seen[d] \in Int /\ alerts[d] # <<>>
    BY <1>1, <2>1 DEF IInv, Remembers, Shape
  <2>3. /\ d \in DOMAIN job[j].page /\ ~Cool(d, at)
        /\ IsNew(job[j].page[d], d, job[j].start) \/ Rose(job[j].page[d], d)
    BY <1>4 DEF Fired, Triggers, Noticed, Allowed
  <2>4. CASE Rose(job[j].page[d], d)
    <3>1. job[j].page[d].sev > seen[d]
      BY <2>2, <2>4 DEF Rose, Previous
    <3>2. job[j].page[d].sev \in Int
      BY <2>3, CommitBegins, PageShape DEF Row
    <3> QED
      BY <1>2, <1>4, <2>1, <2>2, <3>1, <3>2
  <2>5. CASE IsNew(job[j].page[d], d, job[j].start)
    <3>1. After(rows[d].created, d, job[j].start)
      <4>1. job[j].page[d].created = rows[d].created
        BY <2>3, CommitBegins
      <4> QED
        BY <2>5, <4>1 DEF IsNew
    <3>2. \A h \in 1 .. n : alerts[d][h].at = at
      BY <1>1, <2>2, <3>1 DEF IInv, PastAlerts
    <3>3. last[d] = alerts[d][n].at
      BY <1>1, <2>1 DEF IInv, GateState
    <3>4. Cooldown = 0
      BY <1>1, <2>1, <2>3, <3>2, <3>3 DEF Cool, NoTime
    <3> QED
      BY <1>2, <1>4, <2>1, <3>2, <3>4
  <2> QED
    BY <2>3, <2>4, <2>5
<1> QED
  BY <1>2, <1>3, <1>4

LEMMA EvaluateCommitKeeps ==
    ASSUME IInv, NEW j \in Jobs, EvaluateCommit(j) PROVE IInv'
BY CommitKeepsShape, CommitKeepsGateState, CommitKeepsRemembers, CommitKeepsPastAlerts, CommitKeepsNoRiseForgotten,
   CommitKeepsGate, CommitKeepsRepeats DEF IInv

-----------------------------------------------------------------------------
\* Every step keeps the invariant.
LEMMA StepKeeps ==
    ASSUME IInv, [Next]_vars PROVE IInv'
<1>1. ASSUME NEW j \in Jobs, DetectBegin(j) \/ DetectFail(j) \/ Fail(j) PROVE IInv'
  BY <1>1, QuietStepsKeep
<1>2. ASSUME NEW j \in Jobs, Evaluate(j) PROVE IInv'
  <2>1. CASE EvaluateWaits(j) \/ EvaluateBegin(j) \/ EvaluatePage(j)
    BY <2>1, QuietStepsKeep
  <2>2. CASE EvaluateFirst(j)
    BY <2>2, EvaluateFirstKeeps
  <2>3. CASE EvaluateCommit(j)
    BY <2>3, EvaluateCommitKeeps
  <2> QED
    BY <1>2, <2>1, <2>2, <2>3 DEF Evaluate
<1>3. ASSUME NEW j \in Jobs, NEW found \in Findings, DetectWrite(j, found) PROVE IInv'
  BY <1>3, DetectWriteKeeps
<1>4. CASE ResetRule
  BY <1>4, ResetRuleKeeps
<1>5. CASE Tick \/ UNCHANGED vars
  <2>1. "traffic" \in Jobs
    BY DEF Jobs
  <2> QED
    BY <1>5, <2>1, QuietStepsKeep
<1> QED
  BY <1>1, <1>2, <1>3, <1>4, <1>5 DEF Next

LEMMA IInvHolds == Spec => []IInv
<1>1. Init => IInv
  BY InitEstablishes
<1>2. IInv /\ [Next]_vars => IInv'
  BY StepKeeps
<1> QED
  BY <1>1, <1>2, PTL DEF Spec

\* The stamps and severities are in order (upsert_detections, set_seen_severity).
LEMMA IInvImpliesTypeOK == IInv => TypeOK
<1> SUFFICES ASSUME IInv PROVE TypeOK
  OBVIOUS
<1>1. now \in 0 .. MaxNow
  BY AlertRulesAssumption DEF IInv, Shape, Stamps
<1>2. ASSUME NEW d \in Detections, Found(d)
      PROVE  rows[d].sev \in 1 .. MaxSev /\ rows[d].created \in 0 .. now /\ rows[d].updated \in 0 .. now
  BY <1>2, AlertRulesAssumption DEF IInv, Shape, Stamps, Row
<1>3. ASSUME NEW d \in Detections PROVE seen[d] \in 0 .. rows[d].sev /\ last[d] \in {NoTime} \cup 0 .. now
  <2>1. seen[d] \in 0 .. rows[d].sev
    BY DEF IInv, Stamps
  <2>2. /\ last[d] = IF Len(alerts[d]) > era[d] THEN alerts[d][Len(alerts[d])].at ELSE NoTime
        /\ \A i \in 1 .. Len(alerts[d]) : alerts[d][i].at \in 0 .. now
        /\ Len(alerts[d]) \in Nat /\ era[d] \in Nat
    BY AlertShape DEF IInv, GateState
  <2> QED
    BY <2>1, <2>2
<1> QED
  BY <1>1, <1>2, <1>3 DEF TypeOK

\* A rule alerts on every rise it takes, no more often than its gate lets it, and not on repeats, whatever the
\* two jobs that evaluate it do in between (evaluate_lateral_rule, _Recorder.commit, gate).
THEOREM RisesAlertOnce == Spec => []RiseAlertsOnce
<1>1. IInv => RiseAlertsOnce
  BY IInvImpliesTypeOK DEF IInv, RiseAlertsOnce
<1> QED
  BY <1>1, IInvHolds, PTL
=============================================================================
