------------------------- MODULE SiemForwardProofs -------------------------
(***************************************************************************)
(* Theorems about SiemForward for every number of records, batch size,     *)
(* retry threshold, queue limit and every choice of failing records.       *)
(***************************************************************************)
EXTENDS SiemForward, FiniteSetTheorems, TLAPS

\* What FirstN reads is part of what it reads from.
LEMMA FirstNSubset == \A S, k : FirstN(S, k) \subseteq S
  BY DEF FirstN

\* ORDER BY id LIMIT k returns a prefix: no record before a returned one is left out.
LEMMA FirstNPrefix ==
    ASSUME NEW n \in Nat, NEW S \in SUBSET (1 .. n), NEW k \in Nat,
           NEW r \in FirstN(S, k), NEW i \in S, i < r
    PROVE  i \in FirstN(S, k)
<1> DEFINE A == {j \in S : j < i}
           B == {j \in S : j < r}
<1>1. r \in S /\ Cardinality(B) < k
  BY DEF FirstN
<1>2. A \subseteq B
  <2> SUFFICES ASSUME NEW j \in S, j < i PROVE j < r
    OBVIOUS
  <2>1. j \in Int /\ i \in Int /\ r \in Int
    BY <1>1
  <2> QED BY <2>1
<1>3. IsFiniteSet(1 .. n)
  BY FS_Interval
<1>4. B \in SUBSET (1 .. n)
  OBVIOUS
<1>5. IsFiniteSet(B)
  BY <1>3, <1>4, FS_Subset
<1>6. Cardinality(A) <= Cardinality(B) /\ IsFiniteSet(A)
  BY <1>2, <1>5, FS_Subset
<1>7. Cardinality(A) \in Nat /\ Cardinality(B) \in Nat
  BY <1>5, <1>6, FS_CardinalityType
<1>8. Cardinality(A) < k
  BY <1>1, <1>6, <1>7
<1> QED BY <1>8 DEF FirstN

\* A line that goes to the DLQ keeps the types of the queue.
LEMMA QuarantineType ==
    ASSUME TypeOK, NEW r \in 1 .. newest, Quarantine(r)
    PROVE  /\ dlq' \subseteq (1 .. lines') \X (1 .. newest) /\ lines' \in Nat
           /\ dead' \subseteq 1 .. newest
           /\ lines < lines'
  BY DEF TypeOK, Quarantine

\* TypeOK holds initially.
LEMMA InitType == Init => TypeOK
<1> SUFFICES ASSUME Init PROVE TypeOK
  OBVIOUS
<1>1. floor \in BOOLEAN
  BY Zenon DEF Init
<1>2. newest \in 0 .. MaxId /\ last \in 0 .. newest /\ head \in 0 .. newest /\ consumed \in 0 .. newest
      /\ failure \in 0 .. newest /\ probed \in 0 .. newest
  BY SiemForwardAssumption DEF SiemForwardAssumption, Init, None
<1>3. attempts \in Nat /\ dropped \in Nat /\ counted \in Nat /\ lines \in Nat
      /\ outages \in Nat /\ retentions \in Nat /\ purges \in Nat /\ crashes \in Nat
  BY DEF Init
<1>4. live = {} /\ dlq = {} /\ batch = {} /\ todo = {} /\ payloads = {} /\ out = {}
      /\ delivered = {} /\ dead = {} /\ skipped = {} /\ resend.lines = {} /\ resend.step = "idle"
  BY DEF Init
<1>5. up \in BOOLEAN /\ recent \in BOOLEAN /\ full \in BOOLEAN /\ gaveUp \in BOOLEAN /\ pc = "idle"
  BY DEF Init
<1> QED BY <1>1, <1>2, <1>3, <1>4, <1>5 DEF TypeOK

\* Every step keeps TypeOK.
LEMMA NextType == TypeOK /\ [Next]_vars => TypeOK'
<1> SUFFICES ASSUME TypeOK, [Next]_vars PROVE TypeOK'
  OBVIOUS
<1> USE SiemForwardAssumption
    DEF SiemForwardAssumption, TypeOK, None, Ids, cursor, run, queue, history, bounds
<1>1. CASE Store
  <2>1. newest' \in 0 .. MaxId /\ newest < newest' /\ live' \subseteq 1 .. newest'
    BY <1>1 DEF Store
  <2>2. 1 .. newest \subseteq 1 .. newest' /\ 0 .. newest \subseteq 0 .. newest'
    BY <2>1
  <2>3. (1 .. lines) \X (1 .. newest) \subseteq (1 .. lines) \X (1 .. newest')
    BY <2>2
  <2>4. UNCHANGED <<up, cursor, dropped, queue, run, resend, counted, history, bounds>>
    BY <1>1 DEF Store
  <2> QED BY <2>1, <2>2, <2>3, <2>4
<1>2. CASE GoDown
  <2>1. up' = FALSE /\ outages' \in Nat
    BY <1>2 DEF GoDown
  <2>2. UNCHANGED <<newest, live, cursor, dropped, queue, run, resend, counted, history,
                    retentions, purges, crashes>>
    BY <1>2 DEF GoDown
  <2> QED BY <2>1, <2>2
<1>3. CASE ComeUp
  BY <1>3 DEF ComeUp
<1>4. CASE HourPasses
  BY <1>4 DEF HourPasses
<1>5. ASSUME NEW gone \in SUBSET live, RetentionDelete(gone) PROVE TypeOK'
  <2>1. IsFiniteSet(1 .. newest)
    BY FS_Interval
  <2>2. IsFiniteSet({i \in gone : last < i})
    BY <2>1, FS_Subset
  <2>3. counted' \in Nat
    BY <1>5, <2>2, FS_CardinalityType DEF RetentionDelete
  <2>4. live' \subseteq live /\ retentions' \in Nat
    BY <1>5 DEF RetentionDelete
  <2>5. UNCHANGED <<newest, up, cursor, dropped, queue, run, resend, history, outages, purges, crashes>>
    BY <1>5 DEF RetentionDelete
  <2> QED BY <2>3, <2>4, <2>5
<1>6. CASE RecordDropped
  BY <1>6 DEF RecordDropped
<1>7. CASE ReadBatch
  <2> DEFINE records == ReadAfter(last, BatchSize)
  <2>1. records \subseteq 1 .. newest
    BY FirstNSubset DEF ReadAfter
  <2>2. UNCHANGED <<newest, live, up, last, head, attempts, recent, dropped, queue, resend, counted,
                    history, bounds>>
    BY <1>7 DEF ReadBatch
  <2>3. CASE records = {}
    <3>1. floor' \in BOOLEAN
      BY <1>7, <2>3, Zenon DEF ReadBatch
    <3>2. pc' = "idle" /\ UNCHANGED <<batch, todo, consumed, payloads, out, failure, full, probed>>
      BY <1>7, <2>3 DEF ReadBatch
    <3> QED BY <2>2, <3>1, <3>2
  <2>4. CASE records # {}
    <3>1. /\ batch' = records /\ todo' = records /\ consumed' = last
          /\ payloads' = {} /\ out' = {} /\ failure' = None /\ full' = FALSE /\ probed' = None
          /\ pc' = "send" /\ floor' = floor
      BY <1>7, <2>4 DEF ReadBatch
    <3>2. batch' \subseteq 1 .. newest /\ todo' \subseteq batch' /\ out' \subseteq payloads'
          /\ payloads' \subseteq batch'
      BY <2>1, <3>1
    <3>3. consumed' \in 0 .. newest
      BY <3>1
    <3>4. failure' \in 0 .. newest /\ probed' \in 0 .. newest
      BY <3>1
    <3>5. full' \in BOOLEAN /\ floor' \in BOOLEAN
      BY <3>1
    <3>6. pc' = "send"
      BY <3>1
    <3> QED BY <2>2, <3>2, <3>3, <3>4, <3>5, <3>6
  <2> QED BY <2>3, <2>4
<1>8. CASE SendNext
  <2>1. PICK r \in todo : SkipSent(r) \/ Unsendable(r) \/ SendFails(r) \/ SendWorks(r)
    BY <1>8 DEF SendNext
  <2>2. r \in 1 .. newest /\ r \in batch /\ pc = "send"
    BY <1>8 DEF SendNext
  <2>3. UNCHANGED <<newest, live, up, cursor, dropped, batch, probed, resend, counted, delivered, gaveUp, bounds>>
    BY <1>8 DEF SendNext
  <2>4. ASSUME Pass(r)
        PROVE  consumed' \in 0 .. newest /\ todo' \subseteq batch /\ UNCHANGED <<pc, failure, full>>
    BY <2>2, <2>4 DEF Pass
  <2>5. CASE SkipSent(r)
    <3>1. skipped' \subseteq 1 .. newest /\ UNCHANGED <<payloads, out, queue>> /\ Pass(r)
      BY <2>2, <2>5 DEF SkipSent
    <3> QED BY <2>2, <2>3, <2>4, <3>1
  <2>6. CASE Unsendable(r)
    <3>1. payloads' \subseteq batch /\ payloads \subseteq payloads' /\ UNCHANGED <<out, skipped>>
      BY <2>2, <2>6 DEF Unsendable
    <3>2. CASE Quarantine(r) /\ Pass(r)
      <4>1. /\ dlq' \subseteq (1 .. lines') \X (1 .. newest) /\ lines' \in Nat /\ lines < lines'
            /\ dead' \subseteq 1 .. newest
        BY <2>2, <3>2, QuarantineType
      <4>2. resend.lines \subseteq (1 .. lines') \X (1 .. newest)
        BY <4>1
      <4> QED BY <2>2, <2>3, <2>4, <3>1, <3>2, <4>1, <4>2
    <3>3. CASE ~(Quarantine(r) /\ Pass(r))
      <4>1. full' = TRUE /\ pc' = "finish" /\ UNCHANGED <<consumed, todo, failure, queue>>
        BY <2>6, <3>3 DEF Unsendable, PassToDlq
      <4> QED BY <2>3, <3>1, <4>1
    <3> QED BY <3>2, <3>3
  <2>7. CASE SendFails(r)
    <3>1. payloads' \subseteq batch /\ out \subseteq payloads' /\ failure' \in 0 .. newest /\ pc' = "finish"
      BY <2>2, <2>7 DEF SendFails
    <3>2. UNCHANGED <<out, consumed, todo, full, queue, skipped>>
      BY <2>7 DEF SendFails
    <3> QED BY <2>3, <3>1, <3>2
  <2>8. CASE SendWorks(r)
    <3>1. payloads' \subseteq batch /\ out' \subseteq payloads' /\ Pass(r) /\ UNCHANGED <<queue, skipped>>
      BY <2>2, <2>8 DEF SendWorks
    <3> QED BY <2>2, <2>3, <2>4, <3>1
  <2> QED BY <2>1, <2>5, <2>6, <2>7, <2>8
<1>9. CASE EndBatch
  BY <1>9 DEF EndBatch
<1>10. CASE FinishBatch
  <2>1. failure' \in 0 .. newest /\ consumed' \in 0 .. newest
    <3>1. CASE UNCHANGED <<consumed, failure>>
      BY <3>1
    <3>2. CASE ~UNCHANGED <<consumed, failure>>
      <4>1. PICK first \in payloads, c \in {last} \cup {i \in batch : \E j \in payloads : i < j} :
               failure' = first /\ consumed' = c
        BY <1>10, <3>2 DEF FinishBatch
      <4>2. first \in 1 .. newest /\ c \in 0 .. newest
        OBVIOUS
      <4> QED BY <4>1, <4>2
    <3> QED BY <3>1, <3>2
  <2>2. delivered' \subseteq 1 .. newest /\ out' \subseteq payloads
    <3>1. CASE delivered' = delivered \cup out /\ out' = out
      BY <3>1
    <3>2. CASE ~(delivered' = delivered \cup out /\ out' = out)
      <4>1. PICK arrived \in SUBSET out : delivered' = delivered \cup arrived
        BY <1>10, <3>2 DEF FinishBatch
      <4>2. out' = {}
        BY <1>10, <3>2 DEF FinishBatch
      <4> QED BY <4>1, <4>2
    <3> QED BY <3>1, <3>2
  <2>3. pc' = "advance"
        /\ UNCHANGED <<newest, live, up, cursor, dropped, queue, batch, todo, payloads, full, probed,
                       resend, counted, skipped, gaveUp, bounds>>
    BY <1>10 DEF FinishBatch
  <2> QED BY <2>1, <2>2, <2>3
<1>11. CASE Advance
  <2>1. last' \in 0 .. newest /\ head' \in 0 .. newest /\ attempts' \in Nat
    BY <1>11 DEF Advance, AdvanceTo
  <2>2. recent' \in BOOLEAN
    BY <1>11 DEF Advance, AdvanceTo
  <2>3. pc' \in {"idle", "failed", "read"} /\ (pc' = "failed" => failure # None)
    BY <1>11 DEF Advance
  <2>4. out' = {} /\ UNCHANGED <<newest, live, up, floor, dropped, queue, batch, todo, consumed,
                       payloads, failure, full, probed, resend, counted, history, bounds>>
    BY <1>11 DEF Advance
  <2> QED BY <2>1, <2>2, <2>3, <2>4
<1>12. CASE RecordFailure
  <2>1. head' = failure /\ consumed' = failure /\ failure # None
    BY <1>12 DEF RecordFailure
  <2>2. attempts' \in Nat
    BY <1>12 DEF RecordFailure, Failures
  <2>3. gaveUp' \in BOOLEAN
    BY <1>12 DEF RecordFailure
  <2>4. pc' \in {"idle", "quarantine", "probe"}
    BY <1>12 DEF RecordFailure
  <2>5. UNCHANGED <<newest, live, up, last, floor, recent, dropped, queue, batch, todo, payloads,
                    out, failure, full, probed, resend, counted, delivered, skipped, bounds>>
    BY <1>12 DEF RecordFailure
  <2> QED BY <2>1, <2>2, <2>3, <2>4, <2>5
<1>13. CASE ProbeAhead
  <2>1. Ahead \subseteq 1 .. newest
    BY FirstNSubset DEF Ahead, ReadAfter
  <2>2. FirstN(Ahead, Probe) \subseteq 1 .. newest
    BY <2>1, FirstNSubset
  <2>3. /\ probed' \in 0 .. newest /\ consumed' \in 0 .. newest /\ delivered' \subseteq 1 .. newest
        /\ pc' \in {"idle", "quarantine"} /\ failure # None
    <3>1. failure # None
      BY <1>13 DEF ProbeAhead
    <3>2. CASE pc' = "idle" /\ UNCHANGED <<probed, delivered, consumed>>
      BY <3>1, <3>2
    <3>3. CASE ~(pc' = "idle" /\ UNCHANGED <<probed, delivered, consumed>>)
      <4>1. PICK r \in FirstN(Ahead, Probe) :
               /\ probed' = r /\ delivered' = delivered \cup {r} /\ pc' = "quarantine"
               /\ consumed' = IF \E i \in Ahead : i < r THEN failure ELSE r
        BY <1>13, <3>3 DEF ProbeAhead
      <4>2. consumed' \in {failure, r}
        BY <4>1
      <4>3. r \in 1 .. newest
        BY <2>2
      <4>4. consumed' \in 0 .. newest
        BY <4>2, <4>3
      <4>5. probed' \in 0 .. newest
        BY <4>1, <4>3
      <4>6. delivered' \subseteq 1 .. newest
        BY <4>1, <4>3
      <4> QED BY <3>1, <4>1, <4>4, <4>5, <4>6
    <3> QED BY <3>2, <3>3
  <2>4. UNCHANGED <<newest, live, up, cursor, dropped, queue, batch, todo, payloads, out, failure,
                    full, resend, counted, skipped, gaveUp, bounds>>
    BY <1>13 DEF ProbeAhead
  <2> QED BY <2>3, <2>4
<1>14. CASE QuarantineHead
  <2>1. UNCHANGED <<newest, live, up, cursor, dropped, batch, todo, consumed, payloads, out, failure,
                    full, probed, resend, counted, history, bounds>>
    BY <1>14 DEF QuarantineHead
  <2>2. CASE DlqFull
    BY <1>14, <2>1, <2>2 DEF QuarantineHead
  <2>3. CASE ~DlqFull
    <3>1. failure \in 1 .. newest /\ Quarantine(failure) /\ pc' = "pass"
      BY <1>14, <2>3 DEF QuarantineHead
    <3>2. /\ dlq' \subseteq (1 .. lines') \X (1 .. newest) /\ lines' \in Nat /\ lines < lines'
          /\ dead' \subseteq 1 .. newest
      BY <3>1, QuarantineType
    <3>3. resend.lines \subseteq (1 .. lines') \X (1 .. newest)
      BY <3>2
    <3> QED BY <2>1, <3>1, <3>2, <3>3
  <2> QED BY <2>2, <2>3
<1>15. CASE PassHead
  <2>1. last' \in 0 .. newest /\ head' \in 0 .. newest /\ attempts' \in Nat
    BY <1>15 DEF PassHead, AdvanceTo
  <2>2. recent' \in BOOLEAN
    BY <1>15 DEF PassHead, AdvanceTo
  <2>3. pc' = "idle" /\ UNCHANGED <<newest, live, up, floor, dropped, queue, batch, todo, consumed,
                       payloads, out, failure, full, probed, resend, counted, history, bounds>>
    BY <1>15 DEF PassHead
  <2> QED BY <2>1, <2>2, <2>3
<1>16. CASE ResendRead
  <2>1. resend'.step = "send" /\ resend'.lines \subseteq dlq /\ purges' \in Nat
    BY <1>16 DEF ResendRead
  <2>2. UNCHANGED <<newest, live, up, cursor, dropped, queue, run, counted, history, outages,
                    retentions, crashes>>
    BY <1>16 DEF ResendRead
  <2> QED BY <2>1, <2>2
<1>17. CASE ResendSend
  <2>1. PICK taken \in SUBSET resend.lines : delivered' = delivered \cup {l[2] : l \in taken}
    BY <1>17 DEF ResendSend
  <2>2. resend'.step = "delete" /\ resend'.lines \subseteq resend.lines
    BY <1>17 DEF ResendSend
  <2>4. {l[2] : l \in taken} \subseteq 1 .. newest
    OBVIOUS
  <2>3. UNCHANGED <<newest, live, up, cursor, dropped, queue, run, counted, skipped, gaveUp, bounds>>
    BY <1>17 DEF ResendSend
  <2> QED BY <2>1, <2>2, <2>3, <2>4
<1>18. CASE ResendDelete
  <2>1. resend'.step = "idle" /\ resend'.lines = {} /\ dlq' \subseteq dlq
    BY <1>18 DEF ResendDelete
  <2>2. UNCHANGED <<newest, live, up, cursor, dropped, dead, lines, run, counted, history, bounds>>
    BY <1>18 DEF ResendDelete
  <2> QED BY <2>1, <2>2
<1>19. ASSUME NEW gone \in SUBSET dlq, Purge(gone) PROVE TypeOK'
  <2>1. dlq' \subseteq dlq /\ purges' \in Nat
    BY <1>19 DEF Purge
  <2>2. UNCHANGED <<newest, live, up, cursor, dropped, dead, lines, run, resend, counted, history,
                    outages, retentions, crashes>>
    BY <1>19 DEF Purge
  <2> QED BY <2>1, <2>2
<1>20. CASE Crash
  <2>1. /\ pc' = "idle" /\ counted' = 0 /\ crashes' \in Nat
        /\ batch' = {} /\ todo' = {} /\ payloads' = {} /\ out' = {}
        /\ consumed' = last /\ failure' = None /\ full' = FALSE /\ probed' = None
        /\ resend'.step = "idle" /\ resend'.lines = {}
    BY <1>20 DEF Crash
  <2>2. UNCHANGED <<newest, live, up, cursor, dropped, queue, history, outages, retentions, purges>>
    BY <1>20 DEF Crash
  <2>3. /\ consumed' \in 0 .. newest /\ failure' \in 0 .. newest /\ probed' \in 0 .. newest
        /\ full' \in BOOLEAN /\ counted' \in Nat
    <3>1. consumed' \in 0 .. newest
      BY <2>1
    <3>2. failure' \in 0 .. newest /\ probed' \in 0 .. newest
      BY <2>1
    <3>3. full' \in BOOLEAN /\ counted' \in Nat
      BY <2>1
    <3> QED BY <3>1, <3>2, <3>3
  <2>4. /\ batch' = {} /\ todo' = {} /\ payloads' = {} /\ out' = {} /\ pc' = "idle"
        /\ resend'.step = "idle" /\ resend'.lines = {} /\ crashes' \in Nat
    BY <2>1
  <2> QED BY <2>2, <2>3, <2>4
<1>21. CASE UNCHANGED vars
  BY <1>21 DEF vars
<1> QED BY <1>1, <1>2, <1>3, <1>4, <1>5, <1>6, <1>7, <1>8, <1>9, <1>10, <1>11, <1>12, <1>13, <1>14,
           <1>15, <1>16, <1>17, <1>18, <1>19, <1>20, <1>21 DEF Next, Dispatch, Resend

\* Type correctness of the cursor, the run, the queue and the history.
THEOREM TypeCorrect == Spec => []TypeOK
  BY InitType, NextType, PTL DEF Spec

-----------------------------------------------------------------------------
(* At least once.                                                          *)

\* ForwardInv holds initially.
LEMMA InitForward == Init => ForwardInv
  BY DEF Init, ForwardInv, NothingPassedOver, BatchInv, PrefixInv, FailureInv, AdvanceInv, DoneUpTo

\* What leaves the run alone, deletes records and settles others keeps ForwardInv.
LEMMA QuietForward ==
    ASSUME ForwardInv,
           UNCHANGED <<last, pc, batch, todo, consumed, payloads, out, failure>>,
           live' \subseteq live,
           delivered \subseteq delivered', dead \subseteq dead', skipped \subseteq skipped'
    PROVE  ForwardInv'
<1> USE DEF ForwardInv, Done, DoneUpTo
<1>1. NothingPassedOver'
  BY DEF NothingPassedOver
<1>2. BatchInv'
  BY DEF BatchInv
<1>3. PrefixInv'
  BY DEF PrefixInv
<1>4. FailureInv'
  BY DEF FailureInv
<1>5. AdvanceInv'
  BY DEF AdvanceInv
<1> QED BY <1>1, <1>2, <1>3, <1>4, <1>5

\* Every step keeps ForwardInv.
LEMMA NextForward == TypeOK /\ TypeOK' /\ ForwardInv /\ [Next]_vars => ForwardInv'
<1> SUFFICES ASSUME TypeOK, TypeOK', ForwardInv, [Next]_vars PROVE ForwardInv'
  OBVIOUS
<1>a. live \subseteq Int /\ batch \subseteq Int /\ todo \subseteq batch /\ payloads \subseteq batch /\ out \subseteq payloads
      /\ last \in Int /\ consumed \in Int /\ failure \in Int /\ newest \in Int
  BY DEF TypeOK
<1>b. (\A i \in live : i <= newest) /\ (\A i \in batch : i <= newest) /\ last <= newest /\ consumed <= newest
      /\ failure <= newest
  BY DEF TypeOK
<1>c. \A r \in todo : IsFirst(r, todo) /\ pc = "send" => \A i \in live : i < r => i \in Done \cup out
  <2> SUFFICES ASSUME NEW r \in todo, IsFirst(r, todo), pc = "send", NEW i \in live, i < r
               PROVE  i \in Done \cup out
    OBVIOUS
  <2>1. CASE i <= consumed
    BY <2>1 DEF ForwardInv, BatchInv, DoneUpTo
  <2>2. CASE i <= last
    BY <2>2 DEF ForwardInv, NothingPassedOver, Done
  <2>3. CASE consumed < i /\ last < i
    <3>1. i \in batch
      BY <1>a, <2>3 DEF ForwardInv, PrefixInv
    <3>2. i \in todo
      BY <1>a, <2>3, <3>1 DEF ForwardInv, BatchInv
    <3> QED BY <1>a, <3>2 DEF IsFirst
  <2> QED BY <1>a, <2>1, <2>2, <2>3
<1>1. CASE Store
  <2>1. live' = live \cup {newest + 1}
        /\ UNCHANGED <<last, pc, batch, todo, consumed, payloads, out, failure, delivered, dead, skipped>>
    BY <1>1 DEF Store, cursor, run, queue, history
  <2> USE <1>a, <1>b, <2>1 DEF ForwardInv, Done, DoneUpTo
  <2>2. NothingPassedOver'
    BY DEF NothingPassedOver
  <2>3. BatchInv'
    BY DEF BatchInv
  <2>4. PrefixInv'
    BY DEF PrefixInv
  <2>5. FailureInv'
    BY DEF FailureInv
  <2>6. AdvanceInv'
    BY DEF AdvanceInv
  <2> QED BY <2>2, <2>3, <2>4, <2>5, <2>6
<1>2. CASE GoDown \/ ComeUp \/ HourPasses \/ RecordDropped \/ ResendRead \/ ResendSend \/ ResendDelete
  <2>1. UNCHANGED <<last, pc, batch, todo, consumed, payloads, out, failure, live, dead, skipped>>
        /\ delivered \subseteq delivered'
    BY <1>2 DEF GoDown, ComeUp, HourPasses, RecordDropped, ResendRead, ResendSend, ResendDelete,
                cursor, run, queue, history
  <2> QED BY <2>1, QuietForward
<1>3. ASSUME NEW gone \in SUBSET live, RetentionDelete(gone) PROVE ForwardInv'
  <2>1. live' \subseteq live
        /\ UNCHANGED <<last, pc, batch, todo, consumed, payloads, out, failure, delivered, dead, skipped>>
    BY <1>3 DEF RetentionDelete, cursor, run, queue, history
  <2> QED BY <2>1, QuietForward
<1>4. ASSUME NEW gone \in SUBSET dlq, Purge(gone) PROVE ForwardInv'
  <2>1. UNCHANGED <<last, pc, batch, todo, consumed, payloads, out, failure, live, delivered, dead, skipped>>
    BY <1>4 DEF Purge, cursor, run, queue, history
  <2> QED BY <2>1, QuietForward
<1>5. CASE ReadBatch
  <2> DEFINE after == {i \in live : i > last}
  <2>1. UNCHANGED <<live, last, delivered, dead, skipped>>
    BY <1>5 DEF ReadBatch, queue, history
  <2>2. CASE pc' = "idle"
    BY <2>1, <2>2 DEF ForwardInv, NothingPassedOver, BatchInv, PrefixInv, FailureInv, AdvanceInv
  <2>3. CASE pc' # "idle"
    <3>1. batch' = FirstN(after, BatchSize) /\ todo' = batch' /\ consumed' = last /\ out' = {}
          /\ failure' = None /\ pc' = "send"
      BY <1>5, <2>3 DEF ReadBatch, ReadAfter
    <3>2. batch' \subseteq after
      BY <3>1, FirstNSubset
    <3>3. after \in SUBSET (1 .. newest) /\ newest \in Nat /\ BatchSize \in Nat
      <4>1. live \subseteq 1 .. newest /\ newest \in 0 .. MaxId
        BY DEF TypeOK
      <4>2. BatchSize \in Nat /\ MaxId \in Nat
        BY SiemForwardAssumption DEF SiemForwardAssumption
      <4>3. newest \in Nat
        BY <4>1, <4>2
      <4>4. after \subseteq live
        OBVIOUS
      <4> QED BY <4>1, <4>2, <4>3, <4>4
    <3>4. \A r \in batch' : \A i \in live : last < i /\ i < r => i \in batch'
      <4> SUFFICES ASSUME NEW r \in batch', NEW i \in live, last < i, i < r PROVE i \in batch'
        OBVIOUS
      <4>1. i \in after /\ r \in FirstN(after, BatchSize)
        BY <1>a, <3>1
      <4> HIDE DEF after
      <4>2. i \in FirstN(after, BatchSize)
        BY <3>3, <4>1, FirstNPrefix
      <4> QED BY <3>1, <4>2
    <3>5. NothingPassedOver'
      BY <2>1 DEF ForwardInv, NothingPassedOver
    <3>6. BatchInv'
      BY <1>a, <2>1, <3>1, <3>2 DEF ForwardInv, NothingPassedOver, BatchInv, DoneUpTo, Done
    <3>7. PrefixInv'
      BY <2>1, <3>4 DEF PrefixInv
    <3>8. FailureInv' /\ AdvanceInv'
      BY <3>1 DEF FailureInv, AdvanceInv
    <3> QED BY <3>5, <3>6, <3>7, <3>8 DEF ForwardInv
  <2> QED BY <2>2, <2>3
<1>6. CASE SendNext
  <2>1. PICK r \in todo : IsFirst(r, todo) /\ (SkipSent(r) \/ Unsendable(r) \/ SendFails(r) \/ SendWorks(r))
    BY <1>6 DEF SendNext
  <2>2. pc = "send" /\ UNCHANGED <<live, last, batch, delivered>>
    BY <1>6 DEF SendNext, cursor
  <2>3. \A i \in live : i < r => i \in Done \cup out
    BY <1>c, <2>1, <2>2
  <2>4. \A i \in todo : i # r => r < i
    BY <1>a, <2>1 DEF IsFirst
  <2>5. r \in Int /\ consumed < r /\ last < r /\ failure = None /\ r \in batch
    BY <1>a, <2>2 DEF ForwardInv, BatchInv, FailureInv
  <2>6. NothingPassedOver' /\ PrefixInv'
    <3>1. dead \subseteq dead' /\ skipped \subseteq skipped'
      BY <2>1 DEF SkipSent, Unsendable, SendFails, SendWorks, PassToDlq, Quarantine, queue
    <3> QED BY <2>2, <3>1 DEF ForwardInv, NothingPassedOver, PrefixInv
  <2>7. AdvanceInv'
    BY <2>1, <2>2 DEF SkipSent, Unsendable, SendFails, SendWorks, PassToDlq, Pass, AdvanceInv
  <2>8. ASSUME Pass(r), r \in Done' \cup out', Done \subseteq Done', out \subseteq out', out' \subseteq out \cup {r},
               payloads \subseteq payloads', r \in payloads' \cup dead' \cup skipped',
               dead \subseteq dead', skipped \subseteq skipped'
        PROVE  BatchInv' /\ FailureInv'
    <3>1. pc' = "send" /\ consumed' = r /\ todo' = todo \ {r} /\ failure' = None
      BY <2>2, <2>5, <2>8 DEF Pass
    <3>2. DoneUpTo(consumed, out)'
      BY <1>a, <2>2, <2>3, <2>5, <2>8, <3>1 DEF DoneUpTo
    <3>3. \A i \in batch' : last' < i
      BY <2>2 DEF ForwardInv, BatchInv
    <3>4. \A i \in todo' : consumed' < i
      BY <2>4, <3>1
    <3>5. \A i \in batch' \ todo' : i <= consumed' /\ (i \in payloads' \/ i \in dead' \cup skipped')
      <4> SUFFICES ASSUME NEW i \in batch, i \notin todo'
                   PROVE  i <= r /\ (i \in payloads' \/ i \in dead' \cup skipped')
        BY <2>2, <3>1
      <4>1. CASE i = r
        BY <2>5, <2>8, <4>1
      <4>2. CASE i # r
        <5>1. i \in batch \ todo
          BY <3>1, <4>2
        <5>2. i <= consumed /\ (i \in payloads \/ i \in dead \cup skipped)
          BY <2>2, <5>1 DEF ForwardInv, BatchInv
        <5> QED BY <1>a, <2>5, <2>8, <5>2
      <4> QED BY <4>1, <4>2
    <3>6. (out \cap todo)' = {}
      BY <2>2, <2>8, <3>1 DEF ForwardInv, BatchInv
    <3> QED BY <3>1, <3>2, <3>3, <3>4, <3>5, <3>6 DEF BatchInv, FailureInv
  <2>9. CASE SkipSent(r)
    <3>1. Pass(r) /\ skipped' = skipped \cup {r} /\ UNCHANGED <<payloads, out, dead>>
      BY <2>9 DEF SkipSent, queue
    <3>2. BatchInv' /\ FailureInv'
      BY <2>2, <2>8, <3>1 DEF Done
    <3> QED BY <2>6, <2>7, <3>2 DEF ForwardInv
  <2>10. CASE Unsendable(r)
    <3>1. payloads \subseteq payloads' /\ UNCHANGED <<out, skipped>>
      BY <2>10 DEF Unsendable
    <3>2. CASE Quarantine(r) /\ Pass(r)
      <4>1. BatchInv' /\ FailureInv'
        BY <2>2, <2>8, <3>1, <3>2 DEF Done, Quarantine
      <4> QED BY <2>6, <2>7, <4>1 DEF ForwardInv
    <3>3. CASE ~(Quarantine(r) /\ Pass(r))
      <4>1. pc' = "finish" /\ UNCHANGED <<consumed, todo, failure, dead>>
        BY <2>10, <3>3 DEF Unsendable, PassToDlq, queue
      <4>2. BatchInv'
        BY <2>2, <3>1, <4>1 DEF ForwardInv, BatchInv, DoneUpTo, Done
      <4>3. FailureInv'
        BY <2>5, <4>1 DEF FailureInv
      <4> QED BY <2>6, <2>7, <4>2, <4>3 DEF ForwardInv
    <3> QED BY <3>2, <3>3
  <2>11. CASE SendFails(r)
    <3>1. payloads \subseteq payloads' /\ failure' = r /\ pc' = "finish" /\ UNCHANGED <<out, consumed, todo, dead, skipped>>
      BY <2>11 DEF SendFails, queue
    <3>2. BatchInv'
      BY <2>2, <3>1 DEF ForwardInv, BatchInv, DoneUpTo, Done
    <3>3. FailureInv'
      BY <2>2, <2>3, <2>5, <3>1 DEF FailureInv, Done
    <3> QED BY <2>6, <2>7, <3>2, <3>3 DEF ForwardInv
  <2>12. CASE SendWorks(r)
    <3>1. /\ Pass(r) /\ payloads' = payloads \cup {r} /\ out' = out \cup {r} /\ UNCHANGED <<skipped, dead>>
      BY <2>12 DEF SendWorks, queue
    <3>2. BatchInv' /\ FailureInv'
      BY <2>2, <2>8, <3>1 DEF Done
    <3> QED BY <2>6, <2>7, <3>2 DEF ForwardInv
  <2> QED BY <2>1, <2>9, <2>10, <2>11, <2>12
<1>7. CASE EndBatch
  <2>1. pc = "send" /\ pc' = "finish" /\ UNCHANGED <<last, batch, todo, consumed, payloads, out, failure, live,
                                              delivered, dead, skipped>>
    BY <1>7 DEF EndBatch, cursor, queue, history
  <2> USE <2>1 DEF ForwardInv, Done, DoneUpTo
  <2>2. NothingPassedOver' /\ PrefixInv' /\ AdvanceInv'
    BY DEF NothingPassedOver, PrefixInv, AdvanceInv
  <2>3. BatchInv'
    BY DEF BatchInv
  <2>4. FailureInv'
    BY DEF FailureInv
  <2> QED BY <2>2, <2>3, <2>4
<1>8. CASE FinishBatch
  <2>1. pc = "finish" /\ pc' = "advance" /\ UNCHANGED <<last, batch, todo, payloads, live, dead, skipped>>
    BY <1>8 DEF FinishBatch, cursor, queue
  <2>2. CASE out' = out /\ delivered' = delivered \cup out /\ UNCHANGED <<consumed, failure>>
    <3> USE <2>1, <2>2 DEF ForwardInv, Done, DoneUpTo
    <3>1. NothingPassedOver' /\ PrefixInv'
      BY DEF NothingPassedOver, PrefixInv
    <3>2. BatchInv' /\ AdvanceInv'
      BY DEF BatchInv, AdvanceInv
    <3>3. FailureInv'
      BY DEF FailureInv
    <3> QED BY <3>1, <3>2, <3>3
  <2>3. CASE ~(out' = out /\ delivered' = delivered \cup out /\ UNCHANGED <<consumed, failure>>)
    <3>1. out # {} /\ delivered \subseteq delivered'
      BY <1>8, <2>3 DEF FinishBatch
    <3>2. PICK first \in payloads, c \in {last} \cup {i \in batch : \E j \in payloads : i < j} :
             /\ IsFirst(first, payloads)
             /\ IsLast(c, {last} \cup {i \in batch : i < first})
             /\ failure' = first /\ consumed' = c
      BY <1>8, <2>3 DEF FinishBatch
    <3>3. first \in Int /\ c \in Int /\ last < first /\ c < first
      BY <1>a, <2>1, <3>2 DEF IsLast, ForwardInv, BatchInv
    <3>4. first <= consumed
      <4>1. PICK o \in out : TRUE
        BY <3>1
      <4>2. o \in batch \ todo /\ o \in payloads
        BY <1>a, <2>1 DEF ForwardInv, BatchInv
      <4>3. o <= consumed /\ first <= o
        BY <2>1, <3>2, <4>2 DEF ForwardInv, BatchInv, IsFirst
      <4> QED BY <1>a, <3>3, <4>2, <4>3
    <3>5. \A i \in live : i < first => i \in Done'
      <4> SUFFICES ASSUME NEW i \in live, i < first PROVE i \in Done'
        OBVIOUS
      <4>1. CASE i <= last
        BY <2>1, <3>1, <4>1 DEF ForwardInv, NothingPassedOver, Done
      <4>2. CASE last < i
        <5>1. i \in batch
          BY <1>a, <2>1, <4>2 DEF ForwardInv, PrefixInv
        <5>2. i \notin payloads
          BY <1>a, <3>2, <3>3, <5>1 DEF IsFirst
        <5>3. i \notin todo
          BY <1>a, <2>1, <3>3, <3>4 DEF ForwardInv, BatchInv
        <5>4. i \in dead \cup skipped
          BY <2>1, <5>1, <5>2, <5>3 DEF ForwardInv, BatchInv
        <5> QED BY <2>1, <5>4 DEF Done
      <4> QED BY <1>a, <4>1, <4>2
    <3>6. NothingPassedOver' /\ PrefixInv'
      BY <2>1, <3>1 DEF ForwardInv, NothingPassedOver, PrefixInv
    <3>7. BatchInv'
      BY <2>1 DEF BatchInv
    <3>8. AdvanceInv'
      BY <1>a, <2>1, <3>2, <3>3, <3>5 DEF AdvanceInv, DoneUpTo
    <3>9. FailureInv'
      BY <2>1, <3>2, <3>3, <3>5 DEF FailureInv
    <3> QED BY <3>6, <3>7, <3>8, <3>9 DEF ForwardInv
  <2> QED BY <2>2, <2>3
<1>9. CASE Advance
  <2>1. pc = "advance" /\ last' = (IF consumed > last THEN consumed ELSE last)
        /\ UNCHANGED <<batch, todo, payloads, live, delivered, dead, skipped, failure, consumed>>
    BY <1>9 DEF Advance, AdvanceTo, queue, history
  <2>2. pc' \in {"idle", "failed", "read"} /\ (pc' = "failed" => failure # None)
    BY <1>9 DEF Advance
  <2>3. last <= last'
    BY <1>a, <2>1
  <2>4. NothingPassedOver'
    BY <1>a, <2>1 DEF ForwardInv, NothingPassedOver, AdvanceInv, DoneUpTo, Done
  <2>5. PrefixInv'
    <3> SUFFICES ASSUME NEW i \in live, NEW r \in batch, last' < i, i < r PROVE i \in batch
      BY <2>1 DEF PrefixInv
    <3>1. last < i
      BY <1>a, <2>1
    <3> QED BY <2>1, <3>1 DEF ForwardInv, PrefixInv
  <2>6. BatchInv' /\ AdvanceInv'
    BY <2>2 DEF BatchInv, AdvanceInv
  <2>7. FailureInv'
    BY <1>a, <2>1, <2>2 DEF ForwardInv, FailureInv, Done
  <2> QED BY <2>4, <2>5, <2>6, <2>7 DEF ForwardInv
<1>10. CASE RecordFailure
  <2>1. pc = "failed" /\ consumed' = failure /\ failure # None
        /\ UNCHANGED <<batch, todo, payloads, live, delivered, dead, skipped, failure, last>>
    BY <1>10 DEF RecordFailure, queue, TypeOK
  <2>2. pc' \in {"idle", "quarantine", "probe"}
    BY <1>10 DEF RecordFailure
  <2>3. NothingPassedOver'
    BY <2>1 DEF ForwardInv, NothingPassedOver
  <2>4. PrefixInv' /\ BatchInv'
    BY <2>1, <2>2 DEF ForwardInv, PrefixInv, BatchInv
  <2>5. FailureInv'
    BY <2>1, <2>2 DEF ForwardInv, FailureInv, Done
  <2>6. AdvanceInv'
    BY <1>a, <2>1, <2>2 DEF ForwardInv, FailureInv, AdvanceInv, DoneUpTo, Done
  <2> QED BY <2>3, <2>4, <2>5, <2>6 DEF ForwardInv
<1>11. CASE ProbeAhead
  <2>1. pc = "probe" /\ failure # None /\ delivered \subseteq delivered'
        /\ UNCHANGED <<batch, todo, payloads, out, live, dead, skipped, failure, last>>
    BY <1>11 DEF ProbeAhead, cursor, queue, TypeOK
  <2>2. pc' \in {"idle", "quarantine"}
    BY <1>11 DEF ProbeAhead
  <2>3. NothingPassedOver'
    BY <2>1 DEF ForwardInv, NothingPassedOver
  <2>4. PrefixInv' /\ BatchInv'
    BY <2>2 DEF PrefixInv, BatchInv
  <2>5. FailureInv'
    BY <2>1, <2>2 DEF ForwardInv, FailureInv, Done
  <2>6. AdvanceInv'
    <3>1. CASE pc' = "idle"
      BY <3>1 DEF AdvanceInv
    <3>2. CASE pc' # "idle"
      <4>1. PICK r \in FirstN(Ahead, Probe) :
               /\ delivered' = delivered \cup {r} /\ pc' = "quarantine"
               /\ consumed' = IF \E i \in Ahead : i < r THEN failure ELSE r
        BY <1>11, <3>2 DEF ProbeAhead
      <4>2. r \in Ahead
        BY FirstNSubset
      <4>3. CASE \E i \in Ahead : i < r
        BY <1>a, <2>1, <4>1, <4>3 DEF ForwardInv, FailureInv, AdvanceInv, DoneUpTo, Done
      <4>4. CASE ~\E i \in Ahead : i < r
        <5>1. consumed' = r
          BY <4>1, <4>4
        <5>2. \A i \in live : i <= r => i \in Done' \cup {failure}
          <6> SUFFICES ASSUME NEW i \in live, i <= r PROVE i \in Done' \cup {failure}
            OBVIOUS
          <6>0. r \in Int
            BY <1>a, <4>2, FirstNSubset DEF Ahead, ReadAfter
          <6>1. CASE i < failure
            BY <2>1, <6>1 DEF ForwardInv, FailureInv, Done
          <6>2. CASE i = r
            BY <4>1, <6>2 DEF Done
          <6>3. CASE failure < i /\ i < r
            <7>1. CASE Ahead = {j \in batch : j > failure}
              <8>1. r \in batch /\ last < i
                BY <1>a, <2>1, <4>2, <6>3, <7>1 DEF ForwardInv, FailureInv
              <8>2. i \in batch
                BY <2>1, <6>3, <8>1 DEF ForwardInv, PrefixInv
              <8>3. i \in Ahead
                BY <1>a, <6>3, <7>1, <8>2
              <8> QED BY <4>4, <6>3, <8>3
            <7>2. CASE Ahead # {j \in batch : j > failure}
              <8> DEFINE after == {j \in live : j > failure}
              <8>1. Ahead = FirstN(after, Probe)
                BY <7>2 DEF Ahead, ReadAfter
              <8>2. after \in SUBSET (1 .. newest) /\ newest \in Nat /\ Probe \in Nat
                <9>1. live \subseteq 1 .. newest /\ newest \in 0 .. MaxId
                  BY DEF TypeOK
                <9>2. Probe \in Nat /\ MaxId \in Nat
                  BY SiemForwardAssumption DEF SiemForwardAssumption
                <9>3. newest \in Nat
                  BY <9>1, <9>2
                <9>4. after \subseteq live
                  OBVIOUS
                <9> QED BY <9>1, <9>2, <9>3, <9>4
              <8>3. i \in after
                BY <1>a, <6>3
              <8> HIDE DEF after
              <8>4. i \in FirstN(after, Probe)
                BY <4>2, <6>3, <8>1, <8>2, <8>3, FirstNPrefix
              <8> QED BY <4>4, <6>3, <8>1, <8>4
            <7> QED BY <7>1, <7>2
          <6> QED BY <1>a, <6>0, <6>1, <6>2, <6>3
        <5> QED BY <2>1, <4>1, <5>1, <5>2 DEF AdvanceInv, DoneUpTo
      <4> QED BY <4>3, <4>4
    <3> QED BY <3>1, <3>2
  <2> QED BY <2>3, <2>4, <2>5, <2>6 DEF ForwardInv
<1>12. CASE QuarantineHead
  <2>1. pc = "quarantine" /\ failure # None
        /\ UNCHANGED <<batch, todo, payloads, out, live, delivered, skipped, failure, last, consumed>>
    BY <1>12 DEF QuarantineHead, cursor, history, TypeOK
  <2>2. (pc' = "idle" /\ dead' = dead) \/ (pc' = "pass" /\ dead' = dead \cup {failure})
    BY <1>12 DEF QuarantineHead, Quarantine, queue
  <2>3. NothingPassedOver' /\ PrefixInv' /\ BatchInv'
    BY <2>1, <2>2 DEF ForwardInv, NothingPassedOver, PrefixInv, BatchInv
  <2>4. FailureInv'
    BY <2>2 DEF FailureInv
  <2>5. AdvanceInv'
    BY <2>1, <2>2 DEF ForwardInv, AdvanceInv, DoneUpTo, Done
  <2> QED BY <2>3, <2>4, <2>5 DEF ForwardInv
<1>13. CASE PassHead
  <2>1. pc = "pass" /\ pc' = "idle" /\ last' = (IF consumed > last THEN consumed ELSE last)
        /\ UNCHANGED <<live, delivered, dead, skipped>>
    BY <1>13 DEF PassHead, AdvanceTo, queue, history
  <2>2. NothingPassedOver'
    BY <1>a, <2>1 DEF ForwardInv, NothingPassedOver, AdvanceInv, DoneUpTo, Done
  <2> QED BY <2>1, <2>2 DEF ForwardInv, PrefixInv, BatchInv, FailureInv, AdvanceInv
<1>14. CASE Crash
  <2>1. pc' = "idle" /\ UNCHANGED <<live, last, delivered, dead, skipped>>
    BY <1>14 DEF Crash, cursor, queue, history
  <2> QED BY <2>1 DEF ForwardInv, NothingPassedOver, PrefixInv, BatchInv, FailureInv, AdvanceInv
<1>15. CASE UNCHANGED vars
  BY <1>15, QuietForward DEF vars, cursor, run, queue, history
<1> QED BY <1>1, <1>2, <1>3, <1>4, <1>5, <1>6, <1>7, <1>8, <1>9, <1>10, <1>11, <1>12, <1>13, <1>14,
           <1>15 DEF Next, Dispatch, Resend

\* A stored record the cursor has passed was taken by the destination, went to the DLQ or had
\* been sent by 5.x: whatever crashes, outages, probes, resends and retention runs come between.
THEOREM AtLeastOnce == Spec => []NothingPassedOver
<1>1. ForwardInv => NothingPassedOver
  BY DEF ForwardInv
<1> QED BY <1>1, TypeCorrect, InitForward, NextForward, PTL DEF Spec

-----------------------------------------------------------------------------
(* The dead-letter queue and whom it blames.                               *)

\* A line added while there is room keeps the queue finite and within its limit.
LEMMA QuarantineRoom ==
    ASSUME IsFiniteSet(dlq), ~DlqFull, NEW r, Quarantine(r)
    PROVE  IsFiniteSet(dlq)' /\ DlqWithinLimit'
<1>1. dlq' = dlq \cup {<<lines + 1, r>>}
  BY DEF Quarantine
<1>2. /\ IsFiniteSet(dlq \cup {<<lines + 1, r>>})
      /\ Cardinality(dlq \cup {<<lines + 1, r>>}) = IF <<lines + 1, r>> \in dlq THEN Cardinality(dlq) ELSE Cardinality(dlq) + 1
  BY FS_AddElement
<1>3. Cardinality(dlq) \in Nat /\ Cardinality(dlq) < DlqMax /\ DlqMax \in Nat
  BY FS_CardinalityType, SiemForwardAssumption DEF SiemForwardAssumption, DlqFull
<1>4. Cardinality(dlq') <= DlqMax
  BY <1>1, <1>2, <1>3
<1> QED BY <1>1, <1>2, <1>4 DEF DlqWithinLimit

\* Lines that leave the queue keep it finite and within its limit, and make no room vanish.
LEMMA ShrinkRoom ==
    ASSUME QueueInv, dlq' \subseteq dlq, pc' = "probe" => pc = "probe" \/ ~DlqFull
    PROVE  QueueInv'
<1>1. IsFiniteSet(dlq') /\ Cardinality(dlq') <= Cardinality(dlq)
  BY FS_Subset DEF QueueInv
<1>2. Cardinality(dlq') \in Nat /\ Cardinality(dlq) \in Nat /\ DlqMax \in Nat
  BY <1>1, FS_CardinalityType, SiemForwardAssumption DEF SiemForwardAssumption, QueueInv
<1>3. DlqWithinLimit'
  BY <1>1, <1>2 DEF QueueInv, DlqWithinLimit
<1>4. ASSUME pc' = "probe" PROVE ~DlqFull'
  BY <1>1, <1>2, <1>4 DEF QueueInv, DlqFull
<1> QED BY <1>1, <1>3, <1>4 DEF QueueInv

\* QueueInv holds initially.
LEMMA InitQueue == Init => QueueInv
<1> SUFFICES ASSUME Init PROVE QueueInv
  OBVIOUS
<1>1. dlq = {} /\ pc = "idle"
  BY DEF Init
<1>2. IsFiniteSet(dlq) /\ Cardinality(dlq) = 0 /\ DlqMax \in Nat
  BY <1>1, FS_EmptySet, SiemForwardAssumption DEF SiemForwardAssumption
<1> QED BY <1>1, <1>2 DEF QueueInv, DlqWithinLimit

\* Every step keeps QueueInv.
LEMMA NextQueue == QueueInv /\ [Next]_vars => QueueInv'
<1> SUFFICES ASSUME QueueInv, [Next]_vars PROVE QueueInv'
  OBVIOUS
<1>1. CASE SendNext
  <2>1. PICK r \in todo : SkipSent(r) \/ Unsendable(r) \/ SendFails(r) \/ SendWorks(r)
    BY <1>1 DEF SendNext
  <2>2. pc = "send"
    BY <1>1 DEF SendNext
  <2>3. CASE Quarantine(r) /\ Pass(r) /\ ~DlqFull
    <3>1. pc' = "send"
      BY <2>2, <2>3 DEF Pass
    <3> QED BY <2>3, <3>1, QuarantineRoom DEF QueueInv
  <2>4. CASE ~(Quarantine(r) /\ Pass(r) /\ ~DlqFull)
    <3>1. dlq' = dlq /\ pc' \in {"send", "finish"}
      BY <2>1, <2>2, <2>4 DEF SkipSent, Unsendable, SendFails, SendWorks, PassToDlq, Pass, queue
    <3> QED BY <3>1, ShrinkRoom
  <2> QED BY <2>3, <2>4
<1>2. CASE QuarantineHead
  <2>1. CASE DlqFull
    <3>1. dlq' = dlq /\ pc' = "idle"
      BY <1>2, <2>1 DEF QuarantineHead, queue
    <3> QED BY <3>1, ShrinkRoom
  <2>2. CASE ~DlqFull
    <3>1. Quarantine(failure) /\ pc' = "pass"
      BY <1>2, <2>2 DEF QuarantineHead
    <3> QED BY <2>2, <3>1, QuarantineRoom DEF QueueInv
  <2> QED BY <2>1, <2>2
<1>3. CASE RecordFailure
  <2>1. dlq' = dlq
    BY <1>3 DEF RecordFailure, queue
  <2>2. pc' = "probe" => ~DlqFull
    BY <1>3 DEF RecordFailure
  <2> QED BY <2>1, <2>2, ShrinkRoom
<1>4. CASE ReadBatch \/ EndBatch \/ FinishBatch \/ Advance \/ ProbeAhead \/ PassHead
  <2>1. dlq' = dlq
    BY <1>4 DEF ReadBatch, EndBatch, FinishBatch, Advance, ProbeAhead, PassHead, queue
  <2>2. pc' # "probe"
    BY <1>4 DEF ReadBatch, EndBatch, FinishBatch, Advance, ProbeAhead, PassHead
  <2> QED BY <2>1, <2>2, ShrinkRoom
<1>5. CASE Store \/ GoDown \/ ComeUp \/ HourPasses \/ RecordDropped \/ ResendRead \/ ResendSend \/ ResendDelete
  <2>1. dlq' \subseteq dlq /\ pc' = pc
    BY <1>5 DEF Store, GoDown, ComeUp, HourPasses, RecordDropped, ResendRead, ResendSend, ResendDelete, queue, run
  <2> QED BY <2>1, ShrinkRoom
<1>6. ASSUME NEW gone \in SUBSET live, RetentionDelete(gone) PROVE QueueInv'
  <2>1. dlq' = dlq /\ pc' = pc
    BY <1>6 DEF RetentionDelete, queue, run
  <2> QED BY <2>1, ShrinkRoom
<1>7. ASSUME NEW gone \in SUBSET dlq, Purge(gone) PROVE QueueInv'
  <2>1. dlq' \subseteq dlq /\ pc' = pc
    BY <1>7 DEF Purge, run
  <2> QED BY <2>1, ShrinkRoom
<1>8. CASE Crash
  <2>1. dlq' = dlq /\ pc' = "idle"
    BY <1>8 DEF Crash, queue
  <2> QED BY <2>1, ShrinkRoom
<1>9. CASE UNCHANGED vars
  <2>1. dlq' = dlq /\ pc' = pc
    BY <1>9 DEF vars, queue, run
  <2> QED BY <2>1, ShrinkRoom
<1> QED BY <1>1, <1>2, <1>3, <1>4, <1>5, <1>6, <1>7, <1>8, <1>9 DEF Next, Dispatch, Resend

\* The dead-letter queue never holds more lines than dlq_max_per_dest.
THEOREM QueueBounded == Spec => []DlqWithinLimit
<1>1. QueueInv => DlqWithinLimit
  BY DEF QueueInv
<1> QED BY <1>1, InitQueue, NextQueue, PTL DEF Spec

\* For every instance: the types hold and the DLQ keeps its limit.
THEOREM QueueInOrder == Spec => []QueueIsInOrder
<1>1. TypeOK /\ DlqWithinLimit => QueueIsInOrder
  BY DEF QueueIsInOrder
<1> QED BY <1>1, TypeCorrect, QueueBounded, PTL

\* OutageInv holds initially.
LEMMA InitOutage == Init => OutageInv
  BY DEF Init, OutageInv, OutageBlamesNoRecord, None

\* Every step keeps OutageInv.
LEMMA NextOutage == TypeOK /\ OutageInv /\ [Next]_vars => OutageInv'
<1> SUFFICES ASSUME TypeOK, OutageInv, [Next]_vars PROVE OutageInv'
  OBVIOUS
<1>q. ASSUME delivered \subseteq delivered', dead' = dead, gaveUp' = gaveUp, recent' => recent, probed' \in {probed, None},
             pc' # "advance" \/ (pc' = pc /\ out' = out), pc' # "quarantine" \/ pc' = pc
      PROVE  OutageInv'
  BY <1>q DEF OutageInv, OutageBlamesNoRecord
<1>1. CASE SendNext
  <2>1. PICK r \in todo : SkipSent(r) \/ Unsendable(r) \/ SendFails(r) \/ SendWorks(r)
    BY <1>1 DEF SendNext
  <2>2. pc = "send" /\ UNCHANGED <<delivered, gaveUp, recent, probed>>
    BY <1>1 DEF SendNext, cursor
  <2>3. pc' \in {"send", "finish"}
    BY <2>1, <2>2 DEF SkipSent, Unsendable, SendFails, SendWorks, PassToDlq, Pass
  <2>4. dead' = dead \/ (dead' = dead \cup {r} /\ r \in Unformattable \cup Refused)
    BY <2>1 DEF SkipSent, Unsendable, SendFails, SendWorks, PassToDlq, Quarantine, queue
  <2> QED BY <2>2, <2>3, <2>4 DEF OutageInv, OutageBlamesNoRecord
<1>2. CASE FinishBatch
  <2>1. pc' = "advance" /\ delivered \subseteq delivered' /\ out' \subseteq delivered'
    BY <1>2 DEF FinishBatch
  <2>2. UNCHANGED <<dead, gaveUp, recent, probed>>
    BY <1>2 DEF FinishBatch, cursor, queue
  <2> QED BY <2>1, <2>2 DEF OutageInv, OutageBlamesNoRecord
<1>3. CASE Advance
  <2>1. UNCHANGED <<dead, gaveUp, delivered, probed>> /\ pc = "advance"
    BY <1>3 DEF Advance, queue, history
  <2>2. pc' \notin {"advance", "quarantine"}
    BY <1>3 DEF Advance
  <2>3. recent' => recent \/ out # {}
    BY <1>3 DEF Advance, AdvanceTo
  <2> QED BY <2>1, <2>2, <2>3 DEF OutageInv, OutageBlamesNoRecord
<1>4. CASE RecordFailure
  <2>1. UNCHANGED <<dead, delivered, probed, recent, out>> /\ pc = "failed"
    BY <1>4 DEF RecordFailure, queue
  <2>2. gaveUp => gaveUp'
    BY <1>4 DEF RecordFailure
  <2>3. pc' # "advance"
    BY <1>4 DEF RecordFailure
  <2>4. pc' = "quarantine" => gaveUp' \/ recent
    BY <1>4 DEF RecordFailure, IsStuck
  <2> QED BY <2>1, <2>2, <2>3, <2>4 DEF OutageInv, OutageBlamesNoRecord
<1>5. CASE ProbeAhead
  <2>1. UNCHANGED <<dead, gaveUp, recent>>
    BY <1>5 DEF ProbeAhead, queue, cursor
  <2>2. \/ UNCHANGED <<probed, delivered>> /\ pc' = "idle"
        \/ delivered' # {} /\ pc' = "quarantine"
    BY <1>5 DEF ProbeAhead
  <2> QED BY <2>1, <2>2 DEF OutageInv, OutageBlamesNoRecord
<1>6. CASE QuarantineHead
  <2>1. UNCHANGED <<gaveUp, delivered, recent, probed>> /\ pc = "quarantine"
    BY <1>6 DEF QuarantineHead, cursor, history
  <2>2. pc' \notin {"advance", "quarantine"}
    BY <1>6 DEF QuarantineHead
  <2> QED BY <2>1, <2>2 DEF OutageInv, OutageBlamesNoRecord
<1>7. CASE PassHead
  <2>1. UNCHANGED <<dead, gaveUp, delivered, probed>> /\ pc' = "idle"
    BY <1>7 DEF PassHead, queue, history
  <2>2. recent' => recent \/ probed # None
    BY <1>7 DEF PassHead, AdvanceTo
  <2> QED BY <2>1, <2>2 DEF OutageInv, OutageBlamesNoRecord
<1>8. CASE ReadBatch \/ EndBatch
  <2>1. UNCHANGED <<delivered, dead, gaveUp, recent>> /\ probed' \in {probed, None}
    BY <1>8 DEF ReadBatch, EndBatch, cursor, queue, history
  <2>2. pc' \notin {"advance", "quarantine"}
    BY <1>8 DEF ReadBatch, EndBatch
  <2> QED BY <1>q, <2>1, <2>2
<1>9. CASE Store \/ GoDown \/ ComeUp \/ HourPasses \/ RecordDropped \/ ResendRead \/ ResendSend \/ ResendDelete
  <2>1. delivered \subseteq delivered' /\ dead' = dead /\ gaveUp' = gaveUp /\ probed' = probed /\ pc' = pc /\ out' = out
    BY <1>9 DEF Store, GoDown, ComeUp, HourPasses, RecordDropped, ResendRead, ResendSend, ResendDelete,
                queue, run, history
  <2>2. recent' => recent
    BY <1>9 DEF Store, GoDown, ComeUp, HourPasses, RecordDropped, ResendRead, ResendSend, ResendDelete, cursor
  <2> QED BY <1>q, <2>1, <2>2
<1>10. ASSUME NEW gone \in SUBSET live, RetentionDelete(gone) PROVE OutageInv'
  BY <1>q, <1>10 DEF RetentionDelete, cursor, queue, run, history
<1>11. ASSUME NEW gone \in SUBSET dlq, Purge(gone) PROVE OutageInv'
  BY <1>q, <1>11 DEF Purge, cursor, run, history
<1>12. CASE Crash
  BY <1>q, <1>12 DEF Crash, cursor, queue, history
<1>13. CASE UNCHANGED vars
  BY <1>q, <1>13 DEF vars, cursor, queue, run, history
<1> QED BY <1>1, <1>2, <1>3, <1>4, <1>5, <1>6, <1>7, <1>8, <1>9, <1>10, <1>11, <1>12, <1>13
        DEF Next, Dispatch, Resend

\* A destination that has taken nothing puts no sendable record in the DLQ before a head has
\* failed Hard times: an outage is not blamed on the records it holds up.
THEOREM OutageIsNotBlamed == Spec => []OutageBlamesNoRecord
<1>1. OutageInv => OutageBlamesNoRecord
  BY DEF OutageInv
<1> QED BY <1>1, TypeCorrect, InitOutage, NextOutage, PTL DEF Spec

\* The run sends a record ahead of a waiting one only as a probe and only with room in the DLQ
\* for the one it overtakes.
THEOREM InOrder == Spec => SentInOrder
<1> DEFINE Ordered ==
        FinishBatch \/ ProbeAhead =>
            \A i \in delivered' \ delivered :
                \/ \A j \in live : last < j /\ j < i => j \in out \cup delivered \cup dead \cup skipped
                \/ pc = "probe" /\ ~DlqFull
<1>1. ASSUME TypeOK, ForwardInv, QueueInv PROVE Ordered
  <2>1. CASE FinishBatch
    <3> SUFFICES ASSUME NEW i \in delivered' \ delivered, NEW j \in live, last < j, j < i
                 PROVE  j \in out \cup delivered \cup dead \cup skipped
      BY <2>1
    <3>1. i \in out /\ pc = "finish"
      BY <2>1 DEF FinishBatch
    <3>2. i \in batch \ todo
      BY <1>1, <3>1 DEF TypeOK, ForwardInv, BatchInv
    <3>3. i <= consumed /\ i \in Int /\ j \in Int /\ consumed \in Int
      BY <1>1, <3>1, <3>2 DEF TypeOK, ForwardInv, BatchInv
    <3>4. j <= consumed
      BY <3>3
    <3> QED BY <1>1, <3>1, <3>4 DEF ForwardInv, BatchInv, DoneUpTo, Done
  <2>2. CASE ProbeAhead
    BY <1>1, <2>2 DEF ProbeAhead, QueueInv
  <2> QED BY <2>1, <2>2
<1>2. TypeOK /\ ForwardInv /\ QueueInv => Ordered
  BY <1>1
<1>3. ASSUME TypeOK /\ ForwardInv /\ QueueInv PROVE [Ordered]_vars
  BY <1>2, <1>3
<1>4. Spec => []ForwardInv
  BY TypeCorrect, InitForward, NextForward, PTL DEF Spec
<1>5. Spec => []QueueInv
  BY InitQueue, NextQueue, PTL DEF Spec
<1> QED BY <1>3, <1>4, <1>5, TypeCorrect, PTL DEF SentInOrder

-----------------------------------------------------------------------------
(* What retention deletes unsent is counted.                               *)

\* The records that left the store without an outcome.
Lost == {i \in 1 .. newest : i \notin live \cup delivered \cup dead \cup skipped}

\* What retention has counted or recorded covers what was lost, until a stop takes a count with it.
CountInv == crashes = 0 => Cardinality(Lost) <= dropped + counted

\* A set of record ids is finite.
LEMMA IdsAreFinite ==
    ASSUME NEW n \in Nat, NEW S \in SUBSET (1 .. n)
    PROVE  IsFiniteSet(S) /\ Cardinality(S) \in Nat
<1>1. IsFiniteSet(1 .. n)
  BY FS_Interval
<1> QED BY <1>1, FS_Subset, FS_CardinalityType

\* A step that loses nothing, and keeps the sum of what is counted, keeps CountInv.
LEMMA NothingMoreLost ==
    ASSUME TypeOK, CountInv, Lost' \subseteq Lost, crashes' = crashes,
           dropped' + counted' = dropped + counted
    PROVE  CountInv'
<1>1. newest \in Nat /\ dropped + counted \in Nat
  BY SiemForwardAssumption DEF TypeOK, SiemForwardAssumption
<1>2. Lost \in SUBSET (1 .. newest)
  BY DEF Lost
<1>3. IsFiniteSet(Lost) /\ Cardinality(Lost) \in Nat
  BY <1>1, <1>2, IdsAreFinite
<1>4. IsFiniteSet(Lost') /\ Cardinality(Lost') <= Cardinality(Lost)
  BY <1>3, FS_Subset
<1>5. Cardinality(Lost') \in Nat
  BY <1>4, FS_CardinalityType
<1> QED BY <1>1, <1>3, <1>4, <1>5 DEF CountInv

\* A record that has an outcome keeps it, and is lost neither before nor after.
LEMMA OutcomesKept ==
    ASSUME newest' = newest, live' = live, delivered \subseteq delivered', dead \subseteq dead', skipped \subseteq skipped'
    PROVE  Lost' \subseteq Lost
  BY DEF Lost

\* One retention run counts every record it takes that had no outcome yet: what it deletes before
\* the cursor is done with.
LEMMA RetentionCounts ==
    ASSUME TypeOK, TypeOK', NothingPassedOver, CountInv, NEW gone \in SUBSET live, RetentionDelete(gone)
    PROVE  CountInv'
<1> DEFINE unsent == {i \in gone : last < i}
<1>1. UNCHANGED <<newest, last, dropped, delivered, dead, skipped, crashes>> /\ live' = live \ gone
  BY DEF RetentionDelete, cursor, queue, history
<1>2. counted = 0 /\ counted' = Cardinality(unsent)
  BY DEF RetentionDelete
<1>3. newest \in Nat /\ dropped \in Nat /\ last \in Int /\ live \subseteq 1 .. newest
  BY SiemForwardAssumption DEF TypeOK, SiemForwardAssumption
<1>4. Lost \in SUBSET (1 .. newest) /\ unsent \in SUBSET (1 .. newest)
  BY <1>3 DEF Lost
<1>5. Lost' \subseteq Lost \cup unsent
  <2> SUFFICES ASSUME NEW i \in Lost', i \notin Lost PROVE i \in unsent
    OBVIOUS
  <2>1. i \in 1 .. newest /\ i \notin delivered \cup dead \cup skipped
    BY <1>1 DEF Lost
  <2>2. i \in live /\ i \in gone
    BY <1>1, <2>1 DEF Lost
  <2>3. ~(i <= last)
    BY <2>1, <2>2 DEF NothingPassedOver
  <2> QED BY <1>3, <2>1, <2>2, <2>3
<1> HIDE DEF unsent
<1>6. IsFiniteSet(Lost) /\ Cardinality(Lost) \in Nat /\ IsFiniteSet(unsent) /\ Cardinality(unsent) \in Nat
  BY <1>3, <1>4, IdsAreFinite
<1>7. Lost \cap unsent \in SUBSET Lost
  OBVIOUS
<1>8. Cardinality(Lost \cap unsent) \in Nat
  BY <1>6, <1>7, FS_Subset, FS_CardinalityType
<1>9. /\ IsFiniteSet(Lost \cup unsent)
      /\ Cardinality(Lost \cup unsent) = Cardinality(Lost) + Cardinality(unsent) - Cardinality(Lost \cap unsent)
  BY <1>6, FS_Union
<1>10. IsFiniteSet(Lost') /\ Cardinality(Lost') <= Cardinality(Lost \cup unsent)
  BY <1>5, <1>9, FS_Subset
<1>11. Cardinality(Lost') \in Nat
  BY <1>10, FS_CardinalityType
<1>12. crashes = 0 => Cardinality(Lost) <= dropped
  BY <1>2, <1>3 DEF CountInv
<1> QED BY <1>1, <1>2, <1>3, <1>6, <1>8, <1>9, <1>10, <1>11, <1>12 DEF CountInv

\* CountInv holds initially.
LEMMA InitCount == Init => CountInv
<1> SUFFICES ASSUME Init PROVE CountInv
  OBVIOUS
<1>1. Lost = {}
  BY DEF Init, Lost
<1>2. dropped + counted = 0
  BY DEF Init
<1> QED BY <1>1, <1>2, FS_EmptySet DEF CountInv

\* Every step keeps CountInv.
LEMMA NextCount == TypeOK /\ TypeOK' /\ NothingPassedOver /\ CountInv /\ [Next]_vars => CountInv'
<1> SUFFICES ASSUME TypeOK, TypeOK', NothingPassedOver, CountInv, [Next]_vars PROVE CountInv'
  OBVIOUS
<1>1. CASE Store
  <2>1. newest' = newest + 1 /\ live' = live \cup {newest + 1}
    BY <1>1 DEF Store
  <2>2. UNCHANGED <<delivered, dead, skipped, dropped, counted, crashes>>
    BY <1>1 DEF Store, queue, history, bounds
  <2>3. newest \in Nat
    BY SiemForwardAssumption DEF TypeOK, SiemForwardAssumption
  <2>4. Lost' \subseteq Lost
    <3> SUFFICES ASSUME NEW i \in Lost' PROVE i \in Lost
      OBVIOUS
    <3>1. i \in 1 .. newest + 1 /\ i \notin live /\ i # newest + 1 /\ i \notin delivered \cup dead \cup skipped
      BY <2>1, <2>2 DEF Lost
    <3>2. i \in 1 .. newest
      BY <2>3, <3>1
    <3> QED BY <3>1, <3>2 DEF Lost
  <2> QED BY <2>2, <2>4, NothingMoreLost
<1>2. CASE SendNext
  <2>1. PICK r \in todo : SkipSent(r) \/ Unsendable(r) \/ SendFails(r) \/ SendWorks(r)
    BY <1>2 DEF SendNext
  <2>2. dead \subseteq dead' /\ skipped \subseteq skipped'
    BY <2>1 DEF SkipSent, Unsendable, SendFails, SendWorks, PassToDlq, Quarantine, queue
  <2>3. UNCHANGED <<newest, live, delivered, dropped, counted, crashes>>
    BY <1>2 DEF SendNext, bounds
  <2> QED BY <2>2, <2>3, OutcomesKept, NothingMoreLost
<1>3. CASE FinishBatch \/ ProbeAhead
  <2>1. delivered \subseteq delivered' /\ UNCHANGED <<newest, live, dead, skipped, dropped, counted, crashes>>
    BY <1>3 DEF FinishBatch, ProbeAhead, queue, bounds
  <2> QED BY <2>1, OutcomesKept, NothingMoreLost
<1>4. CASE QuarantineHead
  <2>1. dead \subseteq dead' /\ UNCHANGED <<newest, live, delivered, skipped, dropped, counted, crashes>>
    BY <1>4 DEF QuarantineHead, Quarantine, queue, history, bounds
  <2> QED BY <2>1, OutcomesKept, NothingMoreLost
<1>5. CASE ResendSend
  <2>1. delivered \subseteq delivered' /\ UNCHANGED <<newest, live, dead, skipped, dropped, counted, crashes>>
    BY <1>5 DEF ResendSend, queue, bounds
  <2> QED BY <2>1, OutcomesKept, NothingMoreLost
<1>6. CASE RecordDropped
  <2>1. UNCHANGED <<newest, live, delivered, dead, skipped, crashes>>
    BY <1>6 DEF RecordDropped, queue, history, bounds
  <2>2. dropped' + counted' = dropped + counted
    BY <1>6 DEF RecordDropped, TypeOK
  <2> QED BY <2>1, <2>2, OutcomesKept, NothingMoreLost
<1>7. ASSUME NEW gone \in SUBSET live, RetentionDelete(gone) PROVE CountInv'
  BY <1>7, RetentionCounts
<1>8. CASE Crash
  <2>1. crashes \in Nat /\ crashes' = crashes + 1
    BY <1>8 DEF Crash, TypeOK
  <2>2. crashes' # 0
    BY <2>1
  <2> QED BY <2>2 DEF CountInv
<1>9. CASE GoDown \/ ComeUp \/ HourPasses \/ ResendRead \/ ResendDelete
  <2>1. UNCHANGED <<newest, live, delivered, dead, skipped, dropped, counted, crashes>>
    BY <1>9 DEF GoDown, ComeUp, HourPasses, ResendRead, ResendDelete, queue, history, bounds
  <2> QED BY <2>1, OutcomesKept, NothingMoreLost
<1>10. CASE ReadBatch \/ EndBatch \/ Advance \/ RecordFailure \/ PassHead
  <2>1. UNCHANGED <<newest, live, delivered, dead, skipped, dropped, counted, crashes>>
    BY <1>10 DEF ReadBatch, EndBatch, Advance, RecordFailure, PassHead, queue, history, bounds
  <2> QED BY <2>1, OutcomesKept, NothingMoreLost
<1>11. ASSUME NEW gone \in SUBSET dlq, Purge(gone) PROVE CountInv'
  <2>1. UNCHANGED <<newest, live, delivered, dead, skipped, dropped, counted, crashes>>
    BY <1>11 DEF Purge, history
  <2> QED BY <2>1, OutcomesKept, NothingMoreLost
<1>12. CASE UNCHANGED vars
  <2>1. UNCHANGED <<newest, live, delivered, dead, skipped, dropped, counted, crashes>>
    BY <1>12 DEF vars, queue, history, bounds
  <2> QED BY <2>1, OutcomesKept, NothingMoreLost
<1> QED BY <1>1, <1>2, <1>3, <1>4, <1>5, <1>6, <1>7, <1>8, <1>9, <1>10, <1>11, <1>12 DEF Next, Dispatch, Resend

\* "What it deletes before a destination sent it is counted on that destination's cursor": for every
\* instance, as long as the service was never stopped.  A stop between the deletion and the write
\* of the count loses the count (Crash), so without the condition the claim does not hold.
THEOREM UninterruptedDropsAreCounted == Spec => [](crashes = 0 => DropsAreCounted)
<1>1. CountInv => (crashes = 0 => DropsAreCounted)
  BY DEF CountInv, DropsAreCounted, Lost
<1>2. Spec => []NothingPassedOver
  BY AtLeastOnce
<1> QED BY <1>1, <1>2, TypeCorrect, InitCount, NextCount, PTL DEF Spec
=============================================================================
