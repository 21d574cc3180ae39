--------------------------- MODULE OutgoingProofs ---------------------------
(***************************************************************************)
(* Theorems about what leaves the service (AlertDispatch, RuleSchedules,   *)
(* FleetWrites, Quarantine, RuleHitCount, ReportQueue and MCOutgoing       *)
(* beside them), for every number of channels, deliveries, hosts,          *)
(* schedules, reports and people, and every bound.  Each part has an       *)
(* inductive invariant (DispatchInv, RuleInv, FleetInv, QuarantineInv,     *)
(* RhcInv, ReportInv, ScheduleInv), a lemma that its Init establishes it,  *)
(* one lemma per action that keeps it, and a lemma that it implies the     *)
(* property.                                                               *)
(***************************************************************************)
EXTENDS MCOutgoing, FiniteSetTheorems, WellFoundedInduction, TLAPS

-----------------------------------------------------------------------------
(* Alert deliveries.                                                       *)

DeliveryType == [channel : Channels, status : Statuses, attempts : 0 .. Attempts, wait : Int]
ChannelType == [strikes : 0 .. ChannelStrikes, rest : 0 .. ChannelRest]
DispatchType == [step : {"idle", "channel", "answered", "state"}, due : SUBSET Deliveries, enabled : SUBSET Channels,
                 left : SUBSET Channels, channel : 0 .. NumChannels, ok : BOOLEAN, todo : SUBSET Deliveries, ran : BOOLEAN]

Queued_(d) == deliveries[d].status # "none"
InFlight(d) == dispatch.step = "answered" /\ d \in dispatch.todo
\* A delivery the run has not come to yet.
Ahead(d) == d \in dispatch.due /\ deliveries[d].channel \in dispatch.left \ {dispatch.channel}

DispatchTypes ==
    /\ deliveries \in [Deliveries -> DeliveryType] /\ channelState \in [Channels -> ChannelType]
    /\ dispatch \in DispatchType
    /\ enabled \subseteq Channels /\ everOff \subseteq Channels
    /\ sends \in [Deliveries -> 0 .. Attempts] /\ copies \in [Deliveries -> 0 .. 1]

\* Rows are added behind all others.
IdsAreFilled == \E n \in 0 .. NumDeliveries : \A d \in Deliveries : Queued_(d) <=> d <= n

\* Where the run is: a channel it works on has its deliveries in hand until they are recorded.
RunIsInOrder ==
    /\ dispatch.step = "idle" => dispatch.due = {}
    /\ dispatch.step = "channel" <=> dispatch.channel = 0 /\ dispatch.step # "idle"
    /\ dispatch.step # "answered" => dispatch.todo = {}
    /\ \A d \in dispatch.todo : deliveries[d].channel = dispatch.channel
    /\ dispatch.todo \subseteq dispatch.due
    /\ Channels \ enabled \subseteq everOff
    /\ dispatch.step # "idle" => Channels \ dispatch.enabled \subseteq everOff

\* What the receiver took of a delivery: nothing while it waits, one message once it is recorded.
CopiesFit(d) ==
    /\ Queued_(d) \/ (copies[d] = 0 /\ d \notin dispatch.due)
    /\ Ahead(d) \/ InFlight(d) => deliveries[d].status \in {"pending", "deleted"}
    /\ Ahead(d) => copies[d] = 0
    /\ InFlight(d) => copies[d] = IF dispatch.ok THEN 1 ELSE 0
    /\ deliveries[d].status = "pending" /\ ~InFlight(d) => copies[d] = 0

\* Attempts are counted no faster than messages are sent.
SendsFit(d) ==
    /\ deliveries[d].status = "pending" => deliveries[d].attempts < Attempts /\ deliveries[d].attempts <= sends[d]
    /\ deliveries[d].status = "pending" /\ InFlight(d) => deliveries[d].attempts + 1 <= sends[d]
    /\ deliveries[d].status = "failed" => sends[d] >= Attempts \/ deliveries[d].channel \in everOff

DispatchInv ==
    /\ DispatchTypeOK /\ DispatchTypes /\ IdsAreFilled /\ RunIsInOrder
    /\ \A d \in Deliveries : CopiesFit(d) /\ SendsFit(d)

-----------------------------------------------------------------------------
(* Least elements and ranks.                                               *)

LEMMA LeastOfNaturals ==
    ASSUME NEW S, S \subseteq Nat, S # {}
    PROVE  \E x \in S : \A y \in S : x <= y
<1> DEFINE R == {ss \in Nat \X Nat : ss[1] < ss[2]}
<1>1. IsWellFoundedOn(R, Nat)
  BY NatLessThanWellFounded DEF OpToRel
<1> HIDE DEF R
<1>2. PICK x \in S : \A y \in S : ~(<<y, x>> \in R)
  BY <1>1, WFMin
<1>3. ASSUME NEW y \in S PROVE x <= y
  <2>1. ~(<<y, x>> \in R) /\ y \in Nat /\ x \in Nat
    BY <1>2
  <2> QED BY <2>1 DEF R
<1> QED BY <1>2, <1>3

LEMMA MinIsLeast ==
    ASSUME NEW S, S \subseteq Nat, S # {}
    PROVE  Min(S) \in S /\ \A y \in S : Min(S) <= y
BY LeastOfNaturals DEF Min

\* A set of numbers up to n has, for every k up to its size, a member with k members up to it.
LEMMA EveryRankIsTaken ==
    ASSUME NEW n \in Nat, NEW S \in SUBSET (1 .. n), NEW k \in 1 .. Cardinality(S)
    PROVE  \E c \in S : Cardinality({b \in S : b <= c}) = k
<1> DEFINE U(m) == {b \in S : b <= m}
           E == {m \in 0 .. n : Cardinality(U(m)) >= k}
<1>0. ASSUME NEW b \in S PROVE b \in Nat /\ b >= 1 /\ b <= n
  OBVIOUS
<1>1. ASSUME NEW m \in 0 .. n PROVE IsFiniteSet(U(m)) /\ Cardinality(U(m)) \in Nat
  <2>1. IsFiniteSet(1 .. n)
    BY FS_Interval
  <2>2. U(m) \in SUBSET (1 .. n)
    OBVIOUS
  <2>3. IsFiniteSet(U(m))
    BY <2>1, <2>2, FS_Subset
  <2> QED BY <2>3, FS_CardinalityType
<1>2. U(0) = {} /\ U(n) = S
  <2>1. \A b \in S : ~(b <= 0) /\ b <= n
    BY <1>0
  <2> QED BY <2>1
<1>3. E # {} /\ 0 \notin E /\ E \subseteq Nat
  <2>1. Cardinality(U(0)) = 0 /\ Cardinality(U(n)) = Cardinality(S) /\ Cardinality(S) \in Nat
    BY <1>1, <1>2, FS_EmptySet
  <2> HIDE DEF U
  <2>2. n \in E /\ 0 \notin E
    BY <2>1
  <2> QED BY <2>2
<1>4. PICK m \in E : \A y \in E : m <= y
  BY <1>3, LeastOfNaturals
<1>5. m \in 1 .. n /\ m - 1 \in 0 .. n /\ m - 1 \notin E
  <2>1. m # 0 /\ m \in 0 .. n
    BY <1>3, <1>4
  <2>2. ~(m <= m - 1) /\ m - 1 \in 0 .. n
    BY <2>1
  <2>3. m - 1 \notin E
    BY <1>4, <2>2
  <2> QED BY <2>1, <2>2, <2>3
<1>6. Cardinality(U(m - 1)) < k /\ Cardinality(U(m)) >= k
  <2> HIDE DEF U
  <2>1. ~(Cardinality(U(m - 1)) >= k) /\ Cardinality(U(m)) >= k
    BY <1>4, <1>5
  <2>2. Cardinality(U(m - 1)) \in Nat /\ k \in Int
    BY <1>1, <1>5
  <2> QED BY <2>1, <2>2
<1>7. CASE m \in S
  <2>1. \A b \in S : b <= m <=> b <= m - 1 \/ b = m
    BY <1>0, <1>5
  <2>2. U(m) = U(m - 1) \cup {m} /\ ~(m <= m - 1)
    <3>1. ~(m <= m - 1)
      BY <1>5
    <3> QED BY <1>7, <2>1, <3>1
  <2>3. IsFiniteSet(U(m - 1)) /\ m \notin U(m - 1) /\ Cardinality(U(m - 1)) \in Nat
    BY <1>1, <1>5, <2>2
  <2>4. Cardinality(U(m)) = Cardinality(U(m - 1)) + 1
    BY <2>2, <2>3, FS_AddElement
  <2>5. Cardinality(U(m)) = k
    <3> HIDE DEF U
    <3> QED BY <1>6, <2>3, <2>4
  <2> QED BY <1>7, <2>5
<1>8. CASE m \notin S
  <2>1. \A b \in S : b <= m <=> b <= m - 1
    BY <1>0, <1>5, <1>8
  <2>2. U(m) = U(m - 1)
    BY <2>1
  <2>3. Cardinality(U(m)) \in Nat
    BY <1>1, <1>5
  <2> HIDE DEF U
  <2> QED BY <1>6, <2>2, <2>3
<1> QED BY <1>7, <1>8

-----------------------------------------------------------------------------
(* The steps of a run.                                                     *)

LEMMA DispatchBegins == DispatchInit => DispatchInv
<1> SUFFICES ASSUME DispatchInit PROVE DispatchInv
  OBVIOUS
<1> USE AlertDispatchAssumption
<1>1. DispatchTypeOK
  BY DEF DispatchInit, DispatchTypeOK, NoDelivery, IdleDispatch, Channels, Statuses
<1>2. DispatchTypes
  BY DEF DispatchInit, DispatchTypes, NoDelivery, IdleDispatch, Channels, Statuses, DeliveryType, ChannelType, DispatchType
<1>3. IdsAreFilled
  <2>1. 0 \in 0 .. NumDeliveries /\ \A d \in Deliveries : Queued_(d) <=> d <= 0
    BY DEF DispatchInit, Queued_, NoDelivery, Deliveries
  <2> QED BY <2>1 DEF IdsAreFilled
<1>4. RunIsInOrder
  BY DEF DispatchInit, RunIsInOrder, IdleDispatch
<1>5. \A d \in Deliveries : CopiesFit(d) /\ SendsFit(d)
  BY DEF DispatchInit, CopiesFit, SendsFit, Queued_, Ahead, InFlight, IdleDispatch, NoDelivery
<1> QED BY <1>1, <1>2, <1>3, <1>4, <1>5 DEF DispatchInv

\* The channel a run is at is one of those left.
LEMMA AtChannelIsLeft ==
    ASSUME DispatchInv, NEW c \in Channels, AtChannel(c)
    PROVE  c \in dispatch.left /\ dispatch.step = "channel" /\ dispatch.channel = 0 /\ dispatch.todo = {}
<1>1. dispatch.left \subseteq Nat /\ dispatch.left # {} /\ c = Min(dispatch.left)
  BY DEF DispatchInv, DispatchTypes, DispatchType, Channels, AtChannel
<1> QED BY <1>1, MinIsLeast DEF DispatchInv, RunIsInOrder, AtChannel

LEMMA InsertAlertKeeps == DispatchInv /\ InsertAlert => DispatchInv'
<1> SUFFICES ASSUME DispatchInv, InsertAlert PROVE DispatchInv'
  OBVIOUS
<1> DEFINE used == {d \in Deliveries : deliveries[d].status # "none"}
           first == Cardinality(used)
           many == Cardinality(enabled)
           chan(d) == CHOOSE c \in enabled : Cardinality({b \in enabled : b <= c}) = d - first
           row_(d) == [NoDelivery EXCEPT !.status = "pending", !.channel = chan(d)]
<1>1. /\ enabled # {} /\ first + many <= NumDeliveries
      /\ deliveries' = [d \in Deliveries |-> IF d \notin first + 1 .. first + many THEN deliveries[d] ELSE row_(d)]
      /\ UNCHANGED <<channelState, enabled, dispatch, mishaps, toggles, everOff, sends, copies>>
  BY DEF InsertAlert, dispatchHistory
<1>2. NumDeliveries \in Nat /\ NumChannels \in Nat
  BY AlertDispatchAssumption
<1>3. PICK n \in 0 .. NumDeliveries : \A d \in Deliveries : Queued_(d) <=> d <= n
  BY DEF DispatchInv, IdsAreFilled
<1>4. first = n
  <2>1. \A d \in 1 .. NumDeliveries : d \in used <=> d <= n
    BY <1>3 DEF Queued_, Deliveries
  <2>2. \A d \in used : d \in 1 .. n
    BY <1>2, <2>1 DEF Deliveries
  <2>3. \A d \in 1 .. n : d \in 1 .. NumDeliveries
    BY <1>2
  <2>4. used = 1 .. n
    <3>1. \A d \in 1 .. n : d \in used
      BY <2>1, <2>3
    <3> QED BY <2>2, <3>1
  <2>5. n \in Int /\ n >= 0
    BY <1>2
  <2>6. Cardinality(1 .. n) = IF 1 > n THEN 0 ELSE n - 1 + 1
    BY <2>5, FS_Interval
  <2>7. Cardinality(1 .. n) = n
    BY <2>5, <2>6
  <2> QED BY <2>4, <2>7
<1>5. many \in Nat
  <2>1. enabled \in SUBSET (1 .. NumChannels) /\ IsFiniteSet(1 .. NumChannels)
    BY <1>2, FS_Interval DEF DispatchInv, DispatchTypes, Channels
  <2>2. IsFiniteSet(enabled)
    BY <2>1, FS_Subset
  <2> QED BY <2>2, FS_CardinalityType
<1>6. ASSUME NEW d \in Deliveries, d \in first + 1 .. first + many
      PROVE  /\ chan(d) \in Channels /\ deliveries[d].status = "none"
             /\ row_(d) = [channel |-> chan(d), status |-> "pending", attempts |-> 0, wait |-> 0]
  <2>1. d - first \in 1 .. Cardinality(enabled) /\ enabled \in SUBSET (1 .. NumChannels) /\ d > n
    BY <1>4, <1>5, <1>6 DEF Deliveries, DispatchInv, DispatchTypes, Channels
  <2>2. \E c \in enabled : Cardinality({b \in enabled : b <= c}) = d - first
    BY <1>2, <2>1, EveryRankIsTaken
  <2>3. chan(d) \in enabled
    BY <2>2
  <2>4. deliveries[d].status = "none"
    BY <1>2, <1>3, <2>1 DEF Queued_, Deliveries
  <2>5. row_(d) = [channel |-> chan(d), status |-> "pending", attempts |-> 0, wait |-> 0]
    <3> DEFINE p == [channel |-> 1, status |-> "pending", attempts |-> 0, wait |-> 0]
    <3>1. [NoDelivery EXCEPT !.status = "pending"] = p
      BY DEF NoDelivery
    <3>2. [p EXCEPT !.channel = chan(d)] = [channel |-> chan(d), status |-> "pending", attempts |-> 0, wait |-> 0]
      <4> HIDE DEF chan
      <4> QED OBVIOUS
    <3> HIDE DEF chan, p
    <3> QED BY <3>1, <3>2
  <2> HIDE DEF chan, row_
  <2> QED BY <2>1, <2>3, <2>4, <2>5 DEF Channels
<1> HIDE DEF used, first, many, chan, row_
<1>7. ASSUME NEW d \in Deliveries
      PROVE  \/ d \notin first + 1 .. first + many /\ deliveries'[d] = deliveries[d]
             \/ /\ d \in first + 1 .. first + many /\ deliveries[d].status = "none"
                /\ chan(d) \in Channels
                /\ deliveries'[d] = [channel |-> chan(d), status |-> "pending", attempts |-> 0, wait |-> 0]
  BY <1>1, <1>6
<1>8. deliveries' \in [Deliveries -> DeliveryType]
  <2>1. ASSUME NEW d \in Deliveries PROVE deliveries'[d] \in DeliveryType
    <3>1. CASE deliveries'[d] = deliveries[d]
      BY <3>1 DEF DispatchInv, DispatchTypes
    <3>2. CASE chan(d) \in Channels /\ deliveries'[d] = [channel |-> chan(d), status |-> "pending", attempts |-> 0, wait |-> 0]
      BY <3>2, AlertDispatchAssumption DEF DeliveryType, Statuses
    <3> QED BY <1>7, <3>1, <3>2
  <2>2. DOMAIN deliveries' = Deliveries /\ deliveries' = [d \in Deliveries |-> deliveries'[d]]
    BY <1>1
  <2> QED BY <2>1, <2>2
<1>9. DispatchTypes' /\ DispatchTypeOK'
  BY <1>1, <1>8 DEF DispatchInv, DispatchTypes, DispatchTypeOK, DeliveryType, ChannelType
<1>10. IdsAreFilled'
  <2>1. n + many \in 0 .. NumDeliveries
    BY <1>1, <1>2, <1>4, <1>5
  <2>2. ASSUME NEW d \in Deliveries PROVE Queued_(d)' <=> d <= n + many
    <3>1. d \in Int /\ d >= 1 /\ n \in Nat /\ many \in Nat
      BY <1>2, <1>5 DEF Deliveries
    <3>2. deliveries[d].status # "none" <=> d <= n
      BY <1>3 DEF Queued_
    <3>3. CASE d \in first + 1 .. first + many
      <4>1. deliveries'[d].status = "pending" /\ d <= n + many
        <5>1. deliveries'[d] = [channel |-> chan(d), status |-> "pending", attempts |-> 0, wait |-> 0]
          BY <1>7, <3>3
        <5>2. d \in n + 1 .. n + many
          BY <1>4, <3>3
        <5> QED BY <3>1, <5>1, <5>2
      <4> QED BY <4>1 DEF Queued_
    <3>4. CASE d \notin first + 1 .. first + many
      <4>1. deliveries'[d] = deliveries[d] /\ (d <= n \/ ~(d <= n + many)) /\ (d <= n => d <= n + many)
        <5>1. deliveries'[d] = deliveries[d]
          BY <1>7, <3>4
        <5>2. d \notin n + 1 .. n + many
          BY <1>4, <3>4
        <5> QED BY <3>1, <5>1, <5>2
      <4> QED BY <3>2, <4>1 DEF Queued_
    <3> QED BY <3>3, <3>4
  <2> QED BY <2>1, <2>2 DEF IdsAreFilled
<1>11. ASSUME NEW d \in Deliveries, d \notin first + 1 .. first + many PROVE CopiesFit(d)' /\ SendsFit(d)'
  BY <1>1, <1>7, <1>11 DEF DispatchInv, CopiesFit, SendsFit, Queued_, Ahead, InFlight
<1>12. ASSUME NEW d \in Deliveries, d \in first + 1 .. first + many PROVE CopiesFit(d)' /\ SendsFit(d)'
  <2>1. d \notin dispatch.due /\ d \notin dispatch.todo /\ copies[d] = 0
    BY <1>7, <1>12 DEF DispatchInv, CopiesFit, RunIsInOrder, Queued_
  <2>2. deliveries'[d].status = "pending" /\ deliveries'[d].attempts = 0
    <3>1. deliveries'[d] = [channel |-> chan(d), status |-> "pending", attempts |-> 0, wait |-> 0]
      BY <1>7, <1>12
    <3> QED BY <3>1
  <2>3. sends[d] \in Nat /\ Attempts > 0
    BY AlertDispatchAssumption DEF DispatchInv, DispatchTypes
  <2> QED BY <1>1, <2>1, <2>2, <2>3 DEF CopiesFit, SendsFit, Queued_, Ahead, InFlight
<1>13. RunIsInOrder'
  <2>1. ASSUME NEW d \in dispatch.todo PROVE deliveries'[d].channel = dispatch.channel
    <3>1. d \in Deliveries /\ d \in dispatch.due /\ deliveries[d].channel = dispatch.channel
      BY DEF DispatchInv, RunIsInOrder, DispatchTypes, DispatchType
    <3>2. deliveries[d].status # "none"
      BY <3>1 DEF DispatchInv, CopiesFit, Queued_
    <3> QED BY <1>7, <3>1, <3>2
  <2> QED BY <1>1, <2>1 DEF DispatchInv, RunIsInOrder
<1> QED BY <1>9, <1>10, <1>11, <1>12, <1>13 DEF DispatchInv

\* No step but a new alert queues or drops rows.
LEMMA IdsStayFilled ==
    ASSUME IdsAreFilled, \A d \in Deliveries : Queued_(d)' <=> Queued_(d)
    PROVE  IdsAreFilled'
BY DEF IdsAreFilled

LEMMA MarkedDeliveries ==
    ASSUME deliveries \in [Deliveries -> DeliveryType], NEW these \in SUBSET Deliveries, NEW status \in Statuses,
           NEW add \in 0 .. 1, NEW wait \in Int, deliveries' = Marked(these, status, add, wait),
           \A d \in these : deliveries[d].status # "deleted" => deliveries[d].attempts + add <= Attempts
    PROVE  /\ deliveries' \in [Deliveries -> DeliveryType]
           /\ \A d \in Deliveries :
                \/ (d \notin these \/ deliveries[d].status = "deleted") /\ deliveries'[d] = deliveries[d]
                \/ /\ d \in these /\ deliveries[d].status # "deleted" /\ deliveries'[d].channel = deliveries[d].channel
                   /\ deliveries'[d].status = status /\ deliveries'[d].attempts = deliveries[d].attempts + add
<1> DEFINE new(d) == [deliveries[d] EXCEPT !.status = status, !.attempts = @ + add, !.wait = wait]
<1>1. ASSUME NEW d \in Deliveries
      PROVE  deliveries'[d] = IF d \notin these \/ deliveries[d].status = "deleted" THEN deliveries[d] ELSE new(d)
  BY DEF Marked
<1>2. ASSUME NEW d \in Deliveries
      PROVE  new(d) = [channel |-> deliveries[d].channel, status |-> status,
                       attempts |-> deliveries[d].attempts + add, wait |-> wait]
  <2>1. deliveries[d] \in DeliveryType
    OBVIOUS
  <2> DEFINE r0 == deliveries[d]
             r1 == [channel |-> r0.channel, status |-> status, attempts |-> r0.attempts, wait |-> r0.wait]
             r2 == [channel |-> r0.channel, status |-> status, attempts |-> r0.attempts + add, wait |-> r0.wait]
  <2>2. [r0 EXCEPT !.status = status] = r1
    <3> HIDE DEF r0
    <3>1. r0 \in DeliveryType
      BY <2>1 DEF r0
    <3> QED BY <3>1 DEF DeliveryType
  <2>3. [r1 EXCEPT !.attempts = @ + add] = r2
    OBVIOUS
  <2>4. [r2 EXCEPT !.wait = wait] = [channel |-> r0.channel, status |-> status, attempts |-> r0.attempts + add, wait |-> wait]
    OBVIOUS
  <2>5. [[[r0 EXCEPT !.status = status] EXCEPT !.attempts = @ + add] EXCEPT !.wait = wait]
          = [channel |-> r0.channel, status |-> status, attempts |-> r0.attempts + add, wait |-> wait]
    <3> HIDE DEF r1, r2
    <3> QED BY <2>2, <2>3, <2>4
  <2> QED BY <2>5
<1> HIDE DEF new
<1>3. ASSUME NEW d \in Deliveries, d \in these, deliveries[d].status # "deleted" PROVE new(d) \in DeliveryType
  <2>1. deliveries[d].channel \in Channels /\ deliveries[d].attempts \in 0 .. Attempts
    BY DEF DeliveryType
  <2>2. deliveries[d].attempts + add \in 0 .. Attempts
    BY <1>3, <2>1, AlertDispatchAssumption
  <2> QED BY <1>2, <2>1, <2>2 DEF DeliveryType
<1>4. deliveries' = [d \in Deliveries |-> deliveries'[d]]
  BY DEF Marked
<1>5. \A d \in Deliveries : deliveries'[d] \in DeliveryType
  BY <1>1, <1>3
<1>6. deliveries' \in [Deliveries -> DeliveryType]
  BY <1>4, <1>5
<1> QED BY <1>1, <1>2, <1>6

LEMMA ItemsAreLeft ==
    ASSUME DispatchInv, NEW c \in Channels, AtChannel(c)
    PROVE  /\ Items(c) \in SUBSET Deliveries
           /\ \A d \in Items(c) : Ahead(d) /\ deliveries[d].status \in {"pending", "deleted"} /\ copies[d] = 0
<1>1. Items(c) \in SUBSET Deliveries
  BY DEF Items, DispatchInv, DispatchTypes, DispatchType
<1>2. c \in dispatch.left /\ dispatch.channel = 0 /\ c # 0
  BY AtChannelIsLeft DEF Channels
<1>3. ASSUME NEW d \in Items(c) PROVE Ahead(d)
  BY <1>2 DEF Items, Ahead
<1> QED BY <1>1, <1>3 DEF DispatchInv, CopiesFit

LEMMA NextChannelType ==
    ASSUME DispatchInv, NEW c, dispatch' = NextChannel(c)
    PROVE  /\ dispatch' \in DispatchType
           /\ dispatch'.step = "channel" /\ dispatch'.channel = 0 /\ dispatch'.todo = {} /\ dispatch'.due = dispatch.due
           /\ dispatch'.left = dispatch.left \ {c} /\ dispatch'.enabled = dispatch.enabled
<1>1. dispatch \in DispatchType
  BY DEF DispatchInv, DispatchTypes
<1>2. 0 \in 0 .. NumChannels
  BY AlertDispatchAssumption
<1>3. dispatch' = [dispatch EXCEPT !.step = "channel", !.left = @ \ {c}, !.channel = 0, !.todo = {}]
  BY DEF NextChannel
<1>4. dispatch' = [step |-> "channel", due |-> dispatch.due, enabled |-> dispatch.enabled, left |-> dispatch.left \ {c},
                   channel |-> 0, ok |-> dispatch.ok, todo |-> {}, ran |-> dispatch.ran]
  BY <1>1, <1>3 DEF DispatchType
<1> QED BY <1>1, <1>2, <1>4 DEF DispatchType

LEMMA ToggleKeeps == ASSUME NEW c \in Channels PROVE DispatchInv /\ ToggleChannel(c) => DispatchInv'
<1> SUFFICES ASSUME DispatchInv, ToggleChannel(c) PROVE DispatchInv'
  OBVIOUS
<1>1. /\ UNCHANGED <<deliveries, channelState, dispatch, mishaps, sends, copies>>
      /\ everOff' = everOff \cup {c} /\ enabled' \subseteq Channels
      /\ Channels \ enabled' \subseteq everOff' /\ toggles' \in 0 .. MaxToggles
  BY AlertDispatchAssumption DEF ToggleChannel, DispatchInv, DispatchTypes, RunIsInOrder, DispatchTypeOK
<1>2. DispatchTypeOK' /\ DispatchTypes'
  BY <1>1 DEF DispatchInv, DispatchTypeOK, DispatchTypes
<1>3. IdsAreFilled'
  BY <1>1, IdsStayFilled DEF Queued_, DispatchInv
<1>4. RunIsInOrder'
  BY <1>1 DEF DispatchInv, RunIsInOrder
<1>5. ASSUME NEW d \in Deliveries PROVE CopiesFit(d)' /\ SendsFit(d)'
  BY <1>1 DEF DispatchInv, CopiesFit, SendsFit, Queued_, Ahead, InFlight
<1> QED BY <1>2, <1>3, <1>4, <1>5 DEF DispatchInv

LEMMA DeleteKeeps == ASSUME NEW e \in Deliveries PROVE DispatchInv /\ DeleteDelivery(e) => DispatchInv'
<1> SUFFICES ASSUME DispatchInv, DeleteDelivery(e) PROVE DispatchInv'
  OBVIOUS
<1>1. /\ UNCHANGED <<channelState, enabled, dispatch, mishaps, toggles, everOff, sends, copies>>
      /\ deliveries[e].status = "pending" /\ deliveries' = [deliveries EXCEPT ![e].status = "deleted"]
      /\ deliveries \in [Deliveries -> DeliveryType]
  BY DEF DeleteDelivery, dispatchHistory, DispatchInv, DispatchTypes
<1>2. ASSUME NEW d \in Deliveries
      PROVE  \/ d # e /\ deliveries'[d] = deliveries[d]
             \/ /\ d = e /\ deliveries'[d].status = "deleted" /\ deliveries'[d].channel = deliveries[d].channel
                /\ deliveries'[d] \in DeliveryType
  <2>1. deliveries[d] \in DeliveryType
    BY <1>1
  <2> QED BY <1>1, <2>1 DEF DeliveryType, Statuses
<1>3. deliveries' \in [Deliveries -> DeliveryType]
  <2>1. \A d \in Deliveries : deliveries'[d] \in DeliveryType
    BY <1>1, <1>2
  <2>2. deliveries' = [d \in Deliveries |-> deliveries'[d]]
    BY <1>1
  <2> QED BY <2>1, <2>2
<1>4. DispatchTypeOK' /\ DispatchTypes'
  BY <1>1, <1>3 DEF DispatchInv, DispatchTypeOK, DispatchTypes, DeliveryType, ChannelType
<1>5. IdsAreFilled'
  BY <1>1, <1>2, IdsStayFilled DEF Queued_, DispatchInv
<1>6. RunIsInOrder'
  <2>1. ASSUME NEW d \in dispatch.todo PROVE deliveries'[d].channel = dispatch.channel
    BY <1>2 DEF DispatchInv, RunIsInOrder, DispatchTypes, DispatchType
  <2> QED BY <1>1, <2>1 DEF DispatchInv, RunIsInOrder
<1>7. ASSUME NEW d \in Deliveries PROVE CopiesFit(d)' /\ SendsFit(d)'
  <2>1. CASE d # e
    BY <1>1, <1>2, <2>1 DEF DispatchInv, CopiesFit, SendsFit, Queued_, Ahead, InFlight
  <2>2. CASE d = e
    BY <1>1, <1>2, <2>2 DEF DispatchInv, CopiesFit, SendsFit, Queued_, Ahead, InFlight
  <2> QED BY <2>1, <2>2
<1> QED BY <1>4, <1>5, <1>6, <1>7 DEF DispatchInv

LEMMA TickKeeps == DispatchInv /\ DispatchTick => DispatchInv'
<1> SUFFICES ASSUME DispatchInv, DispatchTick PROVE DispatchInv'
  OBVIOUS
<1> DEFINE wait(d) == IF deliveries[d].status = "pending" /\ deliveries[d].wait > -MaxLate
                      THEN deliveries[d].wait - 1 ELSE deliveries[d].wait
           rest(c) == IF channelState[c].rest = 0 THEN 0 ELSE channelState[c].rest - 1
<1>1. /\ UNCHANGED <<enabled, mishaps, toggles, everOff, sends, copies>> /\ dispatch.step = "idle"
      /\ deliveries' = [d \in Deliveries |-> [deliveries[d] EXCEPT !.wait = wait(d)]]
      /\ channelState' = [c \in Channels |-> [channelState[c] EXCEPT !.rest = rest(c)]]
      /\ dispatch' = IdleDispatch
      /\ deliveries \in [Deliveries -> DeliveryType] /\ channelState \in [Channels -> ChannelType]
  BY DEF DispatchTick, dispatchHistory, DispatchInv, DispatchTypes
<1>2. ASSUME NEW d \in Deliveries
      PROVE  /\ deliveries'[d] \in DeliveryType
             /\ deliveries'[d].status = deliveries[d].status /\ deliveries'[d].channel = deliveries[d].channel
             /\ deliveries'[d].attempts = deliveries[d].attempts
  <2>1. deliveries[d] \in DeliveryType
    BY <1>1
  <2>2. wait(d) \in Int
    BY <2>1, AlertDispatchAssumption DEF DeliveryType
  <2> HIDE DEF wait
  <2> QED BY <1>1, <2>1, <2>2 DEF DeliveryType
<1>3. ASSUME NEW c \in Channels PROVE channelState'[c] \in ChannelType
  <2>1. channelState[c] \in ChannelType
    BY <1>1
  <2>2. rest(c) \in 0 .. ChannelRest
    BY <2>1, AlertDispatchAssumption DEF ChannelType
  <2> HIDE DEF rest
  <2> QED BY <1>1, <2>1, <2>2 DEF ChannelType
<1>4. deliveries' \in [Deliveries -> DeliveryType] /\ channelState' \in [Channels -> ChannelType]
  <2> HIDE DEF wait, rest
  <2>1. deliveries' = [d \in Deliveries |-> deliveries'[d]] /\ channelState' = [c \in Channels |-> channelState'[c]]
    BY <1>1
  <2> QED BY <1>2, <1>3, <2>1
<1> HIDE DEF wait, rest
<1>5. dispatch' \in DispatchType
  BY <1>1, AlertDispatchAssumption DEF IdleDispatch, DispatchType
<1>6. DispatchTypeOK' /\ DispatchTypes'
  BY <1>1, <1>4, <1>5 DEF DispatchInv, DispatchTypeOK, DispatchTypes, DeliveryType, ChannelType, DispatchType, IdleDispatch
<1>7. IdsAreFilled'
  BY <1>2, IdsStayFilled DEF Queued_, DispatchInv
<1>8. RunIsInOrder'
  BY <1>1 DEF DispatchInv, RunIsInOrder, IdleDispatch
<1>9. ASSUME NEW d \in Deliveries PROVE CopiesFit(d)' /\ SendsFit(d)'
  <2>1. ~Ahead(d) /\ ~InFlight(d) /\ d \notin dispatch.due /\ ~Ahead(d)' /\ ~InFlight(d)' /\ d \notin dispatch'.due
    BY <1>1 DEF DispatchInv, RunIsInOrder, Ahead, InFlight, IdleDispatch
  <2>2. CopiesFit(d) /\ SendsFit(d)
    BY DEF DispatchInv
  <2>3. CopiesFit(d)'
    BY <1>1, <1>2, <2>1, <2>2 DEF CopiesFit, Queued_
  <2>4. sends'[d] = sends[d] /\ everOff' = everOff
    BY <1>1
  <2>5. SendsFit(d)'
    BY <1>2, <2>1, <2>2, <2>4 DEF SendsFit
  <2> QED BY <2>3, <2>5
<1> QED BY <1>6, <1>7, <1>8, <1>9 DEF DispatchInv

LEMMA RunKeeps == DispatchInv /\ RunDispatch => DispatchInv'
<1> SUFFICES ASSUME DispatchInv, RunDispatch PROVE DispatchInv'
  OBVIOUS
<1> DEFINE chans == {deliveries[d].channel : d \in DueDeliveries}
<1>1. /\ UNCHANGED <<deliveries, channelState, enabled, mishaps, toggles, everOff, sends, copies>> /\ dispatch.step = "idle"
      /\ dispatch' = [step |-> "channel", due |-> DueDeliveries, enabled |-> enabled, left |-> chans,
                      channel |-> 0, ok |-> FALSE, todo |-> {}, ran |-> TRUE]
  BY DEF RunDispatch, dispatchHistory, IdleDispatch
<1>2. \A d \in DueDeliveries : d \in Deliveries /\ deliveries[d].status = "pending"
  BY DEF DueDeliveries
<1>3. chans \subseteq Channels
  BY <1>2 DEF DispatchInv, DispatchTypes, DeliveryType
<1> HIDE DEF chans
<1>4. dispatch' \in DispatchType
  BY <1>1, <1>2, <1>3, AlertDispatchAssumption DEF DispatchType, DispatchInv, DispatchTypes
<1>5. DispatchTypeOK' /\ DispatchTypes'
  BY <1>1, <1>2, <1>3, <1>4 DEF DispatchInv, DispatchTypeOK, DispatchTypes
<1>6. IdsAreFilled' /\ RunIsInOrder'
  BY <1>1, IdsStayFilled DEF Queued_, DispatchInv, RunIsInOrder
<1>7. ASSUME NEW d \in Deliveries PROVE CopiesFit(d)' /\ SendsFit(d)'
  BY <1>1, <1>2 DEF DispatchInv, CopiesFit, SendsFit, Queued_, Ahead, InFlight
<1> QED BY <1>5, <1>6, <1>7 DEF DispatchInv

LEMMA DisabledKeeps == ASSUME NEW c \in Channels PROVE DispatchInv /\ ChannelDisabled(c) => DispatchInv'
<1> SUFFICES ASSUME DispatchInv, ChannelDisabled(c) PROVE DispatchInv'
  OBVIOUS
<1>1. /\ UNCHANGED <<channelState, enabled, mishaps, toggles, everOff, sends, copies>> /\ AtChannel(c)
      /\ c \notin dispatch.enabled /\ deliveries' = Marked(Items(c), "failed", 0, 0) /\ dispatch' = NextChannel(c)
      /\ deliveries \in [Deliveries -> DeliveryType]
  BY DEF ChannelDisabled, dispatchHistory, DispatchInv, DispatchTypes
<1>2. /\ Items(c) \in SUBSET Deliveries
      /\ \A d \in Items(c) : Ahead(d) /\ deliveries[d].status \in {"pending", "deleted"} /\ copies[d] = 0
  BY <1>1, ItemsAreLeft
<1>3. /\ deliveries' \in [Deliveries -> DeliveryType]
      /\ \A d \in Deliveries :
           \/ (d \notin Items(c) \/ deliveries[d].status = "deleted") /\ deliveries'[d] = deliveries[d]
           \/ /\ d \in Items(c) /\ deliveries[d].status # "deleted" /\ deliveries'[d].channel = deliveries[d].channel
              /\ deliveries'[d].status = "failed" /\ deliveries'[d].attempts = deliveries[d].attempts + 0
  <2>1. \A d \in Items(c) : deliveries[d].attempts + 0 <= Attempts
    BY <1>1, <1>2 DEF DeliveryType
  <2>2. "failed" \in Statuses /\ 0 \in 0 .. 1 /\ 0 \in Int
    BY DEF Statuses
  <2>3. deliveries' = Marked(Items(c), "failed", 0, 0)
    BY <1>1
  <2> QED BY <1>1, <1>2, <2>1, <2>2, <2>3, MarkedDeliveries
<1>4. c \in everOff
  BY <1>1 DEF DispatchInv, RunIsInOrder, AtChannel
<1>5. /\ dispatch' \in DispatchType
      /\ dispatch'.step = "channel" /\ dispatch'.channel = 0 /\ dispatch'.todo = {} /\ dispatch'.due = dispatch.due
      /\ dispatch'.left = dispatch.left \ {c} /\ dispatch'.enabled = dispatch.enabled
  BY <1>1, NextChannelType
<1>6. dispatch.step = "channel" /\ dispatch.channel = 0 /\ dispatch.todo = {}
  BY <1>1, AtChannelIsLeft
<1>7. DispatchTypeOK' /\ DispatchTypes'
  BY <1>1, <1>3, <1>5 DEF DispatchInv, DispatchTypeOK, DispatchTypes, DeliveryType, ChannelType, DispatchType
<1>8. IdsAreFilled'
  <2>1. \A d \in Deliveries : Queued_(d)' <=> Queued_(d)
    BY <1>2, <1>3 DEF Queued_
  <2> QED BY <2>1, IdsStayFilled DEF DispatchInv
<1>9. RunIsInOrder'
  BY <1>1, <1>5, <1>6 DEF DispatchInv, RunIsInOrder
<1>10. ASSUME NEW d \in Deliveries, d \notin Items(c) \/ deliveries[d].status = "deleted" PROVE CopiesFit(d)' /\ SendsFit(d)'
  <2>1. deliveries'[d] = deliveries[d]
    BY <1>3, <1>10
  <2>2. (Ahead(d)' => Ahead(d)) /\ ~InFlight(d) /\ ~InFlight(d)'
    BY <1>5, <1>6, <2>1 DEF Ahead, InFlight
  <2>3. CopiesFit(d) /\ SendsFit(d)
    BY DEF DispatchInv
  <2> QED BY <1>1, <1>5, <2>1, <2>2, <2>3 DEF CopiesFit, SendsFit, Queued_
<1>11. ASSUME NEW d \in Items(c), deliveries[d].status # "deleted" PROVE CopiesFit(d)' /\ SendsFit(d)'
  <2>1. d \in Deliveries /\ deliveries'[d].status = "failed" /\ deliveries'[d].channel = c
    BY <1>2, <1>3, <1>11 DEF Items
  <2>2. ~Ahead(d)' /\ ~InFlight(d)'
    BY <1>5, <2>1 DEF Ahead, InFlight
  <2> QED BY <1>1, <1>4, <2>1, <2>2 DEF CopiesFit, SendsFit, Queued_
<1>12. \A d \in Deliveries : CopiesFit(d)' /\ SendsFit(d)'
  BY <1>2, <1>10, <1>11
<1> QED BY <1>7, <1>8, <1>9, <1>12 DEF DispatchInv

LEMMA RestingKeeps == ASSUME NEW c \in Channels PROVE DispatchInv /\ ChannelResting(c) => DispatchInv'
<1> SUFFICES ASSUME DispatchInv, ChannelResting(c) PROVE DispatchInv'
  OBVIOUS
<1>1. /\ UNCHANGED <<deliveries, channelState, enabled, mishaps, toggles, everOff, sends, copies>> /\ AtChannel(c)
      /\ dispatch' = NextChannel(c)
  BY DEF ChannelResting, dispatchHistory
<1>2. /\ dispatch' \in DispatchType
      /\ dispatch'.step = "channel" /\ dispatch'.channel = 0 /\ dispatch'.todo = {} /\ dispatch'.due = dispatch.due
      /\ dispatch'.left = dispatch.left \ {c} /\ dispatch'.enabled = dispatch.enabled
  BY <1>1, NextChannelType
<1>3. dispatch.step = "channel" /\ dispatch.channel = 0 /\ dispatch.todo = {}
  BY <1>1, AtChannelIsLeft
<1>4. DispatchTypeOK' /\ DispatchTypes'
  BY <1>1, <1>2 DEF DispatchInv, DispatchTypeOK, DispatchTypes, DispatchType
<1>5. IdsAreFilled' /\ RunIsInOrder'
  BY <1>1, <1>2, <1>3, IdsStayFilled DEF Queued_, DispatchInv, RunIsInOrder
<1>6. ASSUME NEW d \in Deliveries PROVE CopiesFit(d)' /\ SendsFit(d)'
  <2>1. (Ahead(d)' => Ahead(d)) /\ ~InFlight(d) /\ ~InFlight(d)'
    BY <1>1, <1>2, <1>3 DEF Ahead, InFlight
  <2>2. CopiesFit(d) /\ SendsFit(d)
    BY DEF DispatchInv
  <2> QED BY <1>1, <1>2, <2>1, <2>2 DEF CopiesFit, SendsFit, Queued_
<1> QED BY <1>4, <1>5, <1>6 DEF DispatchInv

LEMMA SendKeeps ==
    ASSUME NEW c \in Channels, NEW taken \in BOOLEAN, NEW ok \in BOOLEAN
    PROVE  DispatchInv /\ Send(c, taken, ok) => DispatchInv'
<1> SUFFICES ASSUME DispatchInv, Send(c, taken, ok) PROVE DispatchInv'
  OBVIOUS
<1>1. /\ UNCHANGED <<deliveries, channelState, enabled, toggles, everOff>> /\ AtChannel(c)
      /\ mishaps' \in 0 .. MaxMishaps
      /\ dispatch' = [dispatch EXCEPT !.step = "answered", !.channel = c, !.ok = ok, !.todo = Items(c)]
      /\ sends' = [d \in Deliveries |-> IF d \in Items(c) /\ sends[d] < Attempts THEN sends[d] + 1 ELSE sends[d]]
      /\ copies' = [d \in Deliveries |-> IF d \in Items(c) /\ ok THEN copies[d] + 1 ELSE copies[d]]
      /\ dispatch \in DispatchType /\ sends \in [Deliveries -> 0 .. Attempts] /\ copies \in [Deliveries -> 0 .. 1]
  BY AlertDispatchAssumption DEF Send, Mishap, DispatchInv, DispatchTypes, DispatchTypeOK
<1>2. /\ Items(c) \in SUBSET Deliveries /\ Items(c) \subseteq dispatch.due
      /\ \A d \in Items(c) : Ahead(d) /\ deliveries[d].status \in {"pending", "deleted"} /\ copies[d] = 0
                             /\ deliveries[d].channel = c
  BY <1>1, ItemsAreLeft DEF Items
<1>3. c \in dispatch.left /\ dispatch.step = "channel" /\ dispatch.channel = 0 /\ dispatch.todo = {}
  BY <1>1, AtChannelIsLeft
<1>4. dispatch' = [step |-> "answered", due |-> dispatch.due, enabled |-> dispatch.enabled, left |-> dispatch.left,
                   channel |-> c, ok |-> ok, todo |-> Items(c), ran |-> dispatch.ran]
  <2> DEFINE r1 == [step |-> "answered", due |-> dispatch.due, enabled |-> dispatch.enabled, left |-> dispatch.left,
                    channel |-> dispatch.channel, ok |-> dispatch.ok, todo |-> dispatch.todo, ran |-> dispatch.ran]
             r2 == [r1 EXCEPT !.channel = c, !.ok = ok]
  <2>1. [dispatch EXCEPT !.step = "answered"] = r1
    BY <1>1 DEF DispatchType
  <2>2. r2 = [step |-> "answered", due |-> dispatch.due, enabled |-> dispatch.enabled, left |-> dispatch.left,
              channel |-> c, ok |-> ok, todo |-> dispatch.todo, ran |-> dispatch.ran]
    <3> DEFINE r3 == [step |-> "answered", due |-> dispatch.due, enabled |-> dispatch.enabled, left |-> dispatch.left,
                      channel |-> c, ok |-> dispatch.ok, todo |-> dispatch.todo, ran |-> dispatch.ran]
    <3>1. [r1 EXCEPT !.channel = c] = r3
      OBVIOUS
    <3>2. [r3 EXCEPT !.ok = ok]
            = [step |-> "answered", due |-> dispatch.due, enabled |-> dispatch.enabled, left |-> dispatch.left,
               channel |-> c, ok |-> ok, todo |-> dispatch.todo, ran |-> dispatch.ran]
      OBVIOUS
    <3> HIDE DEF r1, r3
    <3> QED BY <3>1, <3>2
  <2>3. [r2 EXCEPT !.todo = Items(c)]
          = [step |-> "answered", due |-> dispatch.due, enabled |-> dispatch.enabled, left |-> dispatch.left,
             channel |-> c, ok |-> ok, todo |-> Items(c), ran |-> dispatch.ran]
    <3> HIDE DEF r1, r2
    <3> QED BY <2>2
  <2>4. dispatch' = [r2 EXCEPT !.todo = Items(c)]
    <3>1. dispatch' = [[[[dispatch EXCEPT !.step = "answered"] EXCEPT !.channel = c] EXCEPT !.ok = ok] EXCEPT !.todo = Items(c)]
      BY <1>1
    <3> HIDE DEF r1
    <3> QED BY <2>1, <3>1
  <2> QED BY <2>3, <2>4
<1>5. dispatch' \in DispatchType
  BY <1>1, <1>2, <1>4 DEF DispatchType, Channels
<1>6. sends' \in [Deliveries -> 0 .. Attempts] /\ copies' \in [Deliveries -> 0 .. 1]
  <2>1. ASSUME NEW d \in Deliveries
        PROVE  /\ (IF d \in Items(c) /\ sends[d] < Attempts THEN sends[d] + 1 ELSE sends[d]) \in 0 .. Attempts
               /\ (IF d \in Items(c) /\ ok THEN copies[d] + 1 ELSE copies[d]) \in 0 .. 1
    <3>1. sends[d] \in 0 .. Attempts /\ copies[d] \in 0 .. 1 /\ Attempts \in Nat
      BY <1>1, AlertDispatchAssumption
    <3>2. (IF d \in Items(c) /\ ok THEN copies[d] + 1 ELSE copies[d]) \in 0 .. 1
      BY <1>2, <3>1
    <3> QED BY <3>1, <3>2
  <2> QED BY <1>1, <2>1
<1>7. DispatchTypeOK' /\ DispatchTypes'
  <2>1. dispatch'.step = "answered" /\ dispatch'.todo = Items(c) /\ dispatch'.due = dispatch.due /\ dispatch'.left = dispatch.left
    BY <1>4
  <2> QED BY <1>1, <1>2, <1>5, <1>6, <2>1 DEF DispatchInv, DispatchTypeOK, DispatchTypes, DispatchType
<1>8. IdsAreFilled'
  BY <1>1, IdsStayFilled DEF Queued_, DispatchInv
<1>9. RunIsInOrder'
  <2>1. c # 0
    BY DEF Channels
  <2> QED BY <1>1, <1>2, <1>3, <1>4, <2>1 DEF DispatchInv, RunIsInOrder
<1>10. ASSUME NEW d \in Deliveries, d \notin Items(c) PROVE CopiesFit(d)' /\ SendsFit(d)'
  <2>1. sends'[d] = sends[d] /\ copies'[d] = copies[d] /\ deliveries'[d] = deliveries[d]
    BY <1>1, <1>10
  <2>2. (Ahead(d)' => Ahead(d)) /\ ~InFlight(d) /\ ~InFlight(d)' /\ dispatch'.due = dispatch.due
    <3>1. /\ dispatch'.step = "answered" /\ dispatch'.channel = c /\ dispatch'.todo = Items(c)
          /\ dispatch'.due = dispatch.due /\ dispatch'.left = dispatch.left
      BY <1>4
    <3>2. ~InFlight(d) /\ ~InFlight(d)'
      BY <1>3, <1>10, <3>1 DEF InFlight
    <3>3. c # 0 /\ 0 \notin Channels /\ dispatch.left \subseteq Channels
      BY <1>1 DEF Channels, DispatchType
    <3>4. Ahead(d)' => Ahead(d)
      BY <1>3, <2>1, <3>1, <3>3 DEF Ahead
    <3> QED BY <3>1, <3>2, <3>4
  <2>3. CopiesFit(d) /\ SendsFit(d)
    BY DEF DispatchInv
  <2> QED BY <1>1, <2>1, <2>2, <2>3 DEF CopiesFit, SendsFit, Queued_
<1>11. ASSUME NEW d \in Items(c) PROVE CopiesFit(d)' /\ SendsFit(d)'
  <2>1. d \in Deliveries /\ deliveries[d].status \in {"pending", "deleted"} /\ deliveries[d].channel = c /\ copies[d] = 0
    BY <1>2
  <2>2. ~Ahead(d)' /\ InFlight(d)' /\ dispatch'.ok = ok /\ Queued_(d)'
    BY <1>1, <1>4, <2>1 DEF Ahead, InFlight, Queued_
  <2>3. copies'[d] = IF ok THEN 1 ELSE 0
    BY <1>1, <2>1
  <2>4. CopiesFit(d)'
    BY <1>1, <2>1, <2>2, <2>3 DEF CopiesFit
  <2>5. SendsFit(d) /\ deliveries[d].attempts \in Nat /\ sends[d] \in Nat /\ Attempts \in Nat
    BY <1>1, <2>1, AlertDispatchAssumption DEF DispatchInv, DispatchTypes, DeliveryType
  <2>6. sends'[d] = IF sends[d] < Attempts THEN sends[d] + 1 ELSE sends[d]
    BY <1>1, <2>1
  <2>7. deliveries[d].status = "pending" => deliveries[d].attempts + 1 <= sends'[d] /\ deliveries[d].attempts <= sends'[d]
    BY <2>5, <2>6 DEF SendsFit
  <2> QED BY <1>1, <2>1, <2>4, <2>5, <2>7 DEF SendsFit
<1>12. \A d \in Deliveries : CopiesFit(d)' /\ SendsFit(d)'
  BY <1>10, <1>11
<1> QED BY <1>7, <1>8, <1>9, <1>12 DEF DispatchInv

\* A record marks deliveries in hand, and what is marked leaves the hand.
RecordStep(these, status, wait) ==
    /\ dispatch.step = "answered" /\ deliveries' = Marked(these, status, 1, wait)
    /\ UNCHANGED <<channelState, enabled, mishaps, toggles, everOff, sends, copies>>
    /\ dispatch' \in DispatchType /\ dispatch'.step \in {"answered", "state"} /\ dispatch'.todo = dispatch.todo \ these
    /\ dispatch'.step = "state" => dispatch'.todo = {}
    /\ dispatch'.due = dispatch.due /\ dispatch'.left = dispatch.left /\ dispatch'.channel = dispatch.channel
    /\ dispatch'.ok = dispatch.ok /\ dispatch'.enabled = dispatch.enabled
    /\ status = "sent" <=> dispatch.ok
    /\ status = "pending" => \A d \in these : deliveries[d].attempts + 1 < Attempts
    /\ status = "failed" => \A d \in these : deliveries[d].attempts + 1 >= Attempts

LEMMA RecordKeeps ==
    ASSUME DispatchInv, NEW these \in SUBSET dispatch.todo, NEW status \in {"sent", "pending", "failed"}, NEW wait \in Int,
           RecordStep(these, status, wait)
    PROVE  DispatchInv'
<1>1. /\ deliveries \in [Deliveries -> DeliveryType] /\ these \in SUBSET Deliveries /\ these \subseteq dispatch.due
      /\ \A d \in these : InFlight(d) /\ deliveries[d].status \in {"pending", "deleted"}
                            /\ deliveries[d].channel = dispatch.channel
  BY DEF RecordStep, DispatchInv, DispatchTypes, DispatchType, RunIsInOrder, InFlight, CopiesFit
<1>2. Attempts \in Nat /\ sends \in [Deliveries -> 0 .. Attempts]
  BY AlertDispatchAssumption DEF DispatchInv, DispatchTypes
<1>3. ASSUME NEW d \in these, deliveries[d].status # "deleted"
      PROVE  /\ deliveries[d].status = "pending" /\ deliveries[d].attempts \in Nat
             /\ deliveries[d].attempts + 1 <= Attempts /\ deliveries[d].attempts + 1 <= sends[d]
  <2>1. deliveries[d].status = "pending" /\ SendsFit(d) /\ InFlight(d) /\ deliveries[d].attempts \in Nat
    BY <1>1, <1>3 DEF DispatchInv, DeliveryType
  <2> QED BY <1>2, <2>1 DEF SendsFit
<1>4. /\ deliveries' \in [Deliveries -> DeliveryType]
      /\ \A d \in Deliveries :
           \/ (d \notin these \/ deliveries[d].status = "deleted") /\ deliveries'[d] = deliveries[d]
           \/ /\ d \in these /\ deliveries[d].status # "deleted" /\ deliveries'[d].channel = deliveries[d].channel
              /\ deliveries'[d].status = status /\ deliveries'[d].attempts = deliveries[d].attempts + 1
  <2>1. status \in Statuses /\ 1 \in 0 .. 1
    BY DEF Statuses
  <2>2. \A d \in these : deliveries[d].status # "deleted" => deliveries[d].attempts + 1 <= Attempts
    BY <1>3
  <2>3. deliveries' = Marked(these, status, 1, wait)
    BY DEF RecordStep
  <2>4. deliveries \in [Deliveries -> DeliveryType] /\ these \in SUBSET Deliveries
    BY <1>1
  <2> QED BY <2>1, <2>2, <2>3, <2>4, MarkedDeliveries
<1>5. DispatchTypeOK' /\ DispatchTypes'
  BY <1>4 DEF RecordStep, DispatchInv, DispatchTypeOK, DispatchTypes, DeliveryType, ChannelType, DispatchType
<1>6. IdsAreFilled'
  <2>1. \A d \in Deliveries : Queued_(d)' <=> Queued_(d)
    BY <1>1, <1>4 DEF Queued_
  <2> QED BY <2>1, IdsStayFilled DEF DispatchInv
<1>7. RunIsInOrder'
  <2>1. ASSUME NEW d \in dispatch'.todo PROVE deliveries'[d].channel = dispatch'.channel
    BY <1>4 DEF RecordStep, DispatchInv, RunIsInOrder, DispatchTypes, DispatchType
  <2> QED BY <2>1 DEF RecordStep, DispatchInv, RunIsInOrder
<1>8. ASSUME NEW d \in Deliveries, d \notin these PROVE CopiesFit(d)' /\ SendsFit(d)'
  <2>1. deliveries'[d] = deliveries[d]
    BY <1>4, <1>8
  <2>2. (Ahead(d)' <=> Ahead(d)) /\ (InFlight(d)' <=> InFlight(d))
    BY <1>8, <2>1 DEF RecordStep, Ahead, InFlight
  <2>3. CopiesFit(d) /\ SendsFit(d)
    BY DEF DispatchInv
  <2> QED BY <2>1, <2>2, <2>3 DEF RecordStep, CopiesFit, SendsFit, Queued_
<1>9. ASSUME NEW d \in these PROVE CopiesFit(d)' /\ SendsFit(d)'
  <2>1. /\ d \in Deliveries /\ InFlight(d) /\ ~InFlight(d)' /\ ~Ahead(d)' /\ CopiesFit(d)
        /\ deliveries[d].status \in {"pending", "deleted"}
    BY <1>1, <1>4 DEF RecordStep, InFlight, Ahead, DispatchInv
  <2>2. copies'[d] = IF dispatch.ok THEN 1 ELSE 0
    BY <2>1 DEF RecordStep, CopiesFit
  <2>3. CASE deliveries[d].status = "deleted"
    <3>1. deliveries'[d] = deliveries[d]
      BY <1>4, <2>1, <2>3
    <3> QED BY <2>1, <2>3, <3>1 DEF RecordStep, CopiesFit, SendsFit, Queued_
  <2>4. CASE deliveries[d].status # "deleted"
    <3>1. deliveries'[d].status = status /\ deliveries'[d].attempts = deliveries[d].attempts + 1
      BY <1>4, <2>1, <2>4
    <3>2. /\ deliveries[d].attempts \in Nat /\ deliveries[d].attempts + 1 <= Attempts
          /\ deliveries[d].attempts + 1 <= sends[d] /\ sends[d] \in Nat
      BY <1>2, <1>3, <2>1, <2>4
    <3>3. CopiesFit(d)'
      BY <2>1, <2>2, <3>1 DEF RecordStep, CopiesFit, Queued_
    <3>4. SendsFit(d)'
      BY <1>2, <2>1, <3>1, <3>2 DEF RecordStep, SendsFit
    <3> QED BY <3>3, <3>4
  <2> QED BY <2>3, <2>4
<1>10. \A d \in Deliveries : CopiesFit(d)' /\ SendsFit(d)'
  BY <1>8, <1>9
<1> QED BY <1>5, <1>6, <1>7, <1>10 DEF DispatchInv

LEMMA SentKeeps == DispatchInv /\ RecordSent => DispatchInv'
<1> SUFFICES ASSUME DispatchInv, RecordSent PROVE DispatchInv'
  OBVIOUS
<1>1. dispatch \in DispatchType /\ dispatch' = [dispatch EXCEPT !.step = "state", !.todo = {}]
  BY DEF RecordSent, DispatchInv, DispatchTypes
<1>2. dispatch' = [step |-> "state", due |-> dispatch.due, enabled |-> dispatch.enabled, left |-> dispatch.left,
                   channel |-> dispatch.channel, ok |-> dispatch.ok, todo |-> {}, ran |-> dispatch.ran]
  BY <1>1 DEF DispatchType
<1>3. dispatch' \in DispatchType
  BY <1>1, <1>2 DEF DispatchType
<1>4. RecordStep(dispatch.todo, "sent", 0)
  BY <1>2, <1>3 DEF RecordSent, RecordStep, dispatchHistory
<1> QED BY <1>4, RecordKeeps

LEMMA FailedKeeps == ASSUME NEW n \in 1 .. Attempts PROVE DispatchInv /\ RecordFailed(n) => DispatchInv'
<1> SUFFICES ASSUME DispatchInv, RecordFailed(n) PROVE DispatchInv'
  OBVIOUS
<1> DEFINE these == {d \in dispatch.todo : deliveries[d].attempts + 1 = n}
           step == IF dispatch.todo = these THEN "state" ELSE dispatch.step
<1>1. /\ dispatch.step = "answered" /\ ~dispatch.ok /\ deliveries' = AfterFailure(these, n)
      /\ dispatch' = [dispatch EXCEPT !.todo = dispatch.todo \ these, !.step = step]
      /\ UNCHANGED <<channelState, enabled, mishaps, toggles, everOff, sends, copies>>
      /\ dispatch \in DispatchType
  BY DEF RecordFailed, dispatchHistory, DispatchInv, DispatchTypes
<1>2. these \in SUBSET dispatch.todo /\ \A d \in these : deliveries[d].attempts + 1 = n
  OBVIOUS
<1>3. step \in {"answered", "state"} /\ (step = "state" => dispatch.todo \ these = {})
  BY <1>1
<1> HIDE DEF these, step
<1>4. dispatch' = [step |-> step, due |-> dispatch.due, enabled |-> dispatch.enabled, left |-> dispatch.left,
                   channel |-> dispatch.channel, ok |-> dispatch.ok, todo |-> dispatch.todo \ these, ran |-> dispatch.ran]
  <2> DEFINE r1 == [step |-> dispatch.step, due |-> dispatch.due, enabled |-> dispatch.enabled, left |-> dispatch.left,
                    channel |-> dispatch.channel, ok |-> dispatch.ok, todo |-> dispatch.todo \ these, ran |-> dispatch.ran]
  <2>1. [dispatch EXCEPT !.todo = dispatch.todo \ these] = r1
    BY <1>1 DEF DispatchType
  <2>2. [r1 EXCEPT !.step = step]
          = [step |-> step, due |-> dispatch.due, enabled |-> dispatch.enabled, left |-> dispatch.left,
             channel |-> dispatch.channel, ok |-> dispatch.ok, todo |-> dispatch.todo \ these, ran |-> dispatch.ran]
    OBVIOUS
  <2> HIDE DEF r1
  <2> QED BY <1>1, <2>1, <2>2
<1>5. dispatch' \in DispatchType
  BY <1>1, <1>3, <1>4 DEF DispatchType
<1>6. CASE n >= Attempts
  <2>1. deliveries' = Marked(these, "failed", 1, 0)
    BY <1>1, <1>6 DEF AfterFailure
  <2>2. RecordStep(these, "failed", 0)
    BY <1>1, <1>2, <1>3, <1>4, <1>5, <1>6, <2>1 DEF RecordStep
  <2> QED BY <1>2, <2>2, RecordKeeps
<1>7. CASE ~(n >= Attempts)
  <2>1. deliveries' = Marked(these, "pending", 1, Backoff[n])
    BY <1>1, <1>7 DEF AfterFailure
  <2>2. n < Attempts /\ n \in 1 .. Attempts - 1
    BY <1>7, AlertDispatchAssumption
  <2>3. Backoff[n] \in Int
    BY <2>2, AlertDispatchAssumption
  <2>4. RecordStep(these, "pending", Backoff[n])
    BY <1>1, <1>2, <1>3, <1>4, <1>5, <2>1, <2>2 DEF RecordStep
  <2> QED BY <1>2, <2>3, <2>4, RecordKeeps
<1> QED BY <1>6, <1>7

LEMMA SaveKeeps == DispatchInv /\ SaveChannelState => DispatchInv'
<1> SUFFICES ASSUME DispatchInv, SaveChannelState PROVE DispatchInv'
  OBVIOUS
<1> DEFINE c == dispatch.channel
           strikes == IF dispatch.ok THEN 0 ELSE Min({channelState[c].strikes + 1, ChannelStrikes})
           rest == IF strikes >= ChannelStrikes THEN ChannelRest ELSE 0
<1>1. /\ dispatch.step = "state" /\ dispatch' = NextChannel(c)
      /\ channelState' = [channelState EXCEPT ![c] = [strikes |-> strikes, rest |-> rest]]
      /\ UNCHANGED <<deliveries, enabled, mishaps, toggles, everOff, sends, copies>>
  BY DEF SaveChannelState, dispatchHistory
<1>2. c \in Channels /\ dispatch.todo = {}
  BY <1>1 DEF DispatchInv, DispatchTypes, DispatchType, RunIsInOrder, Channels
<1>3. channelState' \in [Channels -> ChannelType]
  <2>1. channelState[c].strikes \in Nat /\ channelState \in [Channels -> ChannelType]
    BY <1>2 DEF DispatchInv, DispatchTypes, ChannelType
  <2>2. {channelState[c].strikes + 1, ChannelStrikes} \subseteq Nat /\ ChannelStrikes \in Nat
    BY <2>1, AlertDispatchAssumption
  <2>3. Min({channelState[c].strikes + 1, ChannelStrikes}) \in 0 .. ChannelStrikes
    <3> DEFINE S == {channelState[c].strikes + 1, ChannelStrikes}
    <3>1. S \subseteq Nat /\ S # {} /\ ChannelStrikes \in S
      BY <2>2
    <3> HIDE DEF S
    <3>2. Min(S) \in Nat /\ Min(S) <= ChannelStrikes
      BY <3>1, MinIsLeast
    <3>3. Min(S) \in 0 .. ChannelStrikes
      BY <2>2, <3>2
    <3> QED BY <3>3 DEF S
  <2>4. strikes \in 0 .. ChannelStrikes
    BY <2>2, <2>3
  <2>5. rest \in 0 .. ChannelRest
    BY AlertDispatchAssumption
  <2> HIDE DEF strikes, rest
  <2> QED BY <1>1, <1>2, <2>1, <2>4, <2>5 DEF ChannelType
<1> HIDE DEF c
<1>4. /\ dispatch' \in DispatchType
      /\ dispatch'.step = "channel" /\ dispatch'.channel = 0 /\ dispatch'.todo = {} /\ dispatch'.due = dispatch.due
      /\ dispatch'.left = dispatch.left \ {c} /\ dispatch'.enabled = dispatch.enabled
  BY <1>1, NextChannelType
<1>5. DispatchTypeOK' /\ DispatchTypes'
  BY <1>1, <1>3, <1>4 DEF DispatchInv, DispatchTypeOK, DispatchTypes, DispatchType, ChannelType
<1>6. IdsAreFilled' /\ RunIsInOrder'
  BY <1>1, <1>4, IdsStayFilled DEF Queued_, DispatchInv, RunIsInOrder
<1>7. ASSUME NEW d \in Deliveries PROVE CopiesFit(d)' /\ SendsFit(d)'
  <2>1. (Ahead(d)' => Ahead(d)) /\ ~InFlight(d) /\ ~InFlight(d)'
    <3>1. ~InFlight(d) /\ ~InFlight(d)'
      BY <1>1, <1>2, <1>4 DEF InFlight
    <3>2. deliveries[d].channel # 0 /\ 0 \notin Channels
      BY DEF DispatchInv, DispatchTypes, DeliveryType, Channels
    <3>3. Ahead(d)' => Ahead(d)
      BY <1>1, <1>4 DEF Ahead, c
    <3> QED BY <3>1, <3>3
  <2>2. CopiesFit(d) /\ SendsFit(d)
    BY DEF DispatchInv
  <2> QED BY <1>1, <1>4, <2>1, <2>2 DEF CopiesFit, SendsFit, Queued_
<1> QED BY <1>5, <1>6, <1>7 DEF DispatchInv

\* The run is over, at its end or cut short: what it had in hand is as it was before.
LEMMA IdleKeeps ==
    ASSUME DispatchInv, UNCHANGED <<deliveries, channelState, enabled, toggles, everOff, sends>>,
           mishaps' \in 0 .. MaxMishaps, dispatch' = [IdleDispatch EXCEPT !.ran = TRUE],
           copies' = [d \in Deliveries |-> IF dispatch.step = "answered" /\ d \in dispatch.todo /\ dispatch.ok
                                           THEN copies[d] - 1 ELSE copies[d]]
    PROVE  DispatchInv'
<1>1. dispatch' = [step |-> "idle", due |-> {}, enabled |-> {}, left |-> {}, channel |-> 0, ok |-> FALSE, todo |-> {},
                  ran |-> TRUE]
  BY DEF IdleDispatch
<1>2. dispatch' \in DispatchType
  <2>1. 0 \in 0 .. NumChannels
    BY AlertDispatchAssumption
  <2> DEFINE idle == [step |-> "idle", due |-> {}, enabled |-> {}, left |-> {}, channel |-> 0, ok |-> FALSE, todo |-> {},
                      ran |-> TRUE]
  <2>2. idle \in DispatchType
    BY <2>1 DEF DispatchType
  <2>3. dispatch' = idle
    BY <1>1
  <2> HIDE DEF idle
  <2> QED BY <2>2, <2>3
<1>3. ASSUME NEW d \in Deliveries
      PROVE  copies'[d] \in 0 .. 1 /\ (CopiesFit(d) => copies'[d] = IF InFlight(d) THEN 0 ELSE copies[d])
  <2>1. copies[d] \in 0 .. 1 /\ CopiesFit(d)
    BY DEF DispatchInv, DispatchTypes
  <2>2. InFlight(d) => copies[d] = IF dispatch.ok THEN 1 ELSE 0
    BY <2>1 DEF CopiesFit
  <2>3. copies'[d] = IF InFlight(d) /\ dispatch.ok THEN copies[d] - 1 ELSE copies[d]
    BY DEF InFlight
  <2> QED BY <2>1, <2>2, <2>3
<1>4. copies' \in [Deliveries -> 0 .. 1]
  <2>1. copies' = [d \in Deliveries |-> copies'[d]]
    OBVIOUS
  <2> QED BY <1>3, <2>1
<1>5. DispatchTypeOK' /\ DispatchTypes'
  <2>1. dispatch'.step = "idle" /\ dispatch'.todo = {} /\ dispatch'.due = {} /\ dispatch'.left = {}
    BY <1>1
  <2> QED BY <1>2, <1>4, <2>1 DEF DispatchInv, DispatchTypeOK, DispatchTypes
<1>6. IdsAreFilled' /\ RunIsInOrder'
  BY <1>1, IdsStayFilled DEF Queued_, DispatchInv, RunIsInOrder
<1>7. ASSUME NEW d \in Deliveries PROVE CopiesFit(d)' /\ SendsFit(d)'
  <2>1. ~Ahead(d)' /\ ~InFlight(d)' /\ d \notin dispatch'.due
    BY <1>1 DEF Ahead, InFlight
  <2>2. CopiesFit(d) /\ SendsFit(d) /\ copies'[d] = IF InFlight(d) THEN 0 ELSE copies[d]
    BY <1>3 DEF DispatchInv
  <2>3. CopiesFit(d)'
    BY <2>1, <2>2 DEF CopiesFit, Queued_, InFlight
  <2>4. SendsFit(d)'
    BY <2>1, <2>2 DEF SendsFit
  <2> QED BY <2>3, <2>4
<1> QED BY <1>5, <1>6, <1>7 DEF DispatchInv

LEMMA EndKeeps == DispatchInv /\ DispatchEnd => DispatchInv'
<1> SUFFICES ASSUME DispatchInv, DispatchEnd PROVE DispatchInv'
  OBVIOUS
<1>1. /\ UNCHANGED <<deliveries, channelState, enabled, toggles, everOff, sends, copies, mishaps>>
      /\ dispatch' = [IdleDispatch EXCEPT !.ran = TRUE] /\ dispatch.step = "channel"
  BY DEF DispatchEnd, dispatchHistory
<1>2. copies \in [Deliveries -> 0 .. 1] /\ mishaps \in 0 .. MaxMishaps
  BY DEF DispatchInv, DispatchTypes, DispatchTypeOK
<1>3. copies' = [d \in Deliveries |-> IF dispatch.step = "answered" /\ d \in dispatch.todo /\ dispatch.ok
                                      THEN copies[d] - 1 ELSE copies[d]]
  BY <1>1, <1>2
<1> QED BY <1>1, <1>2, <1>3, IdleKeeps

LEMMA StopKeeps == DispatchInv /\ DispatchStops => DispatchInv'
<1> SUFFICES ASSUME DispatchInv, DispatchStops PROVE DispatchInv'
  OBVIOUS
<1>1. mishaps' \in 0 .. MaxMishaps
  BY AlertDispatchAssumption DEF DispatchStops, Mishap, DispatchInv, DispatchTypeOK
<1> QED BY <1>1, IdleKeeps DEF DispatchStops

LEMMA DispatchStep == DispatchInv /\ [DispatchNext]_dispatchVars => DispatchInv'
<1> SUFFICES ASSUME DispatchInv, [DispatchNext]_dispatchVars PROVE DispatchInv'
  OBVIOUS
<1>1. CASE UNCHANGED dispatchVars
  <2>1. UNCHANGED <<deliveries, channelState, enabled, dispatch, mishaps, toggles, everOff, sends, copies>>
    BY <1>1 DEF dispatchVars, dispatchHistory
  <2>2. DispatchTypeOK' /\ DispatchTypes'
    BY <2>1 DEF DispatchInv, DispatchTypeOK, DispatchTypes
  <2>3. IdsAreFilled' /\ RunIsInOrder'
    BY <2>1, IdsStayFilled DEF Queued_, DispatchInv, RunIsInOrder
  <2>4. \A d \in Deliveries : CopiesFit(d)' /\ SendsFit(d)'
    BY <2>1 DEF DispatchInv, CopiesFit, SendsFit, Queued_, Ahead, InFlight
  <2> QED BY <2>2, <2>3, <2>4 DEF DispatchInv
<1>2. CASE DispatchRuns
  <2>1. CASE RunDispatch \/ RecordSent \/ SaveChannelState \/ DispatchEnd
    BY <2>1, RunKeeps, SentKeeps, SaveKeeps, EndKeeps
  <2>2. CASE \E c \in Channels : ChannelDisabled(c) \/ ChannelResting(c)
    BY <2>2, DisabledKeeps, RestingKeeps
  <2>3. CASE \E c \in Channels, taken, ok \in BOOLEAN : Send(c, taken, ok)
    BY <2>3, SendKeeps
  <2>4. CASE \E n \in 1 .. Attempts : RecordFailed(n)
    BY <2>4, FailedKeeps
  <2> QED BY <1>2, <2>1, <2>2, <2>3, <2>4 DEF DispatchRuns
<1>3. CASE InsertAlert \/ DispatchTick \/ DispatchStops
  BY <1>3, InsertAlertKeeps, TickKeeps, StopKeeps
<1>4. CASE \E c \in Channels : ToggleChannel(c)
  BY <1>4, ToggleKeeps
<1>5. CASE \E d \in Deliveries : DeleteDelivery(d)
  BY <1>5, DeleteKeeps
<1> QED BY <1>1, <1>2, <1>3, <1>4, <1>5 DEF DispatchNext

LEMMA DispatchIsSound == DispatchInv => DeliveriesAreSound
<1> SUFFICES ASSUME DispatchInv PROVE DeliveriesAreSound
  OBVIOUS
<1>1. DuplicateOnlyIfUnrecorded
  BY DEF DispatchInv, DispatchTypes, DuplicateOnlyIfUnrecorded
<1>2. GivenUpOnlyAfterAttempts
  BY DEF DispatchInv, SendsFit, GivenUpOnlyAfterAttempts
<1> QED BY <1>1, <1>2 DEF DispatchInv, DeliveriesAreSound

\* For every number of channels, deliveries and attempts: a receiver gets an alert twice only when that it took it was
\* not recorded, and a delivery is given up only after Attempts messages or because its channel was switched off
\* (services/alerts/dispatch.py).
THEOREM DeliveriesStaySound == DispatchSpec => []DeliveriesAreSound
<1>1. DispatchSpec => []DispatchInv
  BY DispatchBegins, DispatchStep, PTL DEF DispatchSpec
<1> QED BY <1>1, DispatchIsSound, PTL

-----------------------------------------------------------------------------
(* Rule schedules.                                                         *)

PceType == [live : BOOLEAN, draft : BOOLEAN, note : BOOLEAN, foreign : BOOLEAN]
RowOfType == [id : 0 .. MaxIds, plan : Plans, paused : BOOLEAN]
WriterType == [step : {"idle", "look", "active", "put", "provision", "undo", "clear", "save"},
               kind : {"check", "create", "update", "delete"}, id : 0 .. MaxIds, plan : Plans, before : BOOLEAN]

\* What a writer may be at: the page makes a schedule only where the ids last, and goes on upon a pending
\* draft only to delete one.
WriterFits(w, r) ==
    /\ r \in WriterType
    /\ w \in Checkers => r.kind = "check" /\ (r.step # "idle" => r.id # 0)
    /\ r.step # "idle" /\ r.kind = "create" => ids < MaxIds
    /\ w = "page" /\ r.step = "put" /\ r.before => r.kind = "delete"

RuleTypes ==
    /\ pce \in PceType /\ row \in RowOfType /\ ids \in 0 .. MaxIds /\ early \in {"no", "crossed", "alone"}
    /\ writer \in [Writers -> WriterType] /\ \A w \in Writers : WriterFits(w, writer[w])

\* A writer that may provision or discard the draft, now or later, saw it without a foreign change.
TakesTheDraft(w, r) ==
    \/ r.step \in {"provision", "undo"}
    \/ w = "page" /\ r.step = "put" /\ ~r.before
    \/ w \in Checkers /\ r.step \in {"active", "put", "clear"}
ForeignCameLate == \A w \in Writers : TakesTheDraft(w, writer[w]) /\ pce.foreign => w \in late

\* A check that nobody crossed finds the rule as it left it.
SwitchedOff(r, p) ==
    /\ r.step = "provision" /\ r.plan = "expired" => ~p.draft
    /\ r.step = "clear" => ~p.draft
    /\ r.step \in {"clear", "save"} => ~p.live
UncrossedAreOff == \A c \in Checkers : c \in crossed \/ SwitchedOff(writer[c], pce)

RuleInv == RuleTypes /\ NeverTramples /\ ExpiryDropsDisabled /\ ForeignCameLate /\ UncrossedAreOff

-----------------------------------------------------------------------------

LEMMA RuleTypesSuffice == RuleTypes => RuleTypeOK
<1> SUFFICES ASSUME RuleTypes PROVE RuleTypeOK
  OBVIOUS
<1>1. ASSUME NEW w \in Writers
      PROVE  /\ writer[w].step \in {"idle", "look", "active", "put", "provision", "undo", "clear", "save"}
             /\ writer[w].kind \in IF w = "page" THEN {"check", "create", "update", "delete"} ELSE {"check"}
             /\ writer[w].plan \in Plans /\ writer[w].id \in 0 .. MaxIds
             /\ w \in Checkers /\ writer[w].step # "idle" => writer[w].id # 0
  <2>1. writer[w] \in WriterType /\ WriterFits(w, writer[w])
    BY DEF RuleTypes
  <2>2. w # "page" => w \in Checkers
    BY DEF Writers
  <2> QED BY <2>1, <2>2 DEF WriterType, WriterFits
<1> QED BY <1>1 DEF RuleTypes, RuleTypeOK, PceType, RowOfType

LEMMA RuleBegins == RuleInit => RuleInv
<1> SUFFICES ASSUME RuleInit PROVE RuleInv
  OBVIOUS
<1>1. MaxIds \in Nat /\ MaxIds > 0
  BY RuleSchedulesAssumption
<1>2. Idle \in WriterType /\ \A w \in Writers : WriterFits(w, Idle)
  BY <1>1 DEF Idle, WriterType, Plans, WriterFits, RuleInit
<1>3. RuleTypes
  BY <1>1, <1>2 DEF RuleInit, RuleTypes, PceType, RowOfType, NoRow, Plans
<1>4. \A w \in Writers : ~TakesTheDraft(w, Idle) /\ SwitchedOff(Idle, pce)
  BY DEF TakesTheDraft, SwitchedOff, Idle
<1> QED BY <1>3, <1>4 DEF RuleInit, RuleInv, NeverTramples, ExpiryDropsDisabled, ForeignCameLate, UncrossedAreOff, Writers

\* One writer moves on.
LEMMA WriterMoves ==
    ASSUME RuleInv, NEW w \in Writers, NEW r, WriterFits(w, r), writer' = [writer EXCEPT ![w] = r],
           pce' \in PceType, row' \in RowOfType, ids' = ids, early' \in {"no", "crossed", "alone"}
    PROVE  /\ RuleTypes'
           /\ \A v \in Writers : writer'[v] = IF v = w THEN r ELSE writer[v]
<1>1. \A v \in Writers : writer'[v] = IF v = w THEN r ELSE writer[v]
  BY DEF RuleInv, RuleTypes
<1>2. r \in WriterType
  BY DEF WriterFits
<1>3. writer' \in [Writers -> WriterType]
  BY <1>2 DEF RuleInv, RuleTypes
<1>4. ASSUME NEW v \in Writers PROVE WriterFits(v, writer[v])'
  <2>1. WriterFits(v, writer'[v])
    BY <1>1 DEF RuleInv, RuleTypes
  <2> QED BY <2>1 DEF WriterFits
<1> QED BY <1>1, <1>3, <1>4 DEF RuleInv, RuleTypes

\* A move that writes nothing to the PCE.
LEMMA QuietMove ==
    ASSUME RuleInv, NEW w \in Writers, NEW r, WriterFits(w, r), writer' = [writer EXCEPT ![w] = r],
           row' \in RowOfType, UNCHANGED <<pce, ids, trampled>>, early' \in {"no", "crossed"},
           \A v \in Writers \ {w} : (v \in late' <=> v \in late) /\ (v \in crossed' <=> v \in crossed),
           TakesTheDraft(w, r) /\ pce.foreign => w \in late',
           w \in Checkers => w \in crossed' \/ SwitchedOff(r, pce)
    PROVE  RuleInv'
<1>1. RuleTypes' /\ \A v \in Writers : writer'[v] = IF v = w THEN r ELSE writer[v]
  BY WriterMoves DEF RuleInv, RuleTypes
<1>2. NeverTramples' /\ ExpiryDropsDisabled'
  BY DEF RuleInv, NeverTramples, ExpiryDropsDisabled
<1>3. ForeignCameLate'
  <2> SUFFICES ASSUME NEW v \in Writers, TakesTheDraft(v, writer[v])', pce.foreign PROVE v \in late'
    BY DEF ForeignCameLate
  <2>1. TakesTheDraft(v, writer'[v])
    BY DEF TakesTheDraft
  <2>2. CASE v = w
    BY <1>1, <2>1, <2>2
  <2>3. CASE v # w
    BY <1>1, <2>1, <2>3 DEF RuleInv, ForeignCameLate
  <2> QED BY <2>2, <2>3
<1>4. UncrossedAreOff'
  <2> SUFFICES ASSUME NEW c \in Checkers PROVE c \in crossed' \/ SwitchedOff(writer'[c], pce')
    BY DEF UncrossedAreOff
  <2>1. c \in crossed' \/ SwitchedOff(writer'[c], pce)
    BY <1>1 DEF RuleInv, UncrossedAreOff, Writers
  <2> QED BY <2>1 DEF SwitchedOff
<1> QED BY <1>1, <1>2, <1>3, <1>4 DEF RuleInv

\* A write to the PCE: everyone else at work is crossed.
LEMMA WritingMove ==
    ASSUME RuleInv, NEW w \in Writers, NEW r, WriterFits(w, r), writer' = [writer EXCEPT ![w] = r],
           pce' \in PceType, pce'.foreign => pce.foreign, UNCHANGED <<row, ids, late, early>>, ~trampled',
           crossed' = crossed \cup Others(w),
           TakesTheDraft(w, r) /\ pce'.foreign => w \in late,
           w \in Checkers => w \in crossed \/ SwitchedOff(r, pce')
    PROVE  RuleInv'
<1>1. RuleTypes' /\ \A v \in Writers : writer'[v] = IF v = w THEN r ELSE writer[v]
  BY WriterMoves DEF RuleInv, RuleTypes
<1>2. NeverTramples' /\ ExpiryDropsDisabled'
  BY DEF RuleInv, NeverTramples, ExpiryDropsDisabled
<1>3. ForeignCameLate'
  <2> SUFFICES ASSUME NEW v \in Writers, TakesTheDraft(v, writer[v])', pce'.foreign PROVE v \in late'
    BY DEF ForeignCameLate
  <2>1. TakesTheDraft(v, writer'[v])
    BY DEF TakesTheDraft
  <2>2. CASE v = w
    BY <1>1, <2>1, <2>2
  <2>3. CASE v # w
    BY <1>1, <2>1, <2>3 DEF RuleInv, ForeignCameLate
  <2> QED BY <2>2, <2>3
<1>4. UncrossedAreOff'
  <2> SUFFICES ASSUME NEW c \in Checkers, c \notin crossed' PROVE SwitchedOff(writer'[c], pce')
    BY DEF UncrossedAreOff
  <2>1. CASE c = w
    <3>1. SwitchedOff(r, pce') /\ writer'[c] = r
      BY <1>1, <2>1
    <3> QED BY <3>1 DEF SwitchedOff
  <2>2. CASE c # w
    <3>1. c \in Writers /\ writer[c].step = "idle" /\ writer'[c] = writer[c]
      BY <1>1, <2>2 DEF Others, Writers
    <3> QED BY <3>1 DEF SwitchedOff
  <2> QED BY <2>1, <2>2
<1> QED BY <1>1, <1>2, <1>3, <1>4 DEF RuleInv

LEMMA IdleFits == ASSUME RuleInv, NEW w PROVE WriterFits(w, Idle) /\ ~TakesTheDraft(w, Idle) /\ SwitchedOff(Idle, pce)
<1>1. MaxIds \in Nat
  BY RuleSchedulesAssumption
<1>2. Idle \in WriterType
  BY <1>1 DEF Idle, WriterType, Plans
<1> QED BY <1>2 DEF Idle, WriterFits, TakesTheDraft, SwitchedOff

\* A writer at work that goes to another step stays what it is.
LEMMA StepFits ==
    ASSUME RuleInv, NEW w \in Writers, writer[w].step # "idle",
           NEW s \in {"look", "active", "put", "provision", "undo", "clear", "save"},
           s = "put" => w \in Checkers
    PROVE  LET r == [writer[w] EXCEPT !.step = s]
           IN  WriterFits(w, r) /\ r.step = s /\ r.plan = writer[w].plan /\ r.before = writer[w].before
<1>1. writer[w] \in WriterType /\ WriterFits(w, writer[w])
  BY DEF RuleInv, RuleTypes
<1> DEFINE r == [writer[w] EXCEPT !.step = s]
<1>2. r = [step |-> s, kind |-> writer[w].kind, id |-> writer[w].id, plan |-> writer[w].plan, before |-> writer[w].before]
  BY <1>1 DEF WriterType
<1> HIDE DEF r
<1>3. r \in WriterType
  BY <1>1, <1>2 DEF WriterType
<1>4. WriterFits(w, r)
  BY <1>1, <1>2, <1>3 DEF WriterFits, Checkers
<1> QED BY <1>2, <1>4 DEF r

LEMMA QuietMiss ==
    ASSUME RuleInv
    PROVE  row \in RowOfType /\ early \in {"no", "crossed"} /\ pce \in PceType
BY DEF RuleInv, RuleTypes, ExpiryDropsDisabled

-----------------------------------------------------------------------------
(* The checks.                                                             *)

LEMMA LookIs ==
    ASSUME NEW i, NEW p
    PROVE  [Idle EXCEPT !.step = "look", !.id = i, !.plan = p]
             = [step |-> "look", kind |-> Idle.kind, id |-> i, plan |-> p, before |-> Idle.before]
<1> DEFINE r1 == [step |-> "look", kind |-> Idle.kind, id |-> Idle.id, plan |-> Idle.plan, before |-> Idle.before]
           r2 == [step |-> "look", kind |-> Idle.kind, id |-> i, plan |-> Idle.plan, before |-> Idle.before]
<1>1. Idle = [step |-> Idle.step, kind |-> Idle.kind, id |-> Idle.id, plan |-> Idle.plan, before |-> Idle.before]
  BY DEF Idle
<1>2. [Idle EXCEPT !.step = "look"] = r1
  BY <1>1
<1>3. [r1 EXCEPT !.id = i] = r2
  OBVIOUS
<1>4. [r2 EXCEPT !.plan = p]
        = [step |-> "look", kind |-> Idle.kind, id |-> i, plan |-> p, before |-> Idle.before]
  OBVIOUS
<1> HIDE DEF r1, r2
<1> QED BY <1>2, <1>3, <1>4

LEMMA CheckBeginKeeps == ASSUME NEW c \in Checkers PROVE RuleInv /\ CheckBegin(c) => RuleInv'
<1> SUFFICES ASSUME RuleInv, CheckBegin(c) PROVE RuleInv'
  OBVIOUS
<1> DEFINE r == [step |-> "look", kind |-> Idle.kind, id |-> row.id, plan |-> row.plan, before |-> Idle.before]
<1>1. /\ row.id # 0 /\ UNCHANGED <<pce, row, ids, trampled, early>> /\ late' = late \ {c} /\ crossed' = crossed \ {c}
      /\ writer' = [writer EXCEPT ![c] = [Idle EXCEPT !.step = "look", !.id = row.id, !.plan = row.plan]]
  BY DEF CheckBegin
<1>2. [Idle EXCEPT !.step = "look", !.id = row.id, !.plan = row.plan] = r
  BY LookIs
<1>3. row \in RowOfType /\ early \in {"no", "crossed"} /\ c \in Writers /\ c # "page"
  BY QuietMiss DEF Writers, Checkers
<1>4. WriterFits(c, r)
  <2>1. r \in WriterType
    BY <1>3, IdleFits DEF RowOfType, WriterType, WriterFits
  <2>2. Idle.kind = "check"
    BY DEF Idle
  <2> QED BY <1>1, <1>3, <2>1, <2>2 DEF WriterFits
<1>5. ~TakesTheDraft(c, r) /\ SwitchedOff(r, pce)
  BY DEF TakesTheDraft, SwitchedOff
<1> HIDE DEF r
<1> QED BY <1>1, <1>2, <1>3, <1>4, <1>5, QuietMove

\* A check that ends.
LEMMA EndingMove ==
    ASSUME RuleInv, NEW w \in Writers, Ends(w), row' \in RowOfType, early' \in {"no", "crossed"},
           UNCHANGED <<pce, ids, trampled, late, crossed>>
    PROVE  RuleInv'
<1>1. WriterFits(w, Idle) /\ ~TakesTheDraft(w, Idle) /\ SwitchedOff(Idle, pce)
  BY IdleFits
<1> QED BY <1>1, QuietMove DEF Ends

LEMMA CheckQuietKeeps ==
    ASSUME NEW c \in Checkers
    PROVE  RuleInv /\ (CheckSkips(c) \/ CheckFails(c) \/ CheckDrops(c)) => RuleInv'
<1> SUFFICES ASSUME RuleInv, CheckSkips(c) \/ CheckFails(c) \/ CheckDrops(c) PROVE RuleInv'
  OBVIOUS
<1>1. c \in Writers /\ row \in RowOfType /\ early \in {"no", "crossed"}
  BY QuietMiss DEF Writers
<1>2. CASE CheckSkips(c) \/ CheckFails(c)
  BY <1>1, <1>2, EndingMove DEF CheckSkips, CheckFails, ruleBounds, ruleHistory
<1>3. CASE CheckDrops(c)
  <2>1. /\ writer[c].step = "save" /\ Ends(c) /\ UNCHANGED <<pce, ids, late, crossed, trampled>>
        /\ early' = IF ~pce.live \/ early = "alone" THEN early ELSE IF c \in crossed THEN "crossed" ELSE "alone"
        /\ row' = IF row.id = writer[c].id THEN NoRow ELSE row
    BY <1>3 DEF CheckDrops, ruleBounds
  <2>2. c \in crossed \/ ~pce.live
    BY <2>1 DEF RuleInv, UncrossedAreOff, SwitchedOff
  <2>3. early' \in {"no", "crossed"}
    BY <1>1, <2>1, <2>2
  <2>4. row' \in RowOfType
    BY <1>1, <2>1, RuleSchedulesAssumption DEF RowOfType, NoRow, Plans
  <2> QED BY <1>1, <2>1, <2>3, <2>4, EndingMove
<1> QED BY <1>2, <1>3

LEMMA CheckLooksKeeps == ASSUME NEW c \in Checkers PROVE RuleInv /\ CheckLooks(c) => RuleInv'
<1> SUFFICES ASSUME RuleInv, CheckLooks(c) PROVE RuleInv'
  OBVIOUS
<1> DEFINE step == IF writer[c].plan # "expired" THEN "active" ELSE IF pce.draft THEN "put" ELSE "clear"
           r0 == writer[c]
           r1 == [step |-> r0.step, kind |-> r0.kind, id |-> r0.id, plan |-> r0.plan, before |-> pce.draft]
           r == [step |-> step, kind |-> r0.kind, id |-> r0.id, plan |-> r0.plan, before |-> pce.draft]
<1>1. /\ writer[c].step = "look" /\ ~Pending /\ UNCHANGED <<pce, row, ids, late, crossed, trampled, early>>
      /\ writer' = [writer EXCEPT ![c].before = pce.draft, ![c].step = step]
  BY DEF CheckLooks, ruleBounds, ruleHistory
<1>2. c \in Writers /\ c # "page" /\ row \in RowOfType /\ early \in {"no", "crossed"} /\ pce \in PceType
  BY QuietMiss DEF Writers, Checkers
<1>3. writer \in [Writers -> WriterType] /\ r0 \in WriterType /\ WriterFits(c, r0)
  BY <1>2 DEF RuleInv, RuleTypes
<1>4. [r0 EXCEPT !.before = pce.draft] = r1
  <2> HIDE DEF r0
  <2> QED BY <1>3 DEF WriterType
<1>5. [r1 EXCEPT !.step = step] = r
  <2> HIDE DEF r0, step
  <2> QED OBVIOUS
<1>6. step \in {"active", "put", "clear"} /\ (step = "clear" => ~pce.draft)
  OBVIOUS
<1> HIDE DEF step
<1>7. writer' = [writer EXCEPT ![c] = r]
  <2>1. [writer EXCEPT ![c].before = pce.draft] = [writer EXCEPT ![c] = r1]
    BY <1>4
  <2>2. [[writer EXCEPT ![c].before = pce.draft] EXCEPT ![c].step = step] = [[writer EXCEPT ![c] = r1] EXCEPT ![c].step = step]
    BY <2>1
  <2>3. [[writer EXCEPT ![c] = r1] EXCEPT ![c].step = step] = [writer EXCEPT ![c] = [r1 EXCEPT !.step = step]]
    <3> HIDE DEF r1, r
    <3> QED BY <1>2, <1>3
  <2> HIDE DEF r1, r
  <2> QED BY <1>1, <1>5, <2>2, <2>3
<1>8. WriterFits(c, r)
  <2> HIDE DEF r0
  <2>1. r \in WriterType
    BY <1>2, <1>3, <1>6 DEF WriterType, PceType
  <2> QED BY <1>1, <1>2, <1>3, <1>6, <2>1 DEF WriterFits, r0
<1>9. ~pce.foreign /\ ~pce.note /\ pce.draft = pce.live
  BY <1>1 DEF Pending
<1>10. SwitchedOff(r, pce)
  BY <1>6, <1>9 DEF SwitchedOff
<1> HIDE DEF r
<1> QED BY <1>1, <1>2, <1>7, <1>8, <1>9, <1>10, QuietMove

LEMMA CheckActiveKeeps == ASSUME NEW c \in Checkers PROVE RuleInv /\ CheckActive(c) => RuleInv'
<1> SUFFICES ASSUME RuleInv, CheckActive(c) PROVE RuleInv'
  OBVIOUS
<1>1. /\ writer[c].step = "active" /\ (Ends(c) \/ Step(c, "put"))
      /\ UNCHANGED <<pce, row, ids, late, crossed, trampled, early>>
  BY DEF CheckActive, ruleBounds, ruleHistory
<1>2. c \in Writers /\ row \in RowOfType /\ early \in {"no", "crossed"} /\ pce \in PceType /\ writer[c].step = "active"
  BY QuietMiss DEF Writers, Checkers, CheckActive
<1>3. CASE Ends(c)
  BY <1>1, <1>2, <1>3, EndingMove
<1>4. CASE Step(c, "put")
  <2> DEFINE r == [writer[c] EXCEPT !.step = "put"]
  <2>1. WriterFits(c, r) /\ r.step = "put"
    BY <1>2, StepFits
  <2>2. writer' = [writer EXCEPT ![c] = r]
    BY <1>4 DEF Step
  <2> HIDE DEF r
  <2>3. pce.foreign => c \in late
    BY <1>2 DEF RuleInv, ForeignCameLate, TakesTheDraft
  <2>4. SwitchedOff(r, pce)
    BY <2>1 DEF SwitchedOff
  <2> QED BY <1>1, <1>2, <2>1, <2>2, <2>3, <2>4, QuietMove
<1> QED BY <1>1, <1>3, <1>4

\* What the calls make of the rule set.
LEMMA PceStays ==
    ASSUME pce \in PceType, NEW want \in BOOLEAN
    PROVE  /\ Provisioned \in PceType /\ Provisioned.live = pce.draft /\ Provisioned.draft = pce.draft /\ ~Provisioned.foreign
           /\ Reverted \in PceType /\ ~Reverted.foreign
           /\ [pce EXCEPT !.draft = want] \in PceType /\ [pce EXCEPT !.draft = want].draft = want
           /\ [pce EXCEPT !.draft = want].foreign = pce.foreign
           /\ [pce EXCEPT !.note = TRUE] \in PceType /\ [pce EXCEPT !.note = TRUE].foreign = pce.foreign
           /\ [pce EXCEPT !.note = TRUE].live = pce.live /\ [pce EXCEPT !.foreign = TRUE] \in PceType
           /\ [pce EXCEPT !.foreign = TRUE].live = pce.live /\ [pce EXCEPT !.foreign = TRUE].draft = pce.draft
BY DEF PceType, Provisioned, Reverted

LEMMA CheckPutKeeps == ASSUME NEW c \in Checkers, NEW o \in Outcomes PROVE RuleInv /\ CheckPut(c, o) => RuleInv'
<1> SUFFICES ASSUME RuleInv, CheckPut(c, o) PROVE RuleInv'
  OBVIOUS
<1> DEFINE want == Wanted(writer[c].plan)
           go == [writer[c] EXCEPT !.step = "provision"]
           r == IF o = "ok" THEN go ELSE Idle
<1>1. /\ writer[c].step = "put" /\ pce' = IF o = "refused" THEN pce ELSE [pce EXCEPT !.draft = want]
      /\ writer' = [writer EXCEPT ![c] = r] /\ crossed' = crossed \cup Others(c)
      /\ UNCHANGED <<row, ids, late, trampled, early>>
  BY DEF CheckPut, Put
<1>2. c \in Writers /\ row \in RowOfType /\ early \in {"no", "crossed", "alone"} /\ pce \in PceType /\ ~trampled
  BY DEF Writers, Checkers, RuleInv, RuleTypes, NeverTramples
<1>3. want \in BOOLEAN /\ (writer[c].plan = "expired" => ~want)
  BY DEF Wanted
<1> HIDE DEF want
<1>4. pce' \in PceType /\ pce'.foreign = pce.foreign /\ (o = "ok" => pce'.draft = want)
  BY <1>1, <1>2, <1>3, PceStays
<1>5. WriterFits(c, go) /\ go.step = "provision" /\ go.plan = writer[c].plan
  BY <1>1, <1>2, StepFits
<1> HIDE DEF go
<1>6. WriterFits(c, r)
  BY <1>5, IdleFits
<1>7. pce.foreign => c \in late
  BY <1>1, <1>2 DEF RuleInv, ForeignCameLate, TakesTheDraft
<1>8. SwitchedOff(r, pce')
  <2>1. CASE o = "ok"
    BY <1>3, <1>4, <1>5, <2>1 DEF SwitchedOff
  <2>2. CASE o # "ok"
    BY <2>2 DEF SwitchedOff, Idle
  <2> QED BY <2>1, <2>2
<1> HIDE DEF r
<1> QED BY <1>1, <1>2, <1>4, <1>6, <1>7, <1>8, WritingMove

LEMMA CheckProvisionKeeps == ASSUME NEW c \in Checkers, NEW o \in Outcomes PROVE RuleInv /\ CheckProvision(c, o) => RuleInv'
<1> SUFFICES ASSUME RuleInv, CheckProvision(c, o) PROVE RuleInv'
  OBVIOUS
<1> DEFINE next == IF o = "ok" THEN IF writer[c].plan = "expired" THEN "clear" ELSE "idle" ELSE "undo"
           clears == [writer[c] EXCEPT !.step = "clear"]
           undoes == [writer[c] EXCEPT !.step = "undo"]
           r == IF next = "idle" THEN Idle ELSE [writer[c] EXCEPT !.step = next]
<1>1. /\ writer[c].step = "provision" /\ pce' = IF o = "refused" THEN pce ELSE Provisioned
      /\ trampled' = (trampled \/ (o # "refused" /\ Tramples(c)))
      /\ writer' = [writer EXCEPT ![c] = r] /\ crossed' = crossed \cup Others(c)
      /\ UNCHANGED <<row, ids, late, early>>
  BY DEF CheckProvision, Provision, AfterRefusal
<1>2. c \in Writers /\ row \in RowOfType /\ early \in {"no", "crossed", "alone"} /\ pce \in PceType /\ ~trampled
  BY DEF Writers, Checkers, RuleInv, RuleTypes, NeverTramples
<1>3. pce.foreign => c \in late
  BY <1>1, <1>2 DEF RuleInv, ForeignCameLate, TakesTheDraft
<1>4. ~trampled'
  BY <1>1, <1>2, <1>3 DEF Tramples
<1>5. /\ pce' \in PceType /\ (pce'.foreign => pce.foreign)
      /\ o = "ok" => pce'.live = pce.draft /\ pce'.draft = pce.draft
  BY <1>1, <1>2, PceStays
<1>6. /\ WriterFits(c, clears) /\ clears.step = "clear" /\ WriterFits(c, undoes) /\ undoes.step = "undo"
  BY <1>1, <1>2, StepFits
<1>7. \/ r = Idle
      \/ o = "ok" /\ writer[c].plan = "expired" /\ r = clears
      \/ r = undoes
  OBVIOUS
<1>8. c \in crossed \/ (writer[c].plan = "expired" => ~pce.draft)
  BY <1>1 DEF RuleInv, UncrossedAreOff, SwitchedOff
<1> HIDE DEF r, clears, undoes
<1>9. WriterFits(c, r)
  BY <1>6, <1>7, IdleFits
<1>10. c \in crossed \/ SwitchedOff(r, pce')
  <2>1. CASE r = Idle \/ r = undoes
    BY <1>6, <2>1 DEF SwitchedOff, Idle
  <2>2. CASE o = "ok" /\ writer[c].plan = "expired" /\ r = clears
    BY <1>5, <1>6, <1>8, <2>2 DEF SwitchedOff
  <2> QED BY <1>7, <2>1, <2>2
<1> QED BY <1>1, <1>2, <1>3, <1>4, <1>5, <1>9, <1>10, WritingMove

LEMMA CheckClearsKeeps == ASSUME NEW c \in Checkers, NEW o \in Outcomes PROVE RuleInv /\ CheckClears(c, o) => RuleInv'
<1> SUFFICES ASSUME RuleInv, CheckClears(c, o) PROVE RuleInv'
  OBVIOUS
<1> DEFINE r == [writer[c] EXCEPT !.step = "save"]
<1>1. /\ writer[c].step = "clear"
      /\ pce' = IF o = "ok" THEN Provisioned ELSE IF o = "lost" THEN [pce EXCEPT !.note = TRUE] ELSE pce
      /\ trampled' = (trampled \/ (o = "ok" /\ Tramples(c)))
      /\ writer' = [writer EXCEPT ![c] = r] /\ crossed' = crossed \cup Others(c)
      /\ UNCHANGED <<row, ids, late, early>>
  BY DEF CheckClears, Step, Outcomes
<1>2. c \in Writers /\ c # "page" /\ row \in RowOfType /\ early \in {"no", "crossed", "alone"} /\ pce \in PceType /\ ~trampled
  BY DEF Writers, Checkers, RuleInv, RuleTypes, NeverTramples
<1>3. pce.foreign => c \in late
  BY <1>1, <1>2 DEF RuleInv, ForeignCameLate, TakesTheDraft
<1>4. ~trampled'
  BY <1>1, <1>2, <1>3 DEF Tramples
<1>5. pce' \in PceType /\ (pce'.foreign => pce.foreign) /\ (pce'.live = pce.draft \/ pce'.live = pce.live)
  BY <1>1, <1>2, PceStays
<1>6. WriterFits(c, r) /\ r.step = "save"
  BY <1>1, <1>2, StepFits
<1>7. c \in crossed \/ (~pce.draft /\ ~pce.live)
  BY <1>1 DEF RuleInv, UncrossedAreOff, SwitchedOff
<1> HIDE DEF r
<1>8. c \in crossed \/ SwitchedOff(r, pce')
  BY <1>5, <1>6, <1>7 DEF SwitchedOff
<1>9. ~TakesTheDraft(c, r)
  BY <1>2, <1>6 DEF TakesTheDraft
<1> QED BY <1>1, <1>2, <1>4, <1>5, <1>6, <1>8, <1>9, WritingMove

LEMMA RevertKeeps == ASSUME NEW w \in Writers, NEW o \in Outcomes PROVE RuleInv /\ Revert(w, o) => RuleInv'
<1> SUFFICES ASSUME RuleInv, Revert(w, o) PROVE RuleInv'
  OBVIOUS
<1>1. /\ writer[w].step = "undo" /\ pce' = IF o = "refused" THEN pce ELSE Reverted
      /\ trampled' = (trampled \/ (o # "refused" /\ Tramples(w)))
      /\ writer' = [writer EXCEPT ![w] = Idle] /\ crossed' = crossed \cup Others(w)
      /\ UNCHANGED <<row, ids, late, early>>
  BY DEF Revert, Ends
<1>2. row \in RowOfType /\ early \in {"no", "crossed", "alone"} /\ pce \in PceType /\ ~trampled
  BY DEF RuleInv, RuleTypes, NeverTramples
<1>3. pce.foreign => w \in late
  BY <1>1 DEF RuleInv, ForeignCameLate, TakesTheDraft
<1>4. ~trampled'
  BY <1>1, <1>2, <1>3 DEF Tramples
<1>5. pce' \in PceType /\ (pce'.foreign => pce.foreign)
  BY <1>1, <1>2, PceStays
<1>6. WriterFits(w, Idle) /\ ~TakesTheDraft(w, Idle) /\ SwitchedOff(Idle, pce')
  BY IdleFits DEF SwitchedOff, Idle
<1> QED BY <1>1, <1>2, <1>4, <1>5, <1>6, WritingMove

-----------------------------------------------------------------------------
(* The page.                                                               *)

LEMMA PageBeginKeeps ==
    ASSUME NEW kind \in {"create", "update", "delete"}, NEW plan \in {"on", "keep"}
    PROVE  RuleInv /\ PageBegin(kind, plan) => RuleInv'
<1> SUFFICES ASSUME RuleInv, PageBegin(kind, plan) PROVE RuleInv'
  OBVIOUS
<1> DEFINE r == [step |-> "look", kind |-> kind, id |-> row.id, plan |-> plan, before |-> Idle.before]
<1>1. /\ kind = "create" => ids < MaxIds
      /\ UNCHANGED <<pce, row, ids, trampled, early>> /\ late' = late \ {"page"} /\ crossed' = crossed \ {"page"}
      /\ writer' = [writer EXCEPT !["page"] = [Idle EXCEPT !.step = "look", !.kind = kind, !.id = row.id, !.plan = plan]]
  BY DEF PageBegin
<1>2. [Idle EXCEPT !.step = "look", !.kind = kind, !.id = row.id, !.plan = plan] = r
  <2> DEFINE r1 == [step |-> "look", kind |-> Idle.kind, id |-> Idle.id, plan |-> Idle.plan, before |-> Idle.before]
             r2 == [step |-> "look", kind |-> kind, id |-> Idle.id, plan |-> Idle.plan, before |-> Idle.before]
             r3 == [step |-> "look", kind |-> kind, id |-> row.id, plan |-> Idle.plan, before |-> Idle.before]
  <2>1. Idle = [step |-> Idle.step, kind |-> Idle.kind, id |-> Idle.id, plan |-> Idle.plan, before |-> Idle.before]
    BY DEF Idle
  <2>2. [Idle EXCEPT !.step = "look"] = r1
    BY <2>1
  <2>3. [r1 EXCEPT !.kind = kind] = r2
    OBVIOUS
  <2>4. [r2 EXCEPT !.id = row.id] = r3
    OBVIOUS
  <2>5. [r3 EXCEPT !.plan = plan] = r
    OBVIOUS
  <2> HIDE DEF r, r1, r2, r3
  <2> QED BY <2>2, <2>3, <2>4, <2>5
<1>3. row \in RowOfType /\ early \in {"no", "crossed"} /\ "page" \in Writers /\ "page" \notin Checkers
  BY QuietMiss DEF Writers, Checkers
<1>4. WriterFits("page", r)
  <2>1. r \in WriterType
    BY <1>3, IdleFits DEF RowOfType, WriterType, WriterFits, Plans
  <2> QED BY <1>1, <1>3, <2>1 DEF WriterFits
<1>5. ~TakesTheDraft("page", r)
  BY <1>3 DEF TakesTheDraft
<1> HIDE DEF r
<1> QED BY <1>1, <1>2, <1>3, <1>4, <1>5, QuietMove

LEMMA PageLooksKeeps == RuleInv /\ PageLooks => RuleInv'
<1> SUFFICES ASSUME RuleInv, PageLooks PROVE RuleInv'
  OBVIOUS
<1> DEFINE r0 == writer["page"]
           r1 == [step |-> "put", kind |-> r0.kind, id |-> r0.id, plan |-> r0.plan, before |-> r0.before]
           r == [step |-> "put", kind |-> r0.kind, id |-> r0.id, plan |-> r0.plan, before |-> Pending]
<1>1. /\ r0.step = "look" /\ UNCHANGED <<pce, row, ids, late, crossed, trampled, early>>
      /\ IF r0.kind # "delete" /\ Pending THEN Ends("page")
         ELSE writer' = [writer EXCEPT !["page"].step = "put", !["page"].before = Pending]
  BY DEF PageLooks, ruleBounds, ruleHistory
<1>2. "page" \in Writers /\ "page" \notin Checkers /\ row \in RowOfType /\ early \in {"no", "crossed"} /\ pce \in PceType
  BY QuietMiss DEF Writers, Checkers
<1>3. writer \in [Writers -> WriterType] /\ r0 \in WriterType /\ WriterFits("page", r0)
  BY <1>2 DEF RuleInv, RuleTypes
<1>4. CASE r0.kind # "delete" /\ Pending
  BY <1>1, <1>2, <1>4, EndingMove
<1>5. CASE ~(r0.kind # "delete" /\ Pending)
  <2>1. [r0 EXCEPT !.step = "put"] = r1
    <3> HIDE DEF r0
    <3> QED BY <1>3 DEF WriterType
  <2>2. [r1 EXCEPT !.before = Pending] = r
    <3> HIDE DEF r0
    <3> QED OBVIOUS
  <2>3. writer' = [writer EXCEPT !["page"] = r]
    <3>1. [writer EXCEPT !["page"].step = "put"] = [writer EXCEPT !["page"] = r1]
      BY <2>1
    <3>2. [[writer EXCEPT !["page"].step = "put"] EXCEPT !["page"].before = Pending]
            = [[writer EXCEPT !["page"] = r1] EXCEPT !["page"].before = Pending]
      BY <3>1
    <3>3. [[writer EXCEPT !["page"] = r1] EXCEPT !["page"].before = Pending]
            = [writer EXCEPT !["page"] = [r1 EXCEPT !.before = Pending]]
      <4> HIDE DEF r1, r
      <4> QED BY <1>2, <1>3
    <3> HIDE DEF r1, r
    <3> QED BY <1>1, <1>5, <2>2, <3>2, <3>3
  <2>4. Pending \in BOOLEAN
    BY <1>2 DEF Pending, PceType
  <2>5. WriterFits("page", r)
    <3> HIDE DEF r0
    <3>1. r \in WriterType
      BY <1>3, <2>4 DEF WriterType
    <3> QED BY <1>1, <1>2, <1>3, <1>5, <3>1 DEF WriterFits, r0
  <2>6. TakesTheDraft("page", r) => ~pce.foreign
    BY <1>2 DEF TakesTheDraft, Pending
  <2> HIDE DEF r
  <2> QED BY <1>1, <1>2, <2>3, <2>5, <2>6, QuietMove
<1> QED BY <1>4, <1>5

LEMMA PagePutKeeps == ASSUME NEW o \in Outcomes PROVE RuleInv /\ PagePut(o) => RuleInv'
<1> SUFFICES ASSUME RuleInv, PagePut(o) PROVE RuleInv'
  OBVIOUS
<1> DEFINE good == IF Deleting /\ writer["page"].before THEN "save" ELSE "provision"
           bad == IF Deleting THEN "save" ELSE "idle"
           goes == [writer["page"] EXCEPT !.step = good]
           saves == [writer["page"] EXCEPT !.step = "save"]
           r == IF o = "ok" THEN goes ELSE IF bad = "idle" THEN Idle ELSE [writer["page"] EXCEPT !.step = bad]
<1>1. /\ writer["page"].step = "put" /\ pce' = IF o = "refused" THEN pce ELSE [pce EXCEPT !.note = TRUE]
      /\ writer' = [writer EXCEPT !["page"] = r] /\ crossed' = crossed \cup Others("page")
      /\ UNCHANGED <<row, ids, late, trampled, early>>
  BY DEF PagePut, Put
<1>2. /\ "page" \in Writers /\ "page" \notin Checkers /\ row \in RowOfType /\ early \in {"no", "crossed", "alone"}
      /\ pce \in PceType /\ ~trampled /\ WriterFits("page", writer["page"])
  BY DEF Writers, Checkers, RuleInv, RuleTypes, NeverTramples
<1>3. pce' \in PceType /\ pce'.foreign = pce.foreign
  BY <1>1, <1>2, PceStays
<1>4. /\ WriterFits("page", goes) /\ goes.step = good /\ goes.before = writer["page"].before
      /\ WriterFits("page", saves) /\ saves.step = "save"
  <2>1. good \in {"save", "provision"}
    OBVIOUS
  <2> HIDE DEF good
  <2>2. writer["page"].step # "idle"
    BY <1>1
  <2>3. WriterFits("page", goes) /\ goes.step = good /\ goes.before = writer["page"].before
    <3>1. good \in {"look", "active", "put", "provision", "undo", "clear", "save"} /\ good # "put"
      BY <2>1
    <3> DEFINE g == [writer["page"] EXCEPT !.step = good]
    <3>2. WriterFits("page", g) /\ g.step = good /\ g.before = writer["page"].before
      BY <1>2, <2>2, <3>1, StepFits
    <3> QED BY <3>2
  <2> QED BY <1>2, <2>2, <2>3, StepFits
<1>5. r = Idle \/ r = saves \/ r = goes
  OBVIOUS
<1>6. good = "provision" => ~writer["page"].before
  BY <1>1, <1>2 DEF WriterFits, Deleting
<1> HIDE DEF r, goes, saves, good
<1>7. WriterFits("page", r)
  BY <1>4, <1>5, IdleFits
<1>8. TakesTheDraft("page", r) => good = "provision"
  <2>1. ~TakesTheDraft("page", Idle) /\ ~TakesTheDraft("page", saves)
    BY <1>2, <1>4 DEF TakesTheDraft, Idle
  <2>2. TakesTheDraft("page", goes) => good = "provision"
    BY <1>2, <1>4 DEF TakesTheDraft, good
  <2> QED BY <1>5, <2>1, <2>2
<1>9. good = "provision" /\ pce.foreign => "page" \in late
  BY <1>1, <1>2, <1>6 DEF RuleInv, ForeignCameLate, TakesTheDraft
<1> QED BY <1>1, <1>2, <1>3, <1>7, <1>8, <1>9, WritingMove

LEMMA PageProvisionKeeps == ASSUME NEW o \in Outcomes PROVE RuleInv /\ PageProvision(o) => RuleInv'
<1> SUFFICES ASSUME RuleInv, PageProvision(o) PROVE RuleInv'
  OBVIOUS
<1> DEFINE next == IF o = "ok" THEN "save" ELSE IF Deleting THEN "save" ELSE "undo"
           saves == [writer["page"] EXCEPT !.step = "save"]
           undoes == [writer["page"] EXCEPT !.step = "undo"]
           r == IF next = "idle" THEN Idle ELSE [writer["page"] EXCEPT !.step = next]
<1>1. /\ writer["page"].step = "provision" /\ pce' = IF o = "refused" THEN pce ELSE Provisioned
      /\ trampled' = (trampled \/ (o # "refused" /\ Tramples("page")))
      /\ writer' = [writer EXCEPT !["page"] = r] /\ crossed' = crossed \cup Others("page")
      /\ UNCHANGED <<row, ids, late, early>>
  BY DEF PageProvision, Provision
<1>2. /\ "page" \in Writers /\ "page" \notin Checkers /\ row \in RowOfType /\ early \in {"no", "crossed", "alone"}
      /\ pce \in PceType /\ ~trampled
  BY DEF Writers, Checkers, RuleInv, RuleTypes, NeverTramples
<1>3. pce.foreign => "page" \in late
  BY <1>1, <1>2 DEF RuleInv, ForeignCameLate, TakesTheDraft
<1>4. ~trampled'
  BY <1>1, <1>2, <1>3 DEF Tramples
<1>5. pce' \in PceType /\ (pce'.foreign => pce.foreign)
  BY <1>1, <1>2, PceStays
<1>6. WriterFits("page", saves) /\ WriterFits("page", undoes)
  BY <1>1, <1>2, StepFits
<1>7. r = saves \/ r = undoes
  OBVIOUS
<1> HIDE DEF r, saves, undoes
<1> QED BY <1>1, <1>2, <1>3, <1>4, <1>5, <1>6, <1>7, WritingMove

LEMMA PageSavesKeeps == RuleInv /\ PageSaves => RuleInv'
<1> SUFFICES ASSUME RuleInv, PageSaves PROVE RuleInv'
  OBVIOUS
<1> DEFINE w == writer["page"]
<1>1. /\ w.step = "save" /\ writer' = [writer EXCEPT !["page"] = Idle]
      /\ UNCHANGED <<pce, late, crossed, trampled, early>>
      /\ row' = CASE w.kind = "create" -> [NoRow EXCEPT !.id = ids + 1, !.plan = w.plan]
                  [] w.kind = "update" /\ row.id = w.id -> [row EXCEPT !.plan = w.plan]
                  [] w.kind = "delete" /\ row.id = w.id -> NoRow
                  [] OTHER -> row
      /\ ids' = IF w.kind = "create" THEN ids + 1 ELSE ids
  BY DEF PageSaves, Ends, ruleHistory
<1>2. /\ "page" \in Writers /\ w \in WriterType /\ WriterFits("page", w) /\ row \in RowOfType
      /\ ids \in 0 .. MaxIds /\ MaxIds \in Nat /\ writer \in [Writers -> WriterType]
  BY RuleSchedulesAssumption DEF Writers, RuleInv, RuleTypes
<1> HIDE DEF w
<1>3. w.kind = "create" => ids < MaxIds
  BY <1>1, <1>2 DEF WriterFits
<1>4. ids' \in 0 .. MaxIds
  BY <1>1, <1>2, <1>3
<1>5. row' \in RowOfType
  <2>1. w.plan \in Plans
    BY <1>2 DEF WriterType
  <2>2. CASE w.kind = "create"
    <3>1. row' = [NoRow EXCEPT !.id = ids + 1, !.plan = w.plan]
      BY <1>1, <2>2
    <3>2. ids + 1 \in 0 .. MaxIds
      BY <1>2, <1>3, <2>2
    <3>3. NoRow \in RowOfType
      BY <1>2 DEF NoRow, RowOfType, Plans
    <3> QED BY <2>1, <3>1, <3>2, <3>3 DEF RowOfType
  <2>3. CASE w.kind = "update" /\ row.id = w.id
    <3>1. row' = [row EXCEPT !.plan = w.plan]
      BY <1>1, <2>3
    <3> QED BY <1>2, <2>1, <3>1 DEF RowOfType
  <2>4. CASE w.kind = "delete" /\ row.id = w.id
    BY <1>1, <1>2, <2>4 DEF NoRow, RowOfType, Plans
  <2>5. CASE w.kind # "create" /\ ~(w.kind = "update" /\ row.id = w.id) /\ ~(w.kind = "delete" /\ row.id = w.id)
    BY <1>1, <1>2, <2>5
  <2> QED BY <2>2, <2>3, <2>4, <2>5
<1>6. \A v \in Writers : writer'[v] = IF v = "page" THEN Idle ELSE writer[v]
  BY <1>1, <1>2
<1>7. ASSUME NEW v \in Writers PROVE WriterFits(v, writer[v])'
  <2>1. CASE v = "page"
    <3>1. writer'[v] = Idle /\ WriterFits(v, Idle)
      BY <1>6, <2>1, IdleFits
    <3> QED BY <3>1 DEF WriterFits, Idle
  <2>2. CASE v # "page"
    <3>1. writer'[v] = writer[v] /\ v \in Checkers /\ WriterFits(v, writer[v])
      BY <1>6, <2>2 DEF RuleInv, RuleTypes, Writers
    <3> QED BY <3>1 DEF WriterFits
  <2> QED BY <2>1, <2>2
<1>8. RuleTypes'
  <2>1. Idle \in WriterType
    BY IdleFits DEF WriterFits
  <2>2. writer' \in [Writers -> WriterType]
    BY <1>1, <1>2, <2>1
  <2> QED BY <1>1, <1>4, <1>5, <1>7, <2>2 DEF RuleInv, RuleTypes
<1>9. ForeignCameLate'
  BY <1>1, <1>6 DEF RuleInv, ForeignCameLate, TakesTheDraft, Idle
<1>10. UncrossedAreOff'
  <2>1. \A c \in Checkers : c \in Writers /\ c # "page"
    BY DEF Writers, Checkers
  <2> QED BY <1>1, <1>6, <2>1 DEF RuleInv, UncrossedAreOff
<1> QED BY <1>1, <1>8, <1>9, <1>10 DEF RuleInv, NeverTramples, ExpiryDropsDisabled

-----------------------------------------------------------------------------
(* The clock, people and stops.                                            *)

\* The row changes, and nothing that the writers go by.
LEMMA RowMoves ==
    ASSUME RuleInv, row' \in RowOfType, UNCHANGED <<pce, writer, ids, late, crossed, trampled, early>>
    PROVE  RuleInv'
<1>1. \A w \in Writers : WriterFits(w, writer[w])'
  BY DEF RuleInv, RuleTypes, WriterFits
<1>2. RuleTypes'
  BY <1>1 DEF RuleInv, RuleTypes
<1>3. NeverTramples' /\ ExpiryDropsDisabled' /\ ForeignCameLate'
  BY DEF RuleInv, NeverTramples, ExpiryDropsDisabled, ForeignCameLate, TakesTheDraft
<1>4. UncrossedAreOff'
  BY DEF RuleInv, UncrossedAreOff
<1> QED BY <1>2, <1>3, <1>4 DEF RuleInv

LEMMA RowStepsKeep == RuleInv /\ (SetPaused \/ PlanTurns) => RuleInv'
<1> SUFFICES ASSUME RuleInv, SetPaused \/ PlanTurns PROVE RuleInv'
  OBVIOUS
<1>1. row \in RowOfType
  BY DEF RuleInv, RuleTypes
<1>2. UNCHANGED <<pce, writer, ids, late, crossed, trampled, early>>
  BY DEF SetPaused, PlanTurns, ruleHistory
<1>3. CASE SetPaused
  BY <1>1, <1>2, <1>3, RowMoves DEF SetPaused, RowOfType
<1>4. CASE PlanTurns
  <2>1. row.plan \in {"on", "off", "keep"}
    BY <1>1, <1>4 DEF PlanTurns, RowOfType, Plans
  <2> DEFINE new == CASE row.plan = "on" -> "off" [] row.plan = "off" -> "on" [] row.plan = "keep" -> "expired"
  <2>2. row' = [row EXCEPT !.plan = new]
    BY <1>4 DEF PlanTurns
  <2>3. new \in Plans
    BY <2>1 DEF Plans
  <2> HIDE DEF new
  <2>4. row' \in RowOfType
    BY <1>1, <2>2, <2>3 DEF RowOfType
  <2> QED BY <1>2, <2>4, RowMoves
<1> QED BY <1>3, <1>4

LEMMA PeopleKeep == RuleInv /\ (PeopleEdit \/ PeopleProvision \/ PeopleRevert) => RuleInv'
<1> SUFFICES ASSUME RuleInv, PeopleEdit \/ PeopleProvision \/ PeopleRevert PROVE RuleInv'
  OBVIOUS
<1>1. pce \in PceType /\ UNCHANGED <<row, writer, ids, trampled, early>>
  BY DEF RuleInv, RuleTypes, PeopleEdit, PeopleProvision, PeopleRevert, ruleBounds
<1>2. pce' \in PceType
  BY <1>1, PceStays DEF PeopleEdit, PeopleProvision, PeopleRevert
<1>3. RuleTypes' /\ NeverTramples' /\ ExpiryDropsDisabled'
  <2>1. \A w \in Writers : WriterFits(w, writer[w])'
    BY <1>1 DEF RuleInv, RuleTypes, WriterFits
  <2> QED BY <1>1, <1>2, <2>1 DEF RuleInv, RuleTypes, NeverTramples, ExpiryDropsDisabled
<1>4. CASE PeopleEdit
  <2>1. /\ pce' = [pce EXCEPT !.foreign = TRUE] /\ UNCHANGED crossed
        /\ late' = {w \in Writers : writer[w].step \notin {"idle", "look"}}
    BY <1>4 DEF PeopleEdit
  <2>2. pce'.live = pce.live /\ pce'.draft = pce.draft
    BY <1>1, <2>1, PceStays
  <2>3. ForeignCameLate'
    BY <1>1, <2>1 DEF ForeignCameLate, TakesTheDraft
  <2>4. UncrossedAreOff'
    BY <1>1, <2>1, <2>2 DEF RuleInv, UncrossedAreOff, SwitchedOff
  <2> QED BY <1>3, <2>3, <2>4 DEF RuleInv
<1>5. CASE PeopleProvision \/ PeopleRevert
  <2>1. (pce' = Provisioned \/ pce' = Reverted) /\ crossed' = crossed \cup Others("people")
    BY <1>5 DEF PeopleProvision, PeopleRevert
  <2>2. ~pce'.foreign
    BY <1>1, <2>1, PceStays
  <2>3. ForeignCameLate'
    BY <2>2 DEF ForeignCameLate
  <2>4. ASSUME NEW c \in Checkers PROVE c \in crossed' \/ SwitchedOff(writer'[c], pce')
    <3>1. c \in Others("people") \/ writer[c].step = "idle"
      BY DEF Others, Writers, Checkers
    <3> QED BY <1>1, <2>1, <3>1 DEF SwitchedOff
  <2>5. UncrossedAreOff'
    BY <2>4 DEF UncrossedAreOff
  <2> QED BY <1>3, <2>3, <2>5 DEF RuleInv
<1> QED BY <1>4, <1>5

LEMMA RuleStopKeeps == RuleInv /\ RuleStop => RuleInv'
<1> SUFFICES ASSUME RuleInv, RuleStop PROVE RuleInv'
  OBVIOUS
<1>1. writer' = [w \in Writers |-> Idle] /\ UNCHANGED <<pce, row, ids, late, crossed, trampled, early>>
  BY DEF RuleStop
<1>2. \A w \in Writers : writer'[w] = Idle
  BY <1>1
<1>3. ASSUME NEW w \in Writers PROVE WriterFits(w, Idle)' /\ ~TakesTheDraft(w, Idle) /\ SwitchedOff(Idle, pce)
  BY <1>1, IdleFits DEF WriterFits, Idle
<1>4. RuleTypes'
  <2>1. \A w \in Writers : WriterFits(w, writer[w])'
    BY <1>2, <1>3 DEF WriterFits, Idle
  <2>2. Idle \in WriterType
    BY IdleFits DEF WriterFits
  <2> QED BY <1>1, <2>1, <2>2 DEF RuleInv, RuleTypes
<1>5. ForeignCameLate' /\ UncrossedAreOff'
  <2>1. \A c \in Checkers : c \in Writers
    BY DEF Writers
  <2> QED BY <1>1, <1>2, <1>3, <2>1 DEF ForeignCameLate, UncrossedAreOff
<1> QED BY <1>1, <1>4, <1>5 DEF RuleInv, NeverTramples, ExpiryDropsDisabled

LEMMA RuleStep == RuleInv /\ [RuleNext]_ruleVars => RuleInv'
<1> SUFFICES ASSUME RuleInv, [RuleNext]_ruleVars PROVE RuleInv'
  OBVIOUS
<1>1. CASE UNCHANGED ruleVars
  <2>1. UNCHANGED <<pce, row, writer, ids, late, crossed, trampled, early>>
    BY <1>1 DEF ruleVars, ruleBounds, ruleHistory
  <2>2. row' \in RowOfType
    BY <2>1 DEF RuleInv, RuleTypes
  <2> QED BY <2>1, <2>2, RowMoves
<1>2. CASE \E c \in Checkers : CheckBegin(c) \/ CheckFails(c) \/ Check(c)
  <2>1. PICK c \in Checkers : CheckBegin(c) \/ CheckFails(c) \/ Check(c)
    BY <1>2
  <2>2. CASE Check(c)
    <3>1. CASE CheckSkips(c) \/ CheckLooks(c) \/ CheckActive(c) \/ CheckDrops(c)
      BY <3>1, CheckQuietKeeps, CheckLooksKeeps, CheckActiveKeeps
    <3>2. CASE \E o \in Outcomes : CheckPut(c, o) \/ CheckProvision(c, o) \/ CheckClears(c, o) \/ Revert(c, o)
      BY <3>2, CheckPutKeeps, CheckProvisionKeeps, CheckClearsKeeps, RevertKeeps DEF Writers
    <3> QED BY <2>2, <3>1, <3>2 DEF Check
  <2> QED BY <2>1, <2>2, CheckBeginKeeps, CheckQuietKeeps
<1>3. CASE Page
  <2>1. CASE \E o \in Outcomes : PagePut(o) \/ PageProvision(o) \/ Revert("page", o)
    BY <2>1, PagePutKeeps, PageProvisionKeeps, RevertKeeps DEF Writers
  <2> QED BY <1>3, <2>1, PageLooksKeeps, PageSavesKeeps DEF Page
<1>4. CASE \E kind \in {"create", "update", "delete"}, plan \in {"on", "keep"} : PageBegin(kind, plan)
  BY <1>4, PageBeginKeeps
<1> QED BY <1>1, <1>2, <1>3, <1>4, RowStepsKeep, PeopleKeep, RuleStopKeeps DEF RuleNext

\* For every set of checkers and every bound: neither a check nor the page takes live or discards what others had in the
\* draft when it looked, and a check that nobody crosses drops an expiry only with the rule disabled and provisioned
\* (services/rule_schedules.py).
THEOREM SchedulesStayHarmless == RuleSpec => []SchedulesDoNoHarm
<1>1. RuleSpec => []RuleInv
  BY RuleBegins, RuleStep, PTL DEF RuleSpec
<1>2. RuleInv => SchedulesDoNoHarm
  BY RuleTypesSuffice DEF RuleInv, SchedulesDoNoHarm
<1> QED BY <1>1, <1>2, PTL

-----------------------------------------------------------------------------
(* Fleet writes.                                                           *)

Shows == UNION {[S -> FModes \cup {Unseen}] : S \in SUBSET FHosts}
FleetBatch == [at : {"none", "waits", "host", "read", "put", "rate"}, no : Nat, target : 0 .. 3,
               shown : Shows, todo : SUBSET FHosts,
               fit : SUBSET FHosts, host : 0 .. NumHosts, live : FModes, stale : BOOLEAN]
Inside == {"host", "read", "put"}

FleetTypes ==
    /\ batch \in [People -> FleetBatch] /\ confirms \in Nat
    /\ invRead # <<>> => invRead[1] \in [FHosts -> FModes]

\* What a confirmation under way may rely on: it goes forward from what was shown; within the lock it
\* knows the mode of the host it reads unless the console changed it, and has written none of the hosts ahead.
BatchFits(p) ==
    LET b == batch[p] IN
    /\ b.at # "none" => b.no \in 1 .. confirms
    /\ b.at \notin {"read", "put"} => ~b.stale
    /\ b.at \in Inside \cup {"waits"} => b.target = Asks(p) /\ \A h \in DOMAIN b.shown : b.shown[h] < b.target
    /\ b.at \in Inside => lockedBy = p /\ b.todo \subseteq DOMAIN b.shown
    /\ b.at \in {"read", "put"} => b.host \in b.todo /\ (b.stale \/ mode[b.host] = b.live)
    /\ b.at = "put" => b.live = b.shown[b.host] /\ RowOf(b.no, p, b.host, b.target, "pending") \in fleetLog
    /\ b.at # "none" => \A w \in moved : w.no = b.no => b.at \in Inside /\ w.host \notin b.todo

NumbersDiffer == \A p, q \in People : p # q /\ batch[p].at # "none" /\ batch[q].at # "none" => batch[p].no # batch[q].no
MovesAreNumbered == \A w \in moved : w.no \in 1 .. confirms
\* After the one late write nobody is about to write.
LateIsLast ==
    \A w \in moved : w.late => /\ ident = 2 /\ \A p \in People : batch[p].at # "put"
                               /\ \A v \in moved : v.late => v = w

FleetInv ==
    /\ FleetTypeOK /\ FleetTypes /\ (\A p \in People : BatchFits(p)) /\ NumbersDiffer
    /\ MovesAreNumbered /\ LateIsLast /\ OnlyForwardAsShown /\ EveryMoveOnRecord

-----------------------------------------------------------------------------
LEMMA FleetConstants ==
    /\ NumHosts \in Nat /\ MaxConfirms \in Nat /\ "nobody" \notin People
    /\ \A p \in People : Asks(p) \in 1 .. 3
BY FleetAssumption

\* What one step does to one confirmation.
LEMMA BatchIs ==
    ASSUME NEW p \in People, NEW b, batch \in [People -> FleetBatch], b \in FleetBatch, batch' = [batch EXCEPT ![p] = b]
    PROVE  /\ batch' \in [People -> FleetBatch] /\ batch'[p] = b
           /\ \A q \in People : q # p => batch'[q] = batch[q]
<1> HIDE DEF FleetBatch
<1> QED OBVIOUS

\* A confirmation that the step leaves alone still fits.
LEMMA OthersFit ==
    ASSUME NEW q \in People, BatchFits(q), confirms \in Nat, confirms' \in Nat, confirms <= confirms',
           batch'[q] = batch[q],
           batch[q].at \in Inside => lockedBy' = lockedBy,
           batch[q].at \in {"read", "put"} => mode'[batch[q].host] = mode[batch[q].host],
           batch[q].at = "put" => RowOf(batch[q].no, q, batch[q].host, batch[q].target, "pending") \in fleetLog',
           \A w \in moved' : w \in moved \/ batch[q].at = "none" \/ w.no # batch[q].no
    PROVE  BatchFits(q)'
<1> DEFINE b == batch[q]
<1>1. b.at # "none" => b.no \in 1 .. confirms'
  BY DEF BatchFits
<1>2. b.at # "none" => \A w \in moved' : w.no = b.no => b.at \in Inside /\ w.host \notin b.todo
  BY DEF BatchFits
<1>3. BatchFits(q)
  OBVIOUS
<1> QED BY <1>1, <1>2, <1>3 DEF BatchFits, Inside

\* Only what a confirmation says of itself and the log grow: nothing is written to the PCE.
FleetFrame ==
    /\ UNCHANGED <<mode, moved, ident>> /\ fleetLog \subseteq fleetLog'
    /\ confirms' \in Nat /\ confirms <= confirms'
    /\ held' \in [FHosts -> FModes \cup {Unseen}]
    /\ invRead' # <<>> => invRead'[1] \in [FHosts -> FModes]
    /\ \A r \in fleetLog' \ fleetLog : r.result \in {"pending", "ok", "failed", "unknown", "skipped", "refused"}

LEMMA MovesStay ==
    ASSUME FleetInv, moved' = moved, ident' = ident, fleetLog \subseteq fleetLog', confirms' \in Nat, confirms <= confirms'
    PROVE  MovesAreNumbered' /\ OnlyForwardAsShown' /\ EveryMoveOnRecord'
<1>1. MovesAreNumbered'
  BY DEF FleetInv, FleetTypes, MovesAreNumbered
<1> QED BY <1>1 DEF FleetInv, OnlyForwardAsShown, EveryMoveOnRecord

LEMMA FleetFrameKeeps ==
    ASSUME FleetInv, FleetFrame, NEW p \in People, NEW b, b \in FleetBatch, batch' = [batch EXCEPT ![p] = b],
           lockedBy' = lockedBy \/ lockedBy = p \/ lockedBy = "nobody", lockedBy' \in People \cup {"nobody"},
           BatchFits(p)',
           b.at \in Inside => lockedBy' = p,
           b.at # "none" => (batch[p].at # "none" /\ b.no = batch[p].no) \/ b.no = confirms + 1,
           b.at = "put" => ident = 1
    PROVE  FleetInv'
<1>0. /\ FleetTypeOK /\ FleetTypes /\ (\A q \in People : BatchFits(q)) /\ NumbersDiffer /\ LateIsLast
  BY DEF FleetInv
<1>1. /\ batch' \in [People -> FleetBatch] /\ batch'[p] = b /\ \A q \in People : q # p => batch'[q] = batch[q]
  BY <1>0, BatchIs DEF FleetTypes
<1>2. \A q \in People : q # p /\ batch[q].at \in Inside => lockedBy' = lockedBy
  BY <1>0, FleetConstants DEF BatchFits
<1>3. \A q \in People : BatchFits(q)'
  <2> TAKE q \in People
  <2>1. CASE q # p
    BY <2>1, <1>0, <1>1, <1>2, OthersFit DEF FleetFrame, FleetTypes, BatchFits
  <2> QED BY <2>1
<1>4. NumbersDiffer'
  <2>1. \A q \in People : batch[q].at # "none" => batch[q].no \in 1 .. confirms
    BY <1>0 DEF BatchFits
  <2>2. ASSUME NEW q \in People, q # p, batch[q].at # "none", b.at # "none" PROVE batch[q].no # b.no
    BY <2>1, <2>2, <1>0 DEF NumbersDiffer, FleetTypes
  <2> QED BY <1>0, <1>1, <2>2 DEF NumbersDiffer
<1>5. LateIsLast'
  BY <1>0, <1>1 DEF LateIsLast, FleetFrame
<1>6. FleetTypes'
  BY <1>1 DEF FleetTypes, FleetFrame
<1>7. FleetTypeOK'
  <2>1. \A q \in People : batch'[q].at \in {"none", "waits", "host", "read", "put", "rate"}
    BY <1>1 DEF FleetBatch
  <2>2. \A q \in People : batch'[q].at \notin {"none", "waits", "rate"} => lockedBy' = q
    BY <1>3, <2>1 DEF BatchFits, Inside
  <2> QED BY <1>0, <2>1, <2>2 DEF FleetTypeOK, FleetFrame
<1>8. MovesAreNumbered' /\ OnlyForwardAsShown' /\ EveryMoveOnRecord'
  BY MovesStay DEF FleetFrame
<1> QED BY <1>3, <1>4, <1>5, <1>6, <1>7, <1>8 DEF FleetInv

LEMMA NoBatchIs == NoBatch \in FleetBatch /\ NoBatch.at = "none" /\ ~NoBatch.stale
<1>1. <<>> \in [{} -> FModes \cup {Unseen}]
  OBVIOUS
<1>2. {} \in SUBSET FHosts
  OBVIOUS
<1>3. <<>> \in Shows
  BY <1>1, <1>2 DEF Shows
<1>4. NumHosts \in Nat
  BY FleetConstants
<1>5. 0 \in 0 .. NumHosts /\ 0 \in FModes /\ 0 \in 0 .. 3
  BY <1>4 DEF FModes
<1> QED BY <1>3, <1>5 DEF NoBatch, Confirmation, FleetBatch

LEMMA FleetBegins == FleetInit => FleetInv
<1> SUFFICES ASSUME FleetInit PROVE FleetInv
  OBVIOUS
<1>1. \A p \in People : batch[p] = NoBatch
  BY DEF FleetInit
<1>2. mode \in [FHosts -> FModes] /\ held \in [FHosts -> FModes \cup {Unseen}]
  BY DEF FleetInit, FModes
<1>3. FleetTypeOK
  BY <1>1, <1>2, NoBatchIs DEF FleetInit, FleetTypeOK
<1>4. FleetTypes
  BY NoBatchIs DEF FleetInit, FleetTypes
<1>5. \A p \in People : BatchFits(p)
  BY <1>1, NoBatchIs DEF BatchFits, Inside
<1> QED BY <1>1, <1>3, <1>4, <1>5, NoBatchIs
    DEF FleetInit, FleetInv, NumbersDiffer, MovesAreNumbered, LateIsLast, OnlyForwardAsShown, EveryMoveOnRecord
\* Numbers are drawn in order, so a new one has written nothing.
LEMMA NewNumberIsUnused ==
    ASSUME FleetInv
    PROVE  confirms \in Nat /\ confirms + 1 \in Nat /\ \A w \in moved : w.no # confirms + 1
BY DEF FleetInv, FleetTypes, MovesAreNumbered

LEMMA ShownIs ==
    ASSUME NEW hosts \in SUBSET FHosts, held \in [FHosts -> FModes \cup {Unseen}]
    PROVE  [h \in hosts |-> held[h]] \in Shows /\ DOMAIN [h \in hosts |-> held[h]] = hosts
<1>1. [h \in hosts |-> held[h]] \in [hosts -> FModes \cup {Unseen}]
  OBVIOUS
<1> QED BY <1>1 DEF Shows

LEMMA ConfirmKeeps ==
    ASSUME FleetInv, NEW p \in People, NEW hosts \in SUBSET FHosts, Confirm(p, hosts)
    PROVE  FleetInv'
<1> DEFINE shows == [h \in hosts |-> held[h]]
           b == [at |-> "waits", no |-> confirms + 1, target |-> Asks(p), shown |-> shows, todo |-> {},
                 fit |-> {}, host |-> 0, live |-> 0, stale |-> FALSE]
<1>1. batch' = [batch EXCEPT ![p] = b]
  BY DEF Confirm, Confirmation
<1>2. FleetTypes /\ FleetTypeOK
  BY DEF FleetInv
<1>3. shows \in Shows /\ DOMAIN shows = hosts
  BY <1>2, ShownIs DEF FleetTypeOK
<1>4. \A h \in hosts : held[h] < Asks(p) /\ shows[h] = held[h]
  BY DEF Confirm, Refusal
<1> HIDE DEF shows
<1>5. NumHosts \in Nat /\ Asks(p) \in 1 .. 3
  BY FleetConstants
<1>6. b \in FleetBatch
  <2>1. 0 \in 0 .. NumHosts /\ 0 \in FModes /\ Asks(p) \in 0 .. 3
    BY <1>5 DEF FModes
  <2> QED BY <1>3, <2>1, NewNumberIsUnused DEF FleetBatch
<1>7. b.at = "waits" /\ b.no = confirms + 1 /\ b.target = Asks(p) /\ b.shown = shows /\ ~b.stale
  OBVIOUS
<1> HIDE DEF b
<1>8. batch'[p] = b
  BY <1>1, <1>2, <1>6, BatchIs DEF FleetTypes
<1>9. confirms' = confirms + 1 /\ UNCHANGED <<mode, held, invRead, ident, lockedBy, fleetLog, moved>>
  BY DEF Confirm
<1>10. FleetFrame
  BY <1>2, <1>9 DEF FleetFrame, FleetTypes, FleetTypeOK
<1>11. BatchFits(p)'
  BY <1>3, <1>4, <1>7, <1>8, <1>9, NewNumberIsUnused DEF BatchFits, Inside
<1>12. b.no = confirms + 1 /\ b.at \notin Inside /\ lockedBy' \in People \cup {"nobody"} /\ lockedBy' = lockedBy
  BY <1>2, <1>7, <1>9 DEF FleetTypeOK, Inside
<1> QED BY <1>1, <1>6, <1>7, <1>10, <1>11, <1>12, FleetFrameKeeps

LEMMA AskRateKeeps ==
    ASSUME FleetInv, NEW p \in People, NEW hosts \in SUBSET FHosts, AskRate(p, hosts)
    PROVE  FleetInv'
<1> DEFINE shows == [h \in hosts |-> held[h]]
           b == [at |-> "rate", no |-> confirms + 1, target |-> 0, shown |-> shows, todo |-> {},
                 fit |-> {}, host |-> 0, live |-> 0, stale |-> FALSE]
<1>1. batch' = [batch EXCEPT ![p] = b]
  BY DEF AskRate, Confirmation
<1>2. FleetTypes /\ FleetTypeOK
  BY DEF FleetInv
<1>3. shows \in Shows
  BY <1>2, ShownIs DEF FleetTypeOK
<1> HIDE DEF shows
<1>5. NumHosts \in Nat
  BY FleetConstants
<1>6. b \in FleetBatch
  <2>1. 0 \in 0 .. NumHosts /\ 0 \in FModes /\ 0 \in 0 .. 3
    BY <1>5 DEF FModes
  <2> QED BY <1>3, <2>1, NewNumberIsUnused DEF FleetBatch
<1>7. b.at = "rate" /\ b.no = confirms + 1 /\ ~b.stale
  OBVIOUS
<1> HIDE DEF b
<1>8. batch'[p] = b
  BY <1>1, <1>2, <1>6, BatchIs DEF FleetTypes
<1>9. confirms' = confirms + 1 /\ UNCHANGED <<mode, held, invRead, ident, lockedBy, moved>>
  BY DEF AskRate
<1>10. FleetFrame
  <2>1. \A r \in fleetLog' \ fleetLog : r.result = "pending"
    BY DEF AskRate, RowOf
  <2>2. fleetLog \subseteq fleetLog'
    BY DEF AskRate
  <2> QED BY <1>2, <1>9, <2>1, <2>2 DEF FleetFrame, FleetTypes, FleetTypeOK
<1>11. BatchFits(p)'
  BY <1>7, <1>8, <1>9, NewNumberIsUnused DEF BatchFits, Inside
<1>12. b.no = confirms + 1 /\ b.at \notin Inside /\ lockedBy' \in People \cup {"nobody"} /\ lockedBy' = lockedBy
  BY <1>2, <1>7, <1>9 DEF FleetTypeOK, Inside
<1> QED BY <1>1, <1>6, <1>7, <1>10, <1>11, <1>12, FleetFrameKeeps

\* A confirmation ends: nothing is left of it but its rows.
LEMMA FleetEndKeeps ==
    ASSUME FleetInv, FleetFrame, NEW p \in People, batch' = [batch EXCEPT ![p] = NoBatch],
           lockedBy' = lockedBy \/ (lockedBy' = "nobody" /\ lockedBy = p),
           lockedBy = p => lockedBy' = "nobody" \/ batch[p].at \notin Inside
    PROVE  FleetInv'
<1>1. FleetTypes /\ FleetTypeOK
  BY DEF FleetInv
<1>2. batch'[p] = NoBatch
  BY <1>1, NoBatchIs, BatchIs DEF FleetTypes
<1>3. BatchFits(p)'
  BY <1>2, NoBatchIs DEF BatchFits, Inside
<1>4. lockedBy' \in People \cup {"nobody"} /\ NoBatch.at \notin Inside
  BY <1>1, NoBatchIs DEF FleetTypeOK, Inside
<1> QED BY <1>3, <1>4, NoBatchIs, FleetFrameKeeps

LEMMA EndBatchKeeps ==
    ASSUME FleetInv, NEW p \in People, EndBatch(p) PROVE FleetInv'
<1>1. FleetTypes /\ FleetTypeOK /\ BatchFits(p)
  BY DEF FleetInv
<1>2. lockedBy = p
  BY <1>1 DEF EndBatch, BatchFits, Inside
<1>3. FleetFrame
  BY <1>1 DEF EndBatch, FleetFrame, FleetTypes, FleetTypeOK
<1> QED BY <1>2, <1>3, FleetEndKeeps DEF EndBatch

LEMMA BeginBatchKeeps ==
    ASSUME FleetInv, NEW p \in People, BeginBatch(p) PROVE FleetInv'
<1>1. FleetTypes /\ FleetTypeOK /\ BatchFits(p) /\ batch[p] \in FleetBatch /\ p # "nobody"
  BY FleetConstants DEF FleetInv, FleetTypes
<1>2. UNCHANGED <<mode, held, invRead, ident, confirms, moved>> /\ batch[p].at = "waits" /\ lockedBy = "nobody"
  BY DEF BeginBatch, LockFree
<1>3. FleetFrame
  <2>1. \A r \in fleetLog' \ fleetLog : r.result = "refused"
    BY DEF BeginBatch, Row, RowOf
  <2>2. fleetLog \subseteq fleetLog'
    BY DEF BeginBatch
  <2> QED BY <1>1, <1>2, <2>1, <2>2 DEF FleetFrame, FleetTypes, FleetTypeOK
<1>4. CASE batch' = [batch EXCEPT ![p] = NoBatch] /\ lockedBy' = lockedBy
  BY <1>1, <1>2, <1>3, <1>4, FleetEndKeeps
<1> DEFINE fits == {h \in DOMAIN batch[p].shown : Fits(p, h)}
           b1 == [batch[p] EXCEPT !.at = "host"]
           b2 == [b1 EXCEPT !.todo = DOMAIN batch[p].shown]
           b == [b2 EXCEPT !.fit = fits]
<1>5. \/ batch' = [batch EXCEPT ![p] = NoBatch] /\ lockedBy' = lockedBy
      \/ ident = 1 /\ lockedBy' = p /\ batch' = [batch EXCEPT ![p] = b]
  <2>1. CASE ident = 1 /\ lockedBy' = p
             /\ batch' = [batch EXCEPT ![p] = [@ EXCEPT !.at = "host", !.todo = DOMAIN batch[p].shown, !.fit = fits]]
    BY <1>1, <2>1 DEF FleetBatch
  <2> QED BY <2>1 DEF BeginBatch
<1>6. CASE ident = 1 /\ lockedBy' = p /\ batch' = [batch EXCEPT ![p] = b]
  <2>2. DOMAIN batch[p].shown \subseteq FHosts /\ fits \subseteq FHosts
    <3>1. batch[p].shown \in Shows
      BY <1>1 DEF FleetBatch
    <3> QED BY <3>1 DEF Shows
  <2> HIDE DEF fits
  <2>3. b \in FleetBatch /\ b.at = "host" /\ b.no = batch[p].no /\ b.target = batch[p].target /\ b.shown = batch[p].shown
        /\ b.todo = DOMAIN b.shown /\ b.stale = batch[p].stale
    BY <1>1, <2>2 DEF FleetBatch
  <2> HIDE DEF b
  <2>4. batch'[p] = b
    BY <1>1, <1>6, <2>3, BatchIs DEF FleetTypes
  <2>5. BatchFits(p)'
    BY <1>1, <1>2, <1>6, <2>3, <2>4 DEF BatchFits, Inside
  <2>6. /\ lockedBy = "nobody" /\ lockedBy' \in People \cup {"nobody"} /\ lockedBy' = p
        /\ batch[p].at # "none" /\ b.no = batch[p].no /\ b.at # "put" /\ b \in FleetBatch
    BY <1>2, <1>6, <2>3
  <2> QED BY <1>3, <1>6, <2>5, <2>6, FleetFrameKeeps
<1> HIDE DEF b
<1> QED BY <1>4, <1>5, <1>6

\* The batch goes on to its next host; what it wrote, if anything, it wrote to this one.
NextIs(p, h, b) ==
    /\ b \in FleetBatch /\ b.at = "host" /\ b.no = batch[p].no /\ b.target = batch[p].target /\ b.shown = batch[p].shown
    /\ b.todo = batch[p].todo \ {h} /\ ~b.stale

LEMMA Next1Is ==
    ASSUME FleetInv, NEW p \in People, NEW h \in FHosts, batch' = Next1(p, h)
    PROVE  \E b : NextIs(p, h, b) /\ batch' = [batch EXCEPT ![p] = b]
<1> DEFINE b == batch[p]
           c == After(b, h)
<1>1. b \in FleetBatch
  BY DEF FleetInv, FleetTypes
<1>2. batch' = [batch EXCEPT ![p] = c]
  BY DEF Next1
<1>3. 0 \in 0 .. NumHosts /\ 0 \in FModes
  BY FleetConstants DEF FModes
<1>4. c = [at |-> "host", no |-> b.no, target |-> b.target, shown |-> b.shown, todo |-> b.todo \ {h}, fit |-> b.fit,
           host |-> 0, live |-> 0, stale |-> FALSE]
  BY DEF After
<1>5. NextIs(p, h, c)
  BY <1>1, <1>3, <1>4 DEF FleetBatch, NextIs
<1> QED BY <1>2, <1>5

LEMMA PassKeeps ==
    ASSUME FleetInv, NEW p \in People, NEW h \in FHosts, batch' = Next1(p, h), batch[p].at \in Inside, FleetFrame,
           lockedBy' = lockedBy
    PROVE  FleetInv'
<1>1. FleetTypes /\ FleetTypeOK /\ BatchFits(p)
  BY DEF FleetInv
<1>2. PICK b : NextIs(p, h, b) /\ batch' = [batch EXCEPT ![p] = b]
  BY Next1Is
<1>3. batch'[p] = b
  BY <1>1, <1>2, BatchIs DEF FleetTypes, NextIs
<1>4. batch[p].at # "none" /\ batch[p].no \in 1 .. confirms /\ lockedBy = p
  BY <1>1 DEF BatchFits, Inside
<1>5. batch[p].no \in 1 .. confirms'
  BY <1>1, <1>4 DEF FleetFrame, FleetTypes
<1>6. BatchFits(p)'
  BY <1>1, <1>2, <1>3, <1>4, <1>5 DEF BatchFits, NextIs, Inside, FleetFrame
<1> QED BY <1>2, <1>4, <1>6, FleetFrameKeeps DEF NextIs
LEMMA LogGrows ==
    ASSUME FleetInv, UNCHANGED <<mode, held, invRead, ident, confirms, moved>>,
           NEW r, fleetLog' = fleetLog \cup {r}, r.result \in {"pending", "failed", "skipped"}
    PROVE  FleetFrame
BY DEF FleetFrame, FleetInv, FleetTypes, FleetTypeOK

LEMMA RowIs ==
    ASSUME NEW p, NEW h, NEW result
    PROVE  LET r == Row(p, h, result) IN
           /\ r.result = result /\ r.no = batch[p].no /\ r.who = p /\ r.host = h /\ r.target = batch[p].target
BY DEF Row, RowOf

LEMMA PassOverKeeps ==
    ASSUME FleetInv, NEW p \in People, NEW h \in FHosts, PassOver(p, h) PROVE FleetInv'
<1>1. PICK result \in {"failed", "skipped"} : fleetLog' = fleetLog \cup {Row(p, h, result)}
  BY DEF PassOver, Log
<1>2. FleetFrame
  BY <1>1, RowIs, LogGrows DEF PassOver
<1>3. batch[p].at \in Inside /\ batch' = Next1(p, h) /\ lockedBy' = lockedBy
  BY DEF PassOver, Inside
<1> QED BY <1>2, <1>3, PassKeeps

LEMMA ReadHostKeeps ==
    ASSUME FleetInv, NEW p \in People, NEW h \in FHosts, ReadHost(p, h) PROVE FleetInv'
<1>1. FleetTypes /\ FleetTypeOK /\ BatchFits(p) /\ batch[p] \in FleetBatch
  BY DEF FleetInv, FleetTypes
<1>2. UNCHANGED <<mode, held, invRead, ident, lockedBy, confirms, moved>> /\ batch[p].at = "host" /\ h \in batch[p].todo
  BY DEF ReadHost, Turn
<1>3. CASE batch' = Next1(p, h) /\ fleetLog' = Log(p, h, "failed")
  <2>1. FleetFrame
    BY <1>2, <1>3, RowIs, LogGrows DEF Log
  <2> QED BY <1>2, <1>3, <2>1, PassKeeps DEF Inside
<1> DEFINE b1 == [batch[p] EXCEPT !.at = "read"]
           b2 == [b1 EXCEPT !.host = h]
           b == [b2 EXCEPT !.live = mode[h]]
<1>4. \/ batch' = Next1(p, h) /\ fleetLog' = Log(p, h, "failed")
      \/ batch' = [batch EXCEPT ![p] = b] /\ fleetLog' = fleetLog
  <2>1. CASE batch' = [batch EXCEPT ![p] = [@ EXCEPT !.at = "read", !.host = h, !.live = mode[h]]] /\ fleetLog' = fleetLog
    BY <1>1, <2>1 DEF FleetBatch
  <2> QED BY <2>1 DEF ReadHost
<1>5. CASE batch' = [batch EXCEPT ![p] = b] /\ fleetLog' = fleetLog
  <2>1. mode[h] \in FModes /\ h \in 0 .. NumHosts
    BY <1>1, FleetConstants DEF FleetTypeOK, FHosts
  <2>2. /\ b \in FleetBatch /\ b.at = "read" /\ b.no = batch[p].no /\ b.target = batch[p].target
        /\ b.shown = batch[p].shown /\ b.todo = batch[p].todo /\ b.host = h /\ b.live = mode[h]
    BY <1>1, <2>1 DEF FleetBatch
  <2> HIDE DEF b
  <2>3. batch'[p] = b
    BY <1>1, <1>5, <2>2, BatchIs DEF FleetTypes
  <2>4. BatchFits(p)'
    BY <1>1, <1>2, <1>5, <2>2, <2>3 DEF BatchFits, Inside
  <2>5. FleetFrame
    BY <1>1, <1>2, <1>5 DEF FleetFrame, FleetTypes, FleetTypeOK
  <2>6. lockedBy = p /\ lockedBy' = p /\ b.at # "put" /\ batch[p].at # "none"
    BY <1>1, <1>2, <2>2 DEF BatchFits, Inside
  <2> QED BY <1>5, <2>2, <2>4, <2>5, <2>6, FleetFrameKeeps
<1> HIDE DEF b
<1> QED BY <1>3, <1>4, <1>5

LEMMA CheckHostKeeps ==
    ASSUME FleetInv, NEW p \in People, CheckHost(p) PROVE FleetInv'
<1>1. FleetTypes /\ FleetTypeOK /\ BatchFits(p) /\ batch[p] \in FleetBatch
  BY DEF FleetInv, FleetTypes
<1>2. UNCHANGED <<mode, held, invRead, ident, lockedBy, confirms, moved>> /\ batch[p].at = "read"
  BY DEF CheckHost
<1>3. batch[p].host \in batch[p].todo /\ batch[p].host \in FHosts /\ lockedBy = p
  BY <1>1, <1>2 DEF BatchFits, FleetBatch, Inside
<1>4. CASE \E result \in {"failed", "skipped"} : batch' = Next1(p, batch[p].host) /\ fleetLog' = Log(p, batch[p].host, result)
  <2>1. FleetFrame
    BY <1>2, <1>4, RowIs, LogGrows DEF Log
  <2> QED BY <1>2, <1>3, <1>4, <2>1, PassKeeps DEF Inside
<1>5. CASE batch' = [batch EXCEPT ![p].at = "put"] /\ fleetLog' = Intent(p) /\ Agrees(p)
  <2> DEFINE b == [batch[p] EXCEPT !.at = "put"]
  <2>1. batch' = [batch EXCEPT ![p] = b]
    BY <1>1, <1>5 DEF FleetTypes
  <2>2. /\ b \in FleetBatch /\ b.at = "put" /\ b.no = batch[p].no /\ b.target = batch[p].target /\ b.live = batch[p].live
        /\ b.shown = batch[p].shown /\ b.todo = batch[p].todo /\ b.host = batch[p].host /\ b.stale = batch[p].stale
    BY <1>1 DEF FleetBatch
  <2> HIDE DEF b
  <2>3. batch'[p] = b
    BY <1>1, <2>1, <2>2, BatchIs DEF FleetTypes
  <2>4. b.live = b.shown[b.host] /\ ident = 1
    BY <1>5, <2>2 DEF Agrees, SamePce
  <2>5. fleetLog' = fleetLog \cup {RowOf(b.no, p, b.host, b.target, "pending")}
    BY <1>5, <2>2 DEF Intent, Log, Row
  <2>6. BatchFits(p)'
    BY <1>1, <1>2, <2>2, <2>3, <2>4, <2>5 DEF BatchFits, Inside
  <2>7. FleetFrame
    BY <1>2, <1>5, RowIs, LogGrows DEF Intent, Log
  <2>8. lockedBy' = p /\ lockedBy' = lockedBy /\ batch[p].at # "none"
    BY <1>2, <1>3
  <2> QED BY <2>1, <2>2, <2>4, <2>6, <2>7, <2>8, FleetFrameKeeps
<1>6. \/ batch' = [batch EXCEPT ![p].at = "put"] /\ fleetLog' = Intent(p) /\ Agrees(p)
      \/ \E result \in {"failed", "skipped"} : batch' = Next1(p, batch[p].host) /\ fleetLog' = Log(p, batch[p].host, result)
  BY DEF CheckHost
<1> QED BY <1>4, <1>5, <1>6

-----------------------------------------------------------------------------
\* Rows of one confirmation are finished: those of every other stay.
LEMMA OthersRowsStay ==
    ASSUME FleetInv, NEW p \in People, batch[p].at # "none",
           \A r \in fleetLog : r.no # batch[p].no => r \in fleetLog'
    PROVE  /\ \A q \in People : q # p /\ batch[q].at = "put" =>
                 RowOf(batch[q].no, q, batch[q].host, batch[q].target, "pending") \in fleetLog'
           /\ \A w \in moved : w.no # batch[p].no => \E r \in fleetLog' :
                 /\ r.no = w.no /\ r.who = w.who /\ r.host = w.host /\ r.target = w.to
                 /\ r.result \in {"pending", "ok", "unknown"}
<1>1. ASSUME NEW q \in People, q # p, batch[q].at = "put"
      PROVE  RowOf(batch[q].no, q, batch[q].host, batch[q].target, "pending") \in fleetLog'
  <2> DEFINE r == RowOf(batch[q].no, q, batch[q].host, batch[q].target, "pending")
  <2>1. r \in fleetLog
    BY <1>1 DEF FleetInv, BatchFits
  <2>2. r.no # batch[p].no
    BY <1>1 DEF FleetInv, NumbersDiffer, RowOf
  <2> QED BY <2>1, <2>2
<1> QED BY <1>1 DEF FleetInv, EveryMoveOnRecord

LEMMA PostRateKeeps ==
    ASSUME FleetInv, NEW p \in People, PostRate(p) PROVE FleetInv'
<1>1. FleetTypes /\ FleetTypeOK /\ (\A q \in People : BatchFits(q)) /\ NumbersDiffer /\ LateIsLast
  BY DEF FleetInv
<1>2. UNCHANGED <<mode, held, invRead, ident, lockedBy, confirms, moved>> /\ batch[p].at = "rate"
      /\ batch' = [batch EXCEPT ![p] = NoBatch]
  BY DEF PostRate
<1>3. batch' \in [People -> FleetBatch] /\ batch'[p] = NoBatch /\ \A q \in People : q # p => batch'[q] = batch[q]
  BY <1>1, <1>2, NoBatchIs, BatchIs DEF FleetTypes
<1>4. /\ \A r \in fleetLog : r.no # batch[p].no => r \in fleetLog'
      /\ \A r \in fleetLog' : r \in fleetLog \/ r.result \in {"ok", "failed", "unknown"}
  BY DEF PostRate, Row, RowOf
<1>5. \A w \in moved : w.no # batch[p].no
  BY <1>1, <1>2 DEF BatchFits, Inside
<1>6. \A q \in People : BatchFits(q)'
  <2> TAKE q \in People
  <2>1. CASE q # p
    BY <2>1, <1>1, <1>2, <1>3, <1>4, OthersFit, OthersRowsStay DEF FleetTypes
  <2>2. CASE q = p
    BY <2>2, <1>3, NoBatchIs DEF BatchFits, Inside
  <2> QED BY <2>1, <2>2
<1>7. EveryMoveOnRecord'
  BY <1>2, <1>4, <1>5, OthersRowsStay DEF EveryMoveOnRecord
<1>8. NumbersDiffer' /\ LateIsLast'
  BY <1>1, <1>2, <1>3, NoBatchIs DEF NumbersDiffer, LateIsLast
<1>9. FleetTypes' /\ MovesAreNumbered' /\ OnlyForwardAsShown'
  BY <1>2, <1>3 DEF FleetInv, FleetTypes, MovesAreNumbered, OnlyForwardAsShown
<1>10. FleetTypeOK'
  <2>1. \A q \in People : batch'[q].at \in {"none", "waits", "host", "read", "put", "rate"}
    BY <1>3 DEF FleetBatch
  <2>2. \A q \in People : batch'[q].at \notin {"none", "waits", "rate"} => lockedBy' = q
    BY <1>6, <2>1 DEF BatchFits, Inside
  <2> QED BY <1>1, <1>2, <1>4, <2>1, <2>2 DEF FleetTypeOK
<1> QED BY <1>6, <1>7, <1>8, <1>9, <1>10 DEF FleetInv
\* What a write leaves behind: the mode confirmed, with a row that tells of it.
LEMMA WrittenIs ==
    ASSUME FleetInv, NEW p \in People, batch[p].at = "put", Written(p), UNCHANGED <<ident, confirms>>,
           \A r \in fleetLog : r.no # batch[p].no \/ r.host # batch[p].host => r \in fleetLog',
           \E result \in {"pending", "ok", "unknown"} : Row(p, batch[p].host, result) \in fleetLog'
    PROVE  /\ mode' \in [FHosts -> FModes] /\ \A h \in FHosts : h # batch[p].host => mode'[h] = mode[h]
           /\ MovesAreNumbered' /\ OnlyForwardAsShown' /\ EveryMoveOnRecord'
           /\ \E n : moved' = moved \cup {n} /\ n.no = batch[p].no /\ n.host = batch[p].host /\ n.late = (ident # 1)
<1> DEFINE h == batch[p].host
           n == [from |-> mode[h], to |-> batch[p].target, no |-> batch[p].no, shown |-> batch[p].shown[h], who |-> p,
                 host |-> h, unseen |-> batch[p].stale, late |-> ident # 1]
<1>1. FleetTypes /\ FleetTypeOK /\ BatchFits(p) /\ batch[p] \in FleetBatch
  BY DEF FleetInv, FleetTypes
<1>2. moved' = moved \cup {n} /\ mode' = [mode EXCEPT ![h] = batch[p].target]
  BY DEF Written
<1>3. /\ n.from = mode[h] /\ n.to = batch[p].target /\ n.no = batch[p].no /\ n.shown = batch[p].shown[h]
      /\ n.who = p /\ n.host = h /\ n.unseen = batch[p].stale /\ n.late = (ident # 1)
  OBVIOUS
<1> HIDE DEF n
<1>4. h \in FHosts /\ batch[p].target \in FModes
  BY <1>1, FleetConstants DEF BatchFits, Inside, FleetBatch, FModes
<1>5. mode' \in [FHosts -> FModes] /\ \A g \in FHosts : g # h => mode'[g] = mode[g]
  BY <1>1, <1>2, <1>4 DEF FleetTypeOK
<1>6. n.no \in 1 .. confirms
  BY <1>1, <1>3 DEF BatchFits
<1>7. MovesAreNumbered'
  BY <1>2, <1>6 DEF FleetInv, MovesAreNumbered
<1>8. n.unseen \/ (n.from < n.to /\ n.from = n.shown)
  <2>1. h \in DOMAIN batch[p].shown /\ batch[p].shown[h] < batch[p].target /\ batch[p].live = batch[p].shown[h]
    BY <1>1 DEF BatchFits, Inside
  <2> QED BY <1>1, <1>3, <2>1 DEF BatchFits
<1>9. OnlyForwardAsShown'
  BY <1>2, <1>8 DEF FleetInv, OnlyForwardAsShown
<1>10. EveryMoveOnRecord'
  <2>1. \A w \in moved : w.no = batch[p].no => w.host \notin batch[p].todo
    BY <1>1 DEF BatchFits
  <2>2. ASSUME NEW w \in moved, w.no = batch[p].no
        PROVE  \E r \in fleetLog' : /\ r.no = w.no /\ r.who = w.who /\ r.host = w.host /\ r.target = w.to
                                    /\ r.result \in {"pending", "ok", "unknown"}
    <3>1. PICK r \in fleetLog : /\ r.no = w.no /\ r.who = w.who /\ r.host = w.host /\ r.target = w.to
                                /\ r.result \in {"pending", "ok", "unknown"}
      BY DEF FleetInv, EveryMoveOnRecord
    <3>2. w.host # h
      BY <1>1, <2>1, <2>2 DEF BatchFits
    <3> QED BY <3>1, <3>2
  <2> QED BY <1>2, <1>3, <2>2, RowIs, OthersRowsStay DEF EveryMoveOnRecord
<1> QED BY <1>2, <1>3, <1>5, <1>7, <1>9, <1>10

LEMMA PutModeKeeps ==
    ASSUME FleetInv, NEW p \in People, PutMode(p) PROVE FleetInv'
<1> DEFINE h == batch[p].host
<1>1. FleetTypes /\ FleetTypeOK /\ (\A q \in People : BatchFits(q)) /\ NumbersDiffer /\ LateIsLast /\ batch[p] \in FleetBatch
  BY DEF FleetInv, FleetTypes
<1>2. UNCHANGED <<invRead, ident, lockedBy, confirms>> /\ batch[p].at = "put" /\ batch' = Next1(p, h)
  BY DEF PutMode
<1>3. h \in batch[p].todo /\ h \in FHosts /\ lockedBy = p /\ batch[p].target \in FModes
  BY <1>1, <1>2, FleetConstants DEF BatchFits, FleetBatch, Inside, FModes
<1>4. PICK b : NextIs(p, h, b) /\ batch' = [batch EXCEPT ![p] = b]
  BY <1>2, <1>3, Next1Is
<1>5. batch' \in [People -> FleetBatch] /\ batch'[p] = b /\ \A q \in People : q # p => batch'[q] = batch[q]
  BY <1>1, <1>4, BatchIs DEF FleetTypes, NextIs
<1>6. held' \in [FHosts -> FModes \cup {Unseen}]
  <2>1. held' = held \/ held' = [held EXCEPT ![h] = batch[p].target]
    BY DEF PutMode
  <2> QED BY <1>1, <1>3, <2>1 DEF FleetTypeOK
<1>7. PICK result \in {"ok", "failed", "unknown"} :
        fleetLog' = Finish(p, result) /\ ((Written(p) /\ result # "failed") \/ UNCHANGED <<mode, moved>>)
  BY DEF PutMode
<1>8. /\ \A r \in fleetLog : r.no # batch[p].no \/ r.host # h => r \in fleetLog'
      /\ \A r \in fleetLog' : r \in fleetLog \/ r.result \in {"ok", "failed", "unknown"}
      /\ Row(p, h, result) \in fleetLog'
  BY <1>7, RowIs DEF Finish
<1>9. \A w \in moved : w.no = batch[p].no => w.host # h
  BY <1>1, <1>2, <1>3 DEF BatchFits
<1>10. /\ mode' \in [FHosts -> FModes] /\ \A g \in FHosts : g # h => mode'[g] = mode[g]
       /\ MovesAreNumbered' /\ OnlyForwardAsShown' /\ EveryMoveOnRecord'
       /\ \/ moved' = moved
          \/ \E n : moved' = moved \cup {n} /\ n.no = batch[p].no /\ n.host = h /\ n.late = (ident # 1)
  <2>1. CASE Written(p) /\ result # "failed"
    BY <1>2, <1>7, <1>8, <2>1, WrittenIs
  <2>2. CASE UNCHANGED <<mode, moved>>
    <3>1. MovesAreNumbered' /\ OnlyForwardAsShown'
      BY <1>2, <2>2 DEF FleetInv, MovesAreNumbered, OnlyForwardAsShown
    <3>2. EveryMoveOnRecord'
      <4>1. ASSUME NEW w \in moved
            PROVE  \E r \in fleetLog' : /\ r.no = w.no /\ r.who = w.who /\ r.host = w.host /\ r.target = w.to
                                        /\ r.result \in {"pending", "ok", "unknown"}
        <5>1. PICK r \in fleetLog : /\ r.no = w.no /\ r.who = w.who /\ r.host = w.host /\ r.target = w.to
                                    /\ r.result \in {"pending", "ok", "unknown"}
          BY DEF FleetInv, EveryMoveOnRecord
        <5> QED BY <1>8, <1>9, <5>1
      <4> QED BY <2>2, <4>1 DEF EveryMoveOnRecord
    <3> QED BY <1>1, <2>2, <3>1, <3>2 DEF FleetTypeOK
  <2> QED BY <1>7, <2>1, <2>2
<1>11. \A w \in moved' : w \in moved \/ (w.no = batch[p].no /\ w.host = h)
  BY <1>10
<1>12. \A q \in People : q # p /\ batch[q].at # "none" => batch[q].no # batch[p].no /\ batch[q].at \notin Inside
  BY <1>1, <1>2, <1>3 DEF NumbersDiffer, BatchFits
<1>13. \A q \in People : BatchFits(q)'
  <2> TAKE q \in People
  <2>1. CASE q # p
    BY <2>1, <1>1, <1>2, <1>5, <1>11, <1>12, OthersFit DEF Inside, FleetTypes
  <2>2. CASE q = p
    <3>1. BatchFits(p)
      BY <1>1
    <3> QED BY <2>2, <3>1, <1>2, <1>3, <1>4, <1>5, <1>11 DEF BatchFits, NextIs, Inside
  <2> QED BY <2>1, <2>2
<1>14. NumbersDiffer'
  BY <1>1, <1>2, <1>4, <1>5 DEF NumbersDiffer, NextIs
<1>15. LateIsLast'
  <2>1. \A q \in People : batch'[q].at # "put"
    BY <1>4, <1>5, <1>12 DEF Inside, NextIs
  <2>2. \A w \in moved : ~w.late
    BY <1>1, <1>2 DEF LateIsLast
  <2>3. ident = 1 \/ ident = 2
    BY <1>1 DEF FleetTypeOK
  <2> QED BY <1>2, <1>10, <2>1, <2>2, <2>3 DEF LateIsLast
<1>16. FleetTypes'
  BY <1>1, <1>2, <1>5 DEF FleetTypes
<1>17. FleetTypeOK'
  <2>1. \A q \in People : batch'[q].at \in {"none", "waits", "host", "read", "put", "rate"}
    BY <1>5 DEF FleetBatch
  <2>2. \A q \in People : batch'[q].at \notin {"none", "waits", "rate"} => lockedBy' = q
    BY <1>13, <2>1 DEF BatchFits, Inside
  <2> QED BY <1>1, <1>2, <1>6, <1>8, <1>10, <2>1, <2>2 DEF FleetTypeOK
<1> QED BY <1>10, <1>13, <1>14, <1>15, <1>16, <1>17 DEF FleetInv
LEMMA ConsoleMovesKeep ==
    ASSUME FleetInv, NEW h \in FHosts, NEW to \in FModes, ConsoleMoves(h, to) PROVE FleetInv'
<1>1. FleetTypes /\ FleetTypeOK /\ (\A q \in People : BatchFits(q)) /\ NumbersDiffer /\ LateIsLast
  BY DEF FleetInv
<1>2. UNCHANGED <<held, invRead, ident, lockedBy, fleetLog, confirms, moved>> /\ mode' = [mode EXCEPT ![h] = to]
  BY DEF ConsoleMoves
<1>3. ASSUME NEW q \in People
      PROVE  /\ batch'[q] \in FleetBatch
             /\ \/ batch'[q] = batch[q] /\ (batch[q].at \in {"read", "put"} => batch[q].host # h)
                \/ /\ batch[q].at \in {"read", "put"} /\ batch'[q].stale /\ batch'[q].at = batch[q].at
                   /\ batch'[q].no = batch[q].no /\ batch'[q].target = batch[q].target
                   /\ batch'[q].shown = batch[q].shown /\ batch'[q].todo = batch[q].todo
                   /\ batch'[q].host = batch[q].host /\ batch'[q].live = batch[q].live
  <2> DEFINE t == TRUE
             b == [batch[q] EXCEPT !.stale = t]
  <2>1. batch[q] \in FleetBatch
    BY <1>1 DEF FleetTypes
  <2>2. batch'[q] = IF batch[q].at \in {"read", "put"} /\ batch[q].host = h THEN b ELSE batch[q]
    BY DEF ConsoleMoves
  <2>3. t \in BOOLEAN /\ t
    OBVIOUS
  <2> HIDE DEF t
  <2>4. /\ b \in FleetBatch /\ b.stale = t /\ b.at = batch[q].at
        /\ b.no = batch[q].no /\ b.target = batch[q].target
        /\ b.shown = batch[q].shown /\ b.todo = batch[q].todo
        /\ b.host = batch[q].host /\ b.live = batch[q].live
    BY <2>1, <2>3 DEF FleetBatch
  <2> HIDE DEF b
  <2> QED BY <2>1, <2>2, <2>3, <2>4
<1>4. \A q \in People : batch'[q].at = batch[q].at /\ batch'[q].no = batch[q].no
  BY <1>3
<1>5. \A g \in FHosts : g # h => mode'[g] = mode[g]
  BY <1>1, <1>2 DEF FleetTypeOK
<1>6. \A q \in People : BatchFits(q)'
  <2> TAKE q \in People
  <2>1. BatchFits(q) /\ batch[q] \in FleetBatch /\ confirms \in Nat
    BY <1>1 DEF FleetTypes
  <2>2. CASE batch'[q] = batch[q] /\ (batch[q].at \in {"read", "put"} => batch[q].host # h)
    <3>1. batch[q].at \in {"read", "put"} => mode'[batch[q].host] = mode[batch[q].host]
      BY <1>5, <2>1, <2>2 DEF BatchFits, FleetBatch
    <3>2. batch[q].at = "put" => RowOf(batch[q].no, q, batch[q].host, batch[q].target, "pending") \in fleetLog'
      BY <1>2, <2>1 DEF BatchFits
    <3> QED BY <1>2, <2>1, <2>2, <3>1, <3>2, OthersFit
  <2>3. CASE /\ batch[q].at \in {"read", "put"} /\ batch'[q].stale /\ batch'[q].at = batch[q].at
             /\ batch'[q].no = batch[q].no /\ batch'[q].target = batch[q].target
             /\ batch'[q].shown = batch[q].shown /\ batch'[q].todo = batch[q].todo
             /\ batch'[q].host = batch[q].host /\ batch'[q].live = batch[q].live
    BY <1>2, <2>1, <2>3 DEF BatchFits, Inside
  <2> QED BY <1>3, <2>2, <2>3
<1>7. batch' = [q \in People |-> batch'[q]]
  BY DEF ConsoleMoves
<1>8. FleetTypes'
  <2>1. batch' \in [People -> FleetBatch]
    BY <1>3, <1>7
  <2> QED BY <1>1, <1>2, <2>1 DEF FleetTypes
<1>9. FleetTypeOK' /\ NumbersDiffer' /\ LateIsLast'
  <2>1. mode' \in [FHosts -> FModes]
    BY <1>1, <1>2 DEF FleetTypeOK
  <2> QED BY <1>1, <1>2, <1>4, <2>1 DEF FleetTypeOK, NumbersDiffer, LateIsLast
<1>10. MovesAreNumbered' /\ OnlyForwardAsShown' /\ EveryMoveOnRecord'
  BY <1>1, <1>2, MovesStay DEF FleetTypes
<1> QED BY <1>6, <1>8, <1>9, <1>10 DEF FleetInv

\* The inventory read and a switch of the PCE touch no confirmation.
LEMMA InventoryKeeps == ASSUME FleetInv, InventoryReads \/ InventoryStores \/ FleetSwitch PROVE FleetInv'
<1>1. FleetTypes /\ FleetTypeOK /\ (\A q \in People : BatchFits(q)) /\ NumbersDiffer /\ LateIsLast
  BY DEF FleetInv
<1>2. UNCHANGED <<mode, batch, lockedBy, fleetLog, confirms, moved>> /\ ident' \in 1 .. 2 /\ (ident' = ident \/ ident' = 2)
  BY <1>1 DEF InventoryReads, InventoryStores, FleetSwitch, FleetTypeOK
<1>3. held' \in [FHosts -> FModes \cup {Unseen}]
  BY <1>1 DEF InventoryReads, InventoryStores, FleetSwitch, FleetTypeOK, FleetTypes
<1>4. invRead' # <<>> => invRead'[1] \in [FHosts -> FModes]
  BY <1>1 DEF InventoryReads, InventoryStores, FleetSwitch, FleetTypeOK, FleetTypes
<1>5. FleetTypes' /\ FleetTypeOK' /\ NumbersDiffer' /\ LateIsLast'
  BY <1>1, <1>2, <1>3, <1>4 DEF FleetTypes, FleetTypeOK, NumbersDiffer, LateIsLast
<1>6. \A q \in People : BatchFits(q)'
  BY <1>1, <1>2 DEF BatchFits
<1>7. MovesAreNumbered' /\ OnlyForwardAsShown' /\ EveryMoveOnRecord'
  BY <1>2 DEF FleetInv, MovesAreNumbered, OnlyForwardAsShown, EveryMoveOnRecord
<1> QED BY <1>5, <1>6, <1>7 DEF FleetInv

LEMMA FleetStopKeeps == ASSUME FleetInv, FleetStop PROVE FleetInv'
<1>1. FleetTypes /\ FleetTypeOK /\ (\A q \in People : BatchFits(q)) /\ LateIsLast
  BY DEF FleetInv
<1>2. UNCHANGED <<held, ident, fleetLog, confirms>> /\ batch' = [p \in People |-> NoBatch] /\ lockedBy' = "nobody"
      /\ invRead' = <<>>
  BY DEF FleetStop
<1>3. \A p \in People : batch'[p] = NoBatch
  BY <1>2
<1>4. /\ mode' \in [FHosts -> FModes] /\ MovesAreNumbered' /\ OnlyForwardAsShown' /\ EveryMoveOnRecord'
      /\ moved' = moved \/ \E n : moved' = moved \cup {n} /\ n.late = (ident # 1) /\ \E p \in People : batch[p].at = "put"
  <2>1. CASE UNCHANGED <<mode, moved>>
    BY <1>1, <1>2, <2>1, MovesStay DEF FleetTypes, FleetTypeOK
  <2>2. CASE \E p \in People : batch[p].at = "put" /\ Written(p)
    <3>1. PICK p \in People : batch[p].at = "put" /\ Written(p)
      BY <2>2
    <3>2. Row(p, batch[p].host, "pending") \in fleetLog'
      BY <1>1, <1>2, <3>1 DEF BatchFits, Row
    <3> QED BY <1>2, <3>1, <3>2, WrittenIs
  <2> QED BY <2>1, <2>2 DEF FleetStop
<1>5. FleetTypes' /\ FleetTypeOK' /\ NumbersDiffer' /\ \A p \in People : BatchFits(p)'
  BY <1>1, <1>2, <1>3, <1>4, NoBatchIs DEF FleetTypes, FleetTypeOK, NumbersDiffer, BatchFits, Inside
<1>6. LateIsLast'
  <2>1. \A p \in People : batch'[p].at # "put"
    BY <1>3, NoBatchIs
  <2>2. (\E p \in People : batch[p].at = "put") => \A w \in moved : ~w.late
    BY <1>1 DEF LateIsLast
  <2>3. ident = 1 \/ ident = 2
    BY <1>1 DEF FleetTypeOK
  <2>4. CASE moved' = moved
    BY <1>1, <1>2, <2>1, <2>4 DEF LateIsLast
  <2>5. CASE \E n : moved' = moved \cup {n} /\ n.late = (ident # 1) /\ \E p \in People : batch[p].at = "put"
    BY <1>2, <2>1, <2>2, <2>3, <2>5 DEF LateIsLast
  <2> QED BY <1>4, <2>4, <2>5
<1> QED BY <1>4, <1>5, <1>6 DEF FleetInv

LEMMA FleetStep == FleetInv /\ [FleetNext]_fleetVars => FleetInv'
<1> SUFFICES ASSUME FleetInv, [FleetNext]_fleetVars PROVE FleetInv'
  OBVIOUS
<1>1. CASE UNCHANGED fleetVars
  <2>1. UNCHANGED <<mode, held, invRead, ident, batch, lockedBy, fleetLog, confirms, moved>>
    BY <1>1 DEF fleetVars
  <2>2. \A p \in People : BatchFits(p)'
    BY <2>1 DEF FleetInv, BatchFits
  <2> QED BY <2>1, <2>2 DEF FleetInv, FleetTypes, FleetTypeOK, NumbersDiffer, MovesAreNumbered, LateIsLast,
                            OnlyForwardAsShown, EveryMoveOnRecord
<1>2. CASE \E p \in People : FleetWorks(p)
  <2>1. PICK p \in People : FleetWorks(p)
    BY <1>2
  <2>2. CASE \E h \in FHosts : PassOver(p, h) \/ ReadHost(p, h)
    BY <2>2, PassOverKeeps, ReadHostKeeps
  <2> QED BY <2>1, <2>2, PostRateKeeps, BeginBatchKeeps, CheckHostKeeps, PutModeKeeps, EndBatchKeeps DEF FleetWorks
<1>3. CASE \E p \in People, hs \in SUBSET FHosts : Confirm(p, hs) \/ AskRate(p, hs)
  BY <1>3, ConfirmKeeps, AskRateKeeps
<1>4. CASE \E h \in FHosts, to \in FModes : ConsoleMoves(h, to)
  BY <1>4, ConsoleMovesKeep
<1> QED BY <1>1, <1>2, <1>3, <1>4, InventoryKeeps, FleetStopKeeps DEF FleetNext

LEMMA AtMostOne ==
    ASSUME NEW S, \A x, y \in S : x = y PROVE Cardinality(S) <= 1
<1>1. CASE S = {}
  BY <1>1, FS_EmptySet
<1>2. CASE \E x \in S : TRUE
  <2>1. PICK x \in S : TRUE
    BY <1>2
  <2>2. S = {x}
    BY <2>1
  <2> QED BY <2>2, FS_Singleton
<1> QED BY <1>1, <1>2

LEMMA FleetIsSound == FleetInv => MovesAreSound
<1> SUFFICES ASSUME FleetInv PROVE MovesAreSound
  OBVIOUS
<1>1. \A x, y \in {w \in moved : w.late} : x = y
  BY DEF FleetInv, LateIsLast
<1>2. LittleAfterSwitch
  BY <1>1, AtMostOne DEF LittleAfterSwitch
<1> QED BY <1>2 DEF FleetInv, MovesAreSound

-----------------------------------------------------------------------------
(* Quarantine.                                                             *)

Worn == SUBSET ({"app"} \cup Levels)
QBatch == [at : {"none", "label", "host", "put"}, no : Nat, level : Levels \cup {Remove}, todo : SUBSET QHosts,
           every : SUBSET Levels, host : 0 .. NumQHosts, read : Worn, stale : BOOLEAN]

QuarantineTypes == qbatch \in [Handlers -> QBatch] /\ batches \in Nat

\* What a batch may rely on: its level's label is on the PCE, the labels it read but the level are still the
\* host's unless the console changed them, and it has relabelled none of the hosts ahead.
QBatchFits(p) ==
    LET b == qbatch[p] IN
    /\ b.at # "none" => b.no \in 1 .. batches
    /\ b.at # "put" => ~b.stale
    /\ b.every \subseteq known
    /\ b.at \in {"host", "put"} => b.level = Remove \/ b.level \in b.every
    /\ b.at = "put" => /\ b.host \in b.todo /\ b.read \cap Levels \subseteq known
                       /\ b.stale \/ b.read \ Levels = worn[b.host] \ Levels
                       /\ QRowOf(b.no, p, b.host, b.level, "pending", b.read) \in qlog
    /\ b.at # "none" => \A w \in relabels : w.no = b.no => b.at \in {"host", "put"} /\ w.host \notin b.todo

QNumbersDiffer ==
    \A p, q \in Handlers : p # q /\ qbatch[p].at # "none" /\ qbatch[q].at # "none" => qbatch[p].no # qbatch[q].no
RelabelsAreNumbered == \A w \in relabels : w.no \in 1 .. batches
\* After a late write its person writes no more.
QLateIsLast ==
    \A w \in relabels : w.late => /\ qident = 2 /\ \A p \in Handlers : w.who = p => qbatch[p].at # "put"
                                  /\ \A v \in relabels : v.late /\ v.who = w.who => v = w

QuarantineInv ==
    /\ QuarantineTypeOK /\ QuarantineTypes /\ (\A p \in Handlers : QBatchFits(p)) /\ QNumbersDiffer
    /\ RelabelsAreNumbered /\ QLateIsLast /\ OtherLabelsStay /\ OneLevelSent /\ RemovedIsGone /\ RelabelOnRecord

-----------------------------------------------------------------------------
LEMMA QuarantineConstants ==
    NumQHosts \in Nat /\ "app" \notin Levels /\ Remove \notin Levels /\ \A S \in Selections : S \subseteq QHosts
BY QuarantineAssumption DEF Remove, QHosts

LEMMA QBatchIs ==
    ASSUME NEW p \in Handlers, NEW b, qbatch \in [Handlers -> QBatch], b \in QBatch, qbatch' = [qbatch EXCEPT ![p] = b]
    PROVE  /\ qbatch' \in [Handlers -> QBatch] /\ qbatch'[p] = b
           /\ \A q \in Handlers : q # p => qbatch'[q] = qbatch[q]
<1> HIDE DEF QBatch
<1> QED OBVIOUS

LEMMA WorkIs ==
    ASSUME NEW at \in {"none", "label", "host"}, NEW no \in Nat, NEW level \in Levels \cup {Remove},
           NEW todo \in SUBSET QHosts, NEW every \in SUBSET Levels
    PROVE  LET b == Work(at, no, level, todo, every) IN
           b \in QBatch /\ b.at = at /\ b.no = no /\ b.level = level /\ b.todo = todo /\ b.every = every /\ ~b.stale
<1>1. 0 \in 0 .. NumQHosts /\ {} \in Worn
  BY QuarantineConstants DEF Worn
<1> HIDE DEF Worn, Remove
<1> QED BY <1>1 DEF Work, QBatch

LEMMA NoWorkIs ==
    NoWork \in QBatch /\ NoWork.at = "none" /\ NoWork.every = {} /\ ~NoWork.stale
<1>1. {} \in SUBSET QHosts /\ {} \in SUBSET Levels /\ 0 \in Nat /\ Remove \in Levels \cup {Remove}
  OBVIOUS
<1> QED BY <1>1, WorkIs DEF NoWork

LEMMA QuarantineBegins == QuarantineInit => QuarantineInv
<1> SUFFICES ASSUME QuarantineInit PROVE QuarantineInv
  OBVIOUS
<1>1. \A p \in Handlers : qbatch[p] = NoWork
  BY DEF QuarantineInit
<1>2. QuarantineTypeOK
  <2>1. \A h \in QHosts : worn[h] = {"app"}
    BY DEF QuarantineInit
  <2> QED BY <1>1, <2>1, NoWorkIs, QuarantineConstants DEF QuarantineInit, QuarantineTypeOK
<1>3. QuarantineTypes
  BY NoWorkIs DEF QuarantineInit, QuarantineTypes
<1>4. \A p \in Handlers : QBatchFits(p)
  BY <1>1, NoWorkIs DEF QBatchFits
<1> QED BY <1>1, <1>2, <1>3, <1>4, NoWorkIs
    DEF QuarantineInit, QuarantineInv, QNumbersDiffer, RelabelsAreNumbered, QLateIsLast, OtherLabelsStay, OneLevelSent,
        RemovedIsGone, RelabelOnRecord

LEMMA QOthersFit ==
    ASSUME NEW q \in Handlers, QBatchFits(q), batches \in Nat, batches' \in Nat, batches <= batches',
           known \subseteq known',
           qbatch'[q] = qbatch[q],
           qbatch[q].at = "put" =>
             /\ qbatch[q].stale \/ worn'[qbatch[q].host] \ Levels = worn[qbatch[q].host] \ Levels
             /\ QRowOf(qbatch[q].no, q, qbatch[q].host, qbatch[q].level, "pending", qbatch[q].read) \in qlog',
           \A w \in relabels' : w \in relabels \/ qbatch[q].at = "none" \/ w.no # qbatch[q].no
    PROVE  QBatchFits(q)'
<1> DEFINE b == qbatch[q]
<1>1. b.at # "none" => b.no \in 1 .. batches'
  BY DEF QBatchFits
<1>2. b.at # "none" => \A w \in relabels' : w.no = b.no => b.at \in {"host", "put"} /\ w.host \notin b.todo
  BY DEF QBatchFits
<1>3. b.at = "put" => b.stale \/ b.read \ Levels = worn'[b.host] \ Levels
  BY DEF QBatchFits
<1>4. QBatchFits(q)
  OBVIOUS
<1> QED BY <1>1, <1>2, <1>3, <1>4 DEF QBatchFits

\* Only the batches, the labels that exist and the log grow: no host is relabelled.
QuarantineFrame ==
    /\ UNCHANGED <<worn, qident, keyed, relabels>> /\ qlog \subseteq qlog'
    /\ batches' \in Nat /\ batches <= batches' /\ known \subseteq known' /\ known' \subseteq Levels
    /\ \A r \in qlog' \ qlog : r.result \in {"refused", "failed", "pending", "ok", "unknown", "not_quarantined"}

LEMMA RelabelsStay ==
    ASSUME QuarantineInv, relabels' = relabels, keyed' = keyed, qlog \subseteq qlog', batches' \in Nat, batches <= batches'
    PROVE  RelabelsAreNumbered' /\ OtherLabelsStay' /\ OneLevelSent' /\ RemovedIsGone' /\ RelabelOnRecord'
<1>1. RelabelsAreNumbered'
  BY DEF QuarantineInv, QuarantineTypes, RelabelsAreNumbered
<1>2. OtherLabelsStay' /\ OneLevelSent' /\ RemovedIsGone'
  BY DEF QuarantineInv, OtherLabelsStay, OneLevelSent, RemovedIsGone
<1>3. RelabelOnRecord'
  BY DEF QuarantineInv, RelabelOnRecord
<1> QED BY <1>1, <1>2, <1>3

LEMMA QuarantineFrameKeeps ==
    ASSUME QuarantineInv, QuarantineFrame, NEW p \in Handlers, NEW b, b \in QBatch,
           qbatch' = [qbatch EXCEPT ![p] = b],
           QBatchFits(p)',
           b.at # "none" => (qbatch[p].at # "none" /\ b.no = qbatch[p].no) \/ b.no = batches + 1,
           b.at = "put" => qident = 1
    PROVE  QuarantineInv'
<1>0. /\ QuarantineTypeOK /\ QuarantineTypes /\ (\A q \in Handlers : QBatchFits(q)) /\ QNumbersDiffer /\ QLateIsLast
  BY DEF QuarantineInv
<1>1. /\ qbatch' \in [Handlers -> QBatch] /\ qbatch'[p] = b /\ \A q \in Handlers : q # p => qbatch'[q] = qbatch[q]
  BY <1>0, QBatchIs DEF QuarantineTypes
<1>3. \A q \in Handlers : QBatchFits(q)'
  <2> TAKE q \in Handlers
  <2>1. CASE q # p
    BY <2>1, <1>0, <1>1, QOthersFit DEF QuarantineFrame, QuarantineTypes, QBatchFits
  <2> QED BY <2>1
<1>4. QNumbersDiffer'
  <2>1. \A q \in Handlers : qbatch[q].at # "none" => qbatch[q].no \in 1 .. batches
    BY <1>0 DEF QBatchFits
  <2>2. ASSUME NEW q \in Handlers, q # p, qbatch[q].at # "none", b.at # "none" PROVE qbatch[q].no # b.no
    BY <2>1, <2>2, <1>0 DEF QNumbersDiffer, QuarantineTypes
  <2> QED BY <1>0, <1>1, <2>2 DEF QNumbersDiffer
<1>5. QLateIsLast'
  BY <1>0, <1>1 DEF QLateIsLast, QuarantineFrame
<1>6. QuarantineTypes'
  BY <1>1 DEF QuarantineTypes, QuarantineFrame
<1>7. QuarantineTypeOK'
  <2>1. \A q \in Handlers : qbatch'[q].at \in {"none", "label", "host", "put"}
    BY <1>1 DEF QBatch
  <2>2. \A r \in qlog' : r.result \in {"refused", "failed", "pending", "ok", "unknown", "not_quarantined"}
    BY <1>0 DEF QuarantineTypeOK, QuarantineFrame
  <2> QED BY <1>0, <2>1, <2>2 DEF QuarantineTypeOK, QuarantineFrame
<1>8. RelabelsAreNumbered' /\ OtherLabelsStay' /\ OneLevelSent' /\ RemovedIsGone' /\ RelabelOnRecord'
  BY RelabelsStay DEF QuarantineFrame
<1> QED BY <1>3, <1>4, <1>5, <1>6, <1>7, <1>8 DEF QuarantineInv

\* A batch begins or goes on without a write.
WorkStep(p, at, no, level, todo, every) ==
    /\ at \in {"label", "host"} /\ no \in Nat /\ level \in Levels \cup {Remove}
    /\ todo \in SUBSET QHosts /\ every \in SUBSET Levels /\ every \subseteq known'
    /\ qbatch' = [qbatch EXCEPT ![p] = Work(at, no, level, todo, every)]
    /\ at = "host" => level = Remove \/ level \in every
    /\ \/ no = batches + 1 /\ batches' = batches + 1
       \/ at = "host" /\ qbatch[p].at # "none" /\ no = qbatch[p].no /\ todo \subseteq qbatch[p].todo

LEMMA WorkKeeps ==
    ASSUME QuarantineInv, QuarantineFrame, NEW p \in Handlers, NEW at, NEW no, NEW level, NEW todo, NEW every,
           WorkStep(p, at, no, level, todo, every)
    PROVE  QuarantineInv'
<1>0. /\ at \in {"none", "label", "host"} /\ no \in Nat /\ level \in Levels \cup {Remove}
      /\ todo \in SUBSET QHosts /\ every \in SUBSET Levels /\ every \subseteq known'
      /\ qbatch' = [qbatch EXCEPT ![p] = Work(at, no, level, todo, every)]
      /\ at = "host" => level = Remove \/ level \in every
      /\ \/ no = batches + 1 /\ batches' = batches + 1
         \/ at = "host" /\ qbatch[p].at # "none" /\ no = qbatch[p].no /\ todo \subseteq qbatch[p].todo
  BY DEF WorkStep
<1> DEFINE b == Work(at, no, level, todo, every)
<1>1. b \in QBatch /\ b.at = at /\ b.no = no /\ b.level = level /\ b.todo = todo /\ b.every = every /\ ~b.stale
  BY <1>0, WorkIs
<1> HIDE DEF b
<1>2. QuarantineTypes /\ QBatchFits(p) /\ RelabelsAreNumbered
  BY DEF QuarantineInv
<1>3. qbatch'[p] = b
  BY <1>0, <1>1, <1>2, QBatchIs DEF QuarantineTypes, b
<1>4. at # "none" => no \in 1 .. batches'
  BY <1>0, <1>2 DEF QuarantineFrame, QuarantineTypes, QBatchFits
<1>5. at # "none" => \A w \in relabels' : w.no = no => at = "host" /\ w.host \notin todo
  BY <1>0, <1>2 DEF QuarantineFrame, QuarantineTypes, QBatchFits, RelabelsAreNumbered
<1>6. QBatchFits(p)'
  BY <1>0, <1>1, <1>3, <1>4, <1>5 DEF QBatchFits
<1>7. qbatch' = [qbatch EXCEPT ![p] = b] /\ b.at # "put"
  BY <1>0, <1>1 DEF b
<1>8. (qbatch[p].at # "none" /\ b.no = qbatch[p].no) \/ b.no = batches + 1
  BY <1>0, <1>1
<1> QED BY <1>1, <1>6, <1>7, <1>8, QuarantineFrameKeeps
LEMMA HostsKeep ==
    ASSUME QuarantineInv, QuarantineFrame, NEW p \in Handlers, qbatch[p].at # "none",
           NEW todo \in SUBSET qbatch[p].todo, NEW every \in SUBSET Levels, every \subseteq known',
           qbatch[p].level = Remove \/ qbatch[p].level \in every,
           qbatch' = [qbatch EXCEPT ![p] = Work("host", qbatch[p].no, qbatch[p].level, todo, every)]
    PROVE  QuarantineInv'
<1>1. qbatch[p] \in QBatch
  BY DEF QuarantineInv, QuarantineTypes
<1>2. qbatch[p].no \in Nat /\ qbatch[p].level \in Levels \cup {Remove} /\ todo \in SUBSET QHosts
  BY <1>1 DEF QBatch
<1>3. WorkStep(p, "host", qbatch[p].no, qbatch[p].level, todo, every)
  BY <1>2 DEF WorkStep
<1> QED BY <1>3, WorkKeeps

LEMMA QEndKeeps ==
    ASSUME QuarantineInv, QuarantineFrame, NEW p \in Handlers, qbatch' = [qbatch EXCEPT ![p] = NoWork]
    PROVE  QuarantineInv'
<1>1. {} \in SUBSET QHosts /\ {} \in SUBSET Levels /\ 0 \in Nat /\ Remove \in Levels \cup {Remove} /\ "none" # "host"
  OBVIOUS
<1>2. QuarantineTypes
  BY DEF QuarantineInv
<1>3. QBatchFits(p)'
  <2>1. qbatch'[p] = NoWork
    BY <1>2, NoWorkIs, QBatchIs DEF QuarantineTypes
  <2> QED BY <2>1, NoWorkIs DEF QBatchFits
<1> QED BY <1>3, NoWorkIs, QuarantineFrameKeeps

LEMMA QUnchangedWorkKeeps ==
    ASSUME QuarantineInv, QuarantineFrame, qbatch' = qbatch PROVE QuarantineInv'
<1>0. /\ QuarantineTypeOK /\ QuarantineTypes /\ (\A q \in Handlers : QBatchFits(q)) /\ QNumbersDiffer /\ QLateIsLast
  BY DEF QuarantineInv
<1>1. \A q \in Handlers : QBatchFits(q)'
  BY <1>0, QOthersFit DEF QuarantineFrame, QuarantineTypes, QBatchFits
<1>2. QuarantineTypeOK'
  BY <1>0 DEF QuarantineTypeOK, QuarantineFrame
<1>3. QNumbersDiffer' /\ QLateIsLast' /\ QuarantineTypes'
  BY <1>0 DEF QNumbersDiffer, QLateIsLast, QuarantineTypes, QuarantineFrame
<1>8. RelabelsAreNumbered' /\ OtherLabelsStay' /\ OneLevelSent' /\ RemovedIsGone' /\ RelabelOnRecord'
  BY RelabelsStay DEF QuarantineFrame
<1> QED BY <1>1, <1>2, <1>3, <1>8 DEF QuarantineInv

\* Rows are only added.
LEMMA QLogGrows ==
    ASSUME QuarantineInv, UNCHANGED <<worn, qident, keyed, relabels>>, batches' = batches \/ batches' = batches + 1,
           known \subseteq known', known' \subseteq Levels,
           qlog \subseteq qlog',
           \A r \in qlog' \ qlog : r.result \in {"refused", "failed", "pending", "not_quarantined"}
    PROVE  QuarantineFrame
<1>1. batches \in Nat
  BY DEF QuarantineInv, QuarantineTypes
<1> QED BY <1>1 DEF QuarantineFrame

LEMMA QRowIs ==
    ASSUME NEW p, NEW h, NEW result, NEW original
    PROVE  LET r == QRow(p, h, result, original) IN
           /\ r.result = result /\ r.no = qbatch[p].no /\ r.who = p /\ r.host = h /\ r.original = original
BY DEF QRow, QRowOf

LEMMA StartQuarantineKeeps ==
    ASSUME QuarantineInv, NEW p \in Handlers, NEW hosts \in Selections, NEW level \in Levels \cup {Remove},
           StartQuarantine(p, hosts, level)
    PROVE  QuarantineInv'
<1>1. QuarantineTypes /\ QuarantineTypeOK
  BY DEF QuarantineInv
<1>2. UNCHANGED <<worn, known, keyed, qident, relabels>> /\ batches' = batches + 1
  BY DEF StartQuarantine
<1>3. CASE qlog' = qlog /\ qbatch' = [qbatch EXCEPT ![p] = Work("label", batches + 1, level, hosts, known)]
  <2>1. QuarantineFrame
    BY <1>1, <1>2, <1>3, QLogGrows DEF QuarantineTypeOK
  <2>2. hosts \in SUBSET QHosts /\ known \in SUBSET Levels /\ batches + 1 \in Nat /\ known \subseteq known'
    BY <1>1, <1>2, QuarantineConstants DEF QuarantineTypes, QuarantineTypeOK
  <2>3. WorkStep(p, "label", batches + 1, level, hosts, known)
    BY <1>2, <1>3, <2>2 DEF WorkStep
  <2> QED BY <2>1, <2>3, WorkKeeps
<1>4. CASE qbatch' = qbatch
           /\ qlog' = qlog \cup {QRowOf(batches + 1, p, h, level, "refused", {}) : h \in hosts}
  <2>1. \A r \in {QRowOf(batches + 1, p, h, level, "refused", {}) : h \in hosts} : r.result = "refused"
    BY DEF QRowOf
  <2>2. QuarantineFrame
    <3>1. qlog \subseteq qlog' /\ \A r \in qlog' \ qlog : r.result = "refused"
      BY <1>4, <2>1
    <3> QED BY <1>1, <1>2, <3>1, QLogGrows DEF QuarantineTypeOK
  <2> QED BY <1>4, <2>2, QUnchangedWorkKeeps
<1> QED BY <1>3, <1>4 DEF StartQuarantine

LEMMA MakeLabelKeeps ==
    ASSUME QuarantineInv, NEW p \in Handlers, MakeLabel(p) PROVE QuarantineInv'
<1> DEFINE b == qbatch[p]
<1>1. QuarantineTypes /\ QuarantineTypeOK /\ QBatchFits(p) /\ b \in QBatch
  BY DEF QuarantineInv, QuarantineTypes
<1>2. UNCHANGED <<worn, keyed, qident, batches, relabels>> /\ b.at = "label"
  BY DEF MakeLabel
<1>3. /\ b.no \in Nat /\ b.level \in Levels \cup {Remove} /\ b.todo \in SUBSET QHosts /\ b.every \in SUBSET Levels
      /\ b.every \subseteq known
  BY <1>1 DEF QBatch, QBatchFits
<1>4. CASE qlog' = qlog /\ qbatch' = [qbatch EXCEPT ![p] = NoWork] /\ (known' = known \/ known' = LabelMade(b.level))
           /\ b.level # Remove
  <2>1. QuarantineFrame
    BY <1>1, <1>2, <1>3, <1>4, QLogGrows DEF QuarantineTypeOK, LabelMade
  <2> QED BY <1>4, <2>1, QEndKeeps
<1>5. CASE known' = known /\ qbatch' = [qbatch EXCEPT ![p] = NoWork]
           /\ qlog' = qlog \cup {QRow(p, h, "failed", {}) : h \in b.todo}
  <2>1. \A r \in {QRow(p, h, "failed", {}) : h \in b.todo} : r.result = "failed"
    BY QRowIs
  <2>2. QuarantineFrame
    <3>1. qlog \subseteq qlog' /\ \A r \in qlog' \ qlog : r.result = "failed"
      BY <1>5, <2>1
    <3> QED BY <1>1, <1>2, <1>5, <3>1, QLogGrows DEF QuarantineTypeOK
  <2> QED BY <1>5, <2>2, QEndKeeps
<1>6. CASE qlog' = qlog /\ \E every \in SUBSET Levels :
              /\ qbatch' = ToHosts(p, every) /\ every \subseteq known' /\ (b.level = Remove \/ b.level \in every)
              /\ known \subseteq known' /\ known' \subseteq Levels
  <2>1. QuarantineFrame
    BY <1>1, <1>2, <1>6, QLogGrows
  <2>2. PICK every \in SUBSET Levels :
              /\ qbatch' = ToHosts(p, every) /\ every \subseteq known' /\ (b.level = Remove \/ b.level \in every)
    BY <1>6
  <2>3. qbatch' = [qbatch EXCEPT ![p] = Work("host", b.no, b.level, b.todo, every)]
    BY <2>2 DEF ToHosts
  <2>4. b.todo \in SUBSET qbatch[p].todo /\ qbatch[p].at # "none"
    BY <1>2
  <2> QED BY <2>1, <2>2, <2>3, <2>4, HostsKeep
<1>7. \/ qlog' = qlog /\ qbatch' = [qbatch EXCEPT ![p] = NoWork] /\ known' = LabelMade(b.level) /\ b.level # Remove
      \/ known' = known /\ qbatch' = [qbatch EXCEPT ![p] = NoWork]
           /\ qlog' = qlog \cup {QRow(p, h, "failed", {}) : h \in b.todo}
      \/ qlog' = qlog /\ \E every \in SUBSET Levels :
              /\ qbatch' = ToHosts(p, every) /\ every \subseteq known' /\ (b.level = Remove \/ b.level \in every)
              /\ known \subseteq known' /\ known' \subseteq Levels
  <2>1. CASE b.level = Remove \/ b.level \in b.every
    BY <1>1, <1>3, <2>1 DEF MakeLabel, QuarantineTypeOK
  <2>2. CASE b.level # Remove /\ b.level \notin b.every
    <3>1. known \cup {b.level} \subseteq Levels /\ b.every \cup {b.level} \in SUBSET Levels
      BY <1>1, <1>3, <2>2 DEF QuarantineTypeOK
    <3> QED BY <1>3, <2>2, <3>1 DEF MakeLabel, LabelMade
  <2> QED BY <2>1, <2>2
<1> QED BY <1>4, <1>5, <1>6, <1>7

LEMMA QPassKeeps ==
    ASSUME QuarantineInv, QuarantineFrame, NEW p \in Handlers, NEW h \in QHosts, qbatch' = QNext(p, h),
           qbatch[p].at \in {"host", "put"}
    PROVE  QuarantineInv'
<1> DEFINE b == qbatch[p]
<1>1. QBatchFits(p) /\ b \in QBatch
  BY DEF QuarantineInv, QuarantineTypes
<1>2. /\ b.no \in Nat /\ b.level \in Levels \cup {Remove} /\ b.todo \ {h} \in SUBSET QHosts /\ b.every \in SUBSET Levels
      /\ b.every \subseteq known' /\ (b.level = Remove \/ b.level \in b.every)
  BY <1>1 DEF QBatch, QBatchFits, QuarantineFrame
<1>3. qbatch' = [qbatch EXCEPT ![p] = Work("host", b.no, b.level, b.todo \ {h}, b.every)]
  BY DEF QNext
<1>4. b.todo \ {h} \in SUBSET qbatch[p].todo /\ qbatch[p].at # "none"
  OBVIOUS
<1> QED BY <1>2, <1>3, <1>4, HostsKeep

LEMMA ReadLabelsKeeps ==
    ASSUME QuarantineInv, NEW p \in Handlers, NEW h \in QHosts, ReadLabels(p, h) PROVE QuarantineInv'
<1> DEFINE b == qbatch[p]
<1>1. QuarantineTypes /\ QuarantineTypeOK /\ QBatchFits(p) /\ b \in QBatch
  BY DEF QuarantineInv, QuarantineTypes
<1>2. UNCHANGED <<worn, known, keyed, qident, batches, relabels>> /\ b.at = "host" /\ h \in b.todo
  BY DEF ReadLabels, QTurn
<1>3. CASE qbatch' = QNext(p, h) /\ \E result \in {"failed", "not_quarantined"}, original \in {{}, worn[h]} :
                qlog' = qlog \cup {QRow(p, h, result, original)}
  <2>1. QuarantineFrame
    <3>1. qlog \subseteq qlog' /\ \A r \in qlog' \ qlog : r.result \in {"failed", "not_quarantined"}
      BY <1>3, QRowIs
    <3> QED BY <1>1, <1>2, <3>1, QLogGrows DEF QuarantineTypeOK
  <2> QED BY <1>2, <1>3, <2>1, QPassKeeps
<1> DEFINE b1 == [b EXCEPT !.at = "put"]
           b2 == [b1 EXCEPT !.host = h]
           c == [b2 EXCEPT !.read = worn[h]]
<1>4. \/ qbatch' = QNext(p, h) /\ \E result \in {"failed", "not_quarantined"}, original \in {{}, worn[h]} :
                qlog' = qlog \cup {QRow(p, h, result, original)}
      \/ qbatch' = [qbatch EXCEPT ![p] = c] /\ qlog' = QIntent(p, h) /\ qident = 1
  <2>1. CASE qbatch' = [qbatch EXCEPT ![p] = [@ EXCEPT !.at = "put", !.host = h, !.read = worn[h]]]
             /\ qlog' = QIntent(p, h) /\ SameQPce
    BY <1>1, <2>1 DEF QBatch, SameQPce
  <2> QED BY <2>1 DEF ReadLabels
<1>5. CASE qbatch' = [qbatch EXCEPT ![p] = c] /\ qlog' = QIntent(p, h) /\ qident = 1
  <2>1. worn[h] \in Worn /\ h \in 0 .. NumQHosts /\ worn[h] \cap Levels \subseteq known
    BY <1>1, QuarantineConstants DEF QuarantineTypeOK, QHosts, Worn
  <2>2. /\ c \in QBatch /\ c.at = "put" /\ c.no = b.no /\ c.level = b.level /\ c.todo = b.todo /\ c.every = b.every
        /\ c.host = h /\ c.read = worn[h] /\ c.stale = b.stale
    BY <1>1, <2>1 DEF QBatch
  <2> HIDE DEF c
  <2>3. qbatch'[p] = c
    BY <1>1, <1>5, <2>2, QBatchIs DEF QuarantineTypes
  <2>4. qlog' = qlog \cup {QRowOf(c.no, p, c.host, c.level, "pending", c.read)}
    BY <1>5, <2>2 DEF QIntent, QRow
  <2>5. QBatchFits(p)'
    BY <1>1, <1>2, <2>1, <2>2, <2>3, <2>4 DEF QBatchFits
  <2>6. QuarantineFrame
    <3>1. qlog \subseteq qlog' /\ \A r \in qlog' \ qlog : r.result = "pending"
      BY <1>5, QRowIs DEF QIntent
    <3> QED BY <1>1, <1>2, <3>1, QLogGrows DEF QuarantineTypeOK
  <2>7. b.at # "none"
    BY <1>2
  <2> QED BY <1>5, <2>2, <2>5, <2>6, <2>7, QuarantineFrameKeeps
<1> HIDE DEF c
<1> QED BY <1>3, <1>4, <1>5

LEMMA QEndsKeep == ASSUME QuarantineInv, NEW p \in Handlers, QEnd(p) PROVE QuarantineInv'
<1>1. QuarantineFrame
  BY QLogGrows DEF QEnd, QuarantineInv, QuarantineTypeOK
<1> QED BY <1>1, QEndKeeps DEF QEnd
-----------------------------------------------------------------------------
\* What is sent: the other labels as they were read, and no Quarantine label but the level's unless one stayed unknown.
LEMMA RelabelIs ==
    ASSUME NEW p \in Handlers, qbatch[p] \in QBatch, QBatchFits(p), qbatch[p].at = "put", known \subseteq Levels
    PROVE  /\ Relabel(p) \in Worn /\ Relabel(p) \cap Levels \subseteq known
           /\ Relabel(p) \ Levels = qbatch[p].read \ Levels
           /\ keyed \/ known = qbatch[p].every => Relabel(p) \cap Levels \subseteq {qbatch[p].level}
<1> DEFINE b == qbatch[p]
<1>1. /\ b.read \subseteq {"app"} \cup Levels /\ b.level \in Levels \cup {Remove} /\ b.every \subseteq Levels
      /\ b.read \cap Levels \subseteq known /\ b.every \subseteq known /\ (b.level = Remove \/ b.level \in b.every)
  BY DEF QBatch, QBatchFits, Worn
<1> HIDE DEF b
<1>2. \A l : l \in Relabel(p) <=> (l \in b.read /\ ~((keyed /\ l \in Levels) \/ l \in b.every)) \/ (l = b.level /\ l # Remove)
  BY DEF Relabel, IsQuarantine, b
<1>3. \A l \in Relabel(p) : l \in {"app"} \cup Levels
  BY <1>1, <1>2
<1>4. \A l \in Relabel(p) \cap Levels : l \in known
  BY <1>1, <1>2
<1>5. \A l : l \in Relabel(p) \ Levels <=> l \in b.read \ Levels
  BY <1>1, <1>2
<1>6. keyed \/ known = b.every => \A l \in Relabel(p) \cap Levels : l = b.level
  BY <1>1, <1>2
<1>7. Relabel(p) \subseteq {"app"} \cup Levels /\ Relabel(p) \cap Levels \subseteq known /\ Relabel(p) \ Levels = b.read \ Levels
  BY <1>3, <1>4, <1>5
<1> QED BY <1>6, <1>7 DEF b, Worn

LEMMA RelabelledIs ==
    ASSUME QuarantineInv, NEW p \in Handlers, qbatch[p].at = "put", Relabelled(p), UNCHANGED <<qident, batches, keyed>>,
           \A r \in qlog : r.no # qbatch[p].no \/ r.host # qbatch[p].host => r \in qlog',
           \E result \in {"pending", "ok", "unknown"} : QRow(p, qbatch[p].host, result, qbatch[p].read) \in qlog'
    PROVE  /\ worn' \in [QHosts -> Worn] /\ \A h \in QHosts : h # qbatch[p].host => worn'[h] = worn[h]
           /\ qbatch[p].host \in QHosts
           /\ worn'[qbatch[p].host] \cap Levels \subseteq known
           /\ qbatch[p].stale \/ worn'[qbatch[p].host] \ Levels = worn[qbatch[p].host] \ Levels
           /\ RelabelsAreNumbered' /\ OtherLabelsStay' /\ OneLevelSent' /\ RemovedIsGone' /\ RelabelOnRecord'
           /\ \E n : /\ relabels' = relabels \cup {n} /\ n.no = qbatch[p].no /\ n.host = qbatch[p].host
                     /\ n.who = p /\ n.late = (qident # 1)
<1> DEFINE h == qbatch[p].host
           b == qbatch[p]
           n == [no |-> b.no, who |-> p, host |-> h, read |-> b.read, level |-> b.level,
                 sent |-> Relabel(p) \cap Levels, blind |-> known # b.every,
                 kept |-> Relabel(p) \ Levels = worn[h] \ Levels \/ b.stale,
                 late |-> qident # 1]
<1>1. QuarantineTypes /\ QuarantineTypeOK /\ QBatchFits(p) /\ b \in QBatch
  BY DEF QuarantineInv, QuarantineTypes
<1>2. relabels' = relabels \cup {n} /\ worn' = [worn EXCEPT ![h] = Relabel(p)]
  BY DEF Relabelled
<1>3. /\ n.no = b.no /\ n.who = p /\ n.host = h /\ n.read = b.read /\ n.level = b.level /\ n.sent = Relabel(p) \cap Levels
      /\ n.blind = (known # b.every) /\ n.kept = (Relabel(p) \ Levels = worn[h] \ Levels \/ b.stale)
      /\ n.late = (qident # 1)
  OBVIOUS
<1> HIDE DEF n
<1>4. /\ Relabel(p) \in Worn /\ Relabel(p) \cap Levels \subseteq known
      /\ Relabel(p) \ Levels = b.read \ Levels
      /\ keyed \/ known = b.every => Relabel(p) \cap Levels \subseteq {b.level}
  BY <1>1, RelabelIs DEF QuarantineTypeOK
<1>5. h \in QHosts
  BY <1>1 DEF QBatchFits, QBatch
<1>6. /\ worn' \in [QHosts -> Worn] /\ \A g \in QHosts : g # h => worn'[g] = worn[g]
      /\ worn'[h] = Relabel(p)
  BY <1>1, <1>2, <1>4, <1>5 DEF QuarantineTypeOK, Worn
<1>7. b.stale \/ Relabel(p) \ Levels = worn[h] \ Levels
  BY <1>1, <1>4 DEF QBatchFits
<1>8. n.no \in 1 .. batches /\ n.kept
  BY <1>1, <1>3, <1>7 DEF QBatchFits
<1>9. RelabelsAreNumbered' /\ OtherLabelsStay'
  BY <1>2, <1>8 DEF QuarantineInv, RelabelsAreNumbered, OtherLabelsStay
<1>10. Cardinality(n.sent) > 1 => ~keyed /\ n.blind
  <2>1. SUFFICES ASSUME ~(~keyed /\ n.blind) PROVE ~(Cardinality(n.sent) > 1)
    OBVIOUS
  <2>2. \A x, y \in n.sent : x = y
    BY <1>3, <1>4, <2>1
  <2>3. n.sent = {} \/ \E x : n.sent = {x}
    BY <2>2
  <2>4. Cardinality(n.sent) = 0 \/ Cardinality(n.sent) = 1
    BY <2>3, FS_EmptySet, FS_Singleton
  <2> QED BY <2>4
<1>11. n.level = Remove => n.sent = {} \/ (~keyed /\ n.blind)
  BY <1>3, <1>4, QuarantineConstants
<1>12. OneLevelSent' /\ RemovedIsGone'
  BY <1>2, <1>10, <1>11 DEF QuarantineInv, OneLevelSent, RemovedIsGone
<1>13. RelabelOnRecord'
  <2>1. ASSUME NEW w \in relabels
        PROVE  \E r \in qlog' : /\ r.no = w.no /\ r.who = w.who /\ r.host = w.host /\ r.original = w.read
                                /\ r.result \in {"pending", "ok", "unknown"}
    <3>1. PICK r \in qlog : /\ r.no = w.no /\ r.who = w.who /\ r.host = w.host /\ r.original = w.read
                            /\ r.result \in {"pending", "ok", "unknown"}
      BY DEF QuarantineInv, RelabelOnRecord
    <3>2. w.no = b.no => w.host # h
      BY <1>1 DEF QBatchFits
    <3> QED BY <3>1, <3>2
  <2>2. PICK result \in {"pending", "ok", "unknown"} : QRow(p, h, result, b.read) \in qlog'
    OBVIOUS
  <2> QED BY <1>2, <1>3, <2>1, <2>2, QRowIs DEF RelabelOnRecord
<1> QED BY <1>2, <1>3, <1>4, <1>5, <1>6, <1>7, <1>9, <1>12, <1>13
\* After a write the batch goes on, and another that had read the host before an outdated write is outdated too.
SameButStale(b, c) ==
    /\ b \in QBatch /\ c \in QBatch /\ b.at = c.at /\ b.no = c.no /\ b.level = c.level /\ b.todo = c.todo /\ b.every = c.every
    /\ b.host = c.host /\ b.read = c.read

LEMMA AfterWriteIs ==
    ASSUME QuarantineInv, NEW p \in Handlers, qbatch[p].at = "put", qbatch' = Outdated(p) \/ qbatch' = QNext(p, qbatch[p].host)
    PROVE  LET c == Work("host", qbatch[p].no, qbatch[p].level, qbatch[p].todo \ {qbatch[p].host}, qbatch[p].every) IN
           /\ qbatch' \in [Handlers -> QBatch] /\ qbatch'[p] = c
           /\ c \in QBatch /\ c.at = "host" /\ c.no = qbatch[p].no /\ c.level = qbatch[p].level
           /\ c.todo = qbatch[p].todo \ {qbatch[p].host} /\ c.every = qbatch[p].every /\ ~c.stale
           /\ \A q \in Handlers : q # p => SameButStale(qbatch'[q], qbatch[q])
           /\ \A q \in Handlers : q # p => qbatch'[q].stale = qbatch[q].stale \/ (qbatch[q].at = "put" /\ qbatch'[q].stale)
<1> DEFINE b == qbatch[p]
           c == Work("host", b.no, b.level, b.todo \ {b.host}, b.every)
<1>1. \A q \in Handlers : qbatch[q] \in QBatch
  BY DEF QuarantineInv, QuarantineTypes
<1>2. c \in QBatch /\ c.at = "host" /\ c.no = b.no /\ c.level = b.level
           /\ c.todo = b.todo \ {b.host} /\ c.every = b.every /\ ~c.stale
  <2>1. b.no \in Nat /\ b.level \in Levels \cup {Remove} /\ b.todo \ {b.host} \in SUBSET QHosts /\ b.every \in SUBSET Levels
    BY <1>1 DEF QBatch
  <2>2. "host" \in {"none", "label", "host"}
    OBVIOUS
  <2> QED BY <2>1, <2>2, WorkIs
<1> HIDE DEF c
<1>3. QNext(p, b.host) = [qbatch EXCEPT ![p] = c]
  BY DEF QNext, c
<1>4. QNext(p, b.host) \in [Handlers -> QBatch] /\ QNext(p, b.host)[p] = c
      /\ \A q \in Handlers : q # p => QNext(p, b.host)[q] = qbatch[q]
  <2>1. qbatch \in [Handlers -> QBatch]
    BY DEF QuarantineInv, QuarantineTypes
  <2> HIDE DEF QBatch
  <2> QED BY <1>2, <1>3, <2>1
<1>5. CASE qbatch' = QNext(p, b.host)
  <2>1. \A q \in Handlers : q # p => SameButStale(qbatch'[q], qbatch[q])
    BY <1>1, <1>4, <1>5 DEF SameButStale
  <2> QED BY <1>2, <1>4, <1>5, <2>1 DEF c
<1>6. CASE qbatch' = Outdated(p)
  <2>1. \A q \in Handlers : qbatch'[q] =
          IF q # p /\ qbatch[q].at = "put" /\ qbatch[q].host = b.host
          THEN [qbatch[q] EXCEPT !.stale = @ \/ b.stale] ELSE QNext(p, b.host)[q]
    BY <1>6 DEF Outdated
  <2>2. qbatch' = [q \in Handlers |-> qbatch'[q]]
    BY <1>6 DEF Outdated
  <2>3. ASSUME NEW q \in Handlers, q # p, qbatch[q].at = "put", qbatch[q].host = b.host
        PROVE  /\ SameButStale(qbatch'[q], qbatch[q]) /\ qbatch'[q].stale = (qbatch[q].stale \/ b.stale)
               /\ qbatch'[q].stale \in BOOLEAN
    <3> DEFINE t == (qbatch[q].stale \/ b.stale)
               d == [qbatch[q] EXCEPT !.stale = t]
    <3>1. qbatch'[q] = d
      BY <2>1, <2>3, <1>1 DEF QBatch
    <3>2. t \in BOOLEAN
      BY <1>1 DEF QBatch
    <3> HIDE DEF t
    <3>3. SameButStale(d, qbatch[q]) /\ d.stale = t
      BY <1>1, <3>2 DEF QBatch, SameButStale
    <3> QED BY <3>1, <3>2, <3>3 DEF t
  <2>4. ASSUME NEW q \in Handlers, q # p, ~(qbatch[q].at = "put" /\ qbatch[q].host = b.host)
        PROVE  SameButStale(qbatch'[q], qbatch[q]) /\ qbatch'[q].stale = qbatch[q].stale
    <3>1. qbatch'[q] = qbatch[q]
      BY <2>1, <2>4, <1>4
    <3> QED BY <1>1, <3>1 DEF SameButStale
  <2>5. qbatch'[p] = c
    BY <1>4, <2>1
  <2>6. \A q \in Handlers : q # p => SameButStale(qbatch'[q], qbatch[q])
    BY <2>3, <2>4
  <2>7. \A q \in Handlers : qbatch'[q] \in QBatch
    BY <1>2, <2>5, <2>6 DEF SameButStale
  <2>8. qbatch' \in [Handlers -> QBatch]
    <3> HIDE DEF QBatch
    <3> QED BY <2>2, <2>7
  <2>9. ASSUME NEW q \in Handlers, q # p
        PROVE  qbatch'[q].stale = qbatch[q].stale \/ (qbatch[q].at = "put" /\ qbatch'[q].stale)
    <3>1. qbatch[q].stale \in BOOLEAN /\ b.stale \in BOOLEAN
      BY <1>1 DEF QBatch
    <3> QED BY <2>3, <2>4, <2>9, <3>1
  <2> QED BY <1>2, <2>5, <2>6, <2>8, <2>9 DEF c
<1> QED BY <1>5, <1>6

LEMMA PutLabelsKeeps ==
    ASSUME QuarantineInv, NEW p \in Handlers, PutLabels(p) PROVE QuarantineInv'
<1> DEFINE h == qbatch[p].host
           c == Work("host", qbatch[p].no, qbatch[p].level, qbatch[p].todo \ {h}, qbatch[p].every)
<1>1. /\ QuarantineTypes /\ QuarantineTypeOK /\ (\A q \in Handlers : QBatchFits(q)) /\ QNumbersDiffer /\ QLateIsLast
      /\ \A q \in Handlers : qbatch[q] \in QBatch
  BY DEF QuarantineInv, QuarantineTypes
<1>2. UNCHANGED <<known, keyed, qident, batches>> /\ qbatch[p].at = "put"
  BY DEF PutLabels
<1>3. PICK result \in {"ok", "failed", "unknown"} :
        /\ qlog' = QFinish(p, result)
        /\ \/ Relabelled(p) /\ qbatch' = Outdated(p) /\ result # "failed"
           \/ qbatch' = QNext(p, h) /\ UNCHANGED <<worn, relabels>>
  BY DEF PutLabels
<1>4. /\ qbatch' \in [Handlers -> QBatch] /\ qbatch'[p] = c
      /\ c \in QBatch /\ c.at = "host" /\ c.no = qbatch[p].no /\ c.level = qbatch[p].level
      /\ c.todo = qbatch[p].todo \ {h} /\ c.every = qbatch[p].every /\ ~c.stale
      /\ \A q \in Handlers : q # p => SameButStale(qbatch'[q], qbatch[q])
      /\ \A q \in Handlers : q # p => qbatch'[q].stale = qbatch[q].stale \/ (qbatch[q].at = "put" /\ qbatch'[q].stale)
  BY <1>2, <1>3, AfterWriteIs
<1> HIDE DEF c
<1>5. h \in qbatch[p].todo /\ h \in QHosts /\ \A w \in relabels : w.no = qbatch[p].no => w.host # h
  BY <1>1, <1>2 DEF QBatchFits, QBatch
<1>6. /\ \A r \in qlog : r.no # qbatch[p].no \/ r.host # h => r \in qlog'
      /\ \A r \in qlog' : r \in qlog \/ r.result \in {"ok", "failed", "unknown"}
      /\ QRow(p, h, result, qbatch[p].read) \in qlog'
  BY <1>3, QRowIs DEF QFinish
<1>8. /\ worn' \in [QHosts -> Worn] /\ \A g \in QHosts : g # h => worn'[g] = worn[g]
      /\ worn'[h] \cap Levels \subseteq known
      /\ \/ worn'[h] \ Levels = worn[h] \ Levels
         \/ \A q \in Handlers : q # p /\ qbatch[q].at = "put" /\ qbatch[q].host = h => qbatch'[q].stale
      /\ RelabelsAreNumbered' /\ OtherLabelsStay' /\ OneLevelSent' /\ RemovedIsGone' /\ RelabelOnRecord'
      /\ \/ relabels' = relabels
         \/ \E n : /\ relabels' = relabels \cup {n} /\ n.no = qbatch[p].no /\ n.host = h
                   /\ n.who = p /\ n.late = (qident # 1)
  <2>1. CASE Relabelled(p) /\ qbatch' = Outdated(p) /\ result # "failed"
    <3>1. /\ worn' \in [QHosts -> Worn] /\ \A g \in QHosts : g # h => worn'[g] = worn[g]
          /\ worn'[h] \cap Levels \subseteq known
          /\ qbatch[p].stale \/ worn'[h] \ Levels = worn[h] \ Levels
          /\ RelabelsAreNumbered' /\ OtherLabelsStay' /\ OneLevelSent' /\ RemovedIsGone' /\ RelabelOnRecord'
          /\ \E n : /\ relabels' = relabels \cup {n} /\ n.no = qbatch[p].no /\ n.host = h
                    /\ n.who = p /\ n.late = (qident # 1)
      BY <1>2, <1>6, <2>1, RelabelledIs
    <3>2. ASSUME NEW q \in Handlers, q # p, qbatch[q].at = "put", qbatch[q].host = h, qbatch[p].stale
          PROVE  qbatch'[q].stale
      <4>1. qbatch'[q] = [qbatch[q] EXCEPT !.stale = @ \/ qbatch[p].stale]
        BY <2>1, <3>2 DEF Outdated
      <4> QED BY <1>1, <3>2, <4>1 DEF QBatch
    <3> QED BY <3>1, <3>2
  <2>2. CASE qbatch' = QNext(p, h) /\ UNCHANGED <<worn, relabels>>
    <3>1. worn' \in [QHosts -> Worn] /\ worn[h] \cap Levels \subseteq known
      BY <1>1, <1>5, <2>2 DEF QuarantineTypeOK, Worn
    <3>2. RelabelsAreNumbered' /\ OtherLabelsStay' /\ OneLevelSent' /\ RemovedIsGone'
      BY <1>2, <2>2 DEF QuarantineInv, RelabelsAreNumbered, OtherLabelsStay, OneLevelSent, RemovedIsGone
    <3>3. RelabelOnRecord'
      <4>1. ASSUME NEW w \in relabels
            PROVE  \E r \in qlog' : /\ r.no = w.no /\ r.who = w.who /\ r.host = w.host /\ r.original = w.read
                                    /\ r.result \in {"pending", "ok", "unknown"}
        <5>1. PICK r \in qlog : /\ r.no = w.no /\ r.who = w.who /\ r.host = w.host /\ r.original = w.read
                                /\ r.result \in {"pending", "ok", "unknown"}
          BY DEF QuarantineInv, RelabelOnRecord
        <5> QED BY <1>5, <1>6, <5>1
      <4> QED BY <2>2, <4>1 DEF RelabelOnRecord
    <3> QED BY <2>2, <3>1, <3>2, <3>3
  <2> QED BY <1>3, <2>1, <2>2
<1>9. \A w \in relabels' : w \in relabels \/ (w.no = qbatch[p].no /\ w.host = h)
  BY <1>8
<1>10. \A q \in Handlers : q # p /\ qbatch[q].at # "none" => qbatch[q].no # qbatch[p].no
  BY <1>1, <1>2 DEF QNumbersDiffer
<1>11. ASSUME NEW q \in Handlers, q # p PROVE QBatchFits(q)'
  <2> DEFINE d == qbatch[q]
             e == qbatch'[q]
  <2>1. SameButStale(e, d) /\ QBatchFits(q) /\ (e.stale = d.stale \/ (d.at = "put" /\ e.stale))
    BY <1>1, <1>4, <1>11
  <2>2. ASSUME d.at = "put" PROVE e.stale \/ d.read \ Levels = worn'[d.host] \ Levels
    <3>1. d.stale \/ d.read \ Levels = worn[d.host] \ Levels
      BY <2>1, <2>2 DEF QBatchFits
    <3>2. d.host \in QHosts
      BY <1>1, <2>1, <2>2 DEF QBatchFits, QBatch
    <3>3. e.stale \/ worn'[d.host] \ Levels = worn[d.host] \ Levels
      BY <1>8, <1>11, <2>2, <3>2
    <3> QED BY <2>1, <3>1, <3>3
  <2>3. ASSUME d.at = "put" PROVE QRowOf(d.no, q, d.host, d.level, "pending", d.read) \in qlog'
    <3>1. QRowOf(d.no, q, d.host, d.level, "pending", d.read) \in qlog
      BY <2>1, <2>3 DEF QBatchFits
    <3>2. QRowOf(d.no, q, d.host, d.level, "pending", d.read).no # qbatch[p].no
      BY <1>10, <1>11, <2>3 DEF QRowOf
    <3> QED BY <1>6, <3>1, <3>2
  <2>4. d.at # "none" => \A w \in relabels' : w.no = d.no => d.at \in {"host", "put"} /\ w.host \notin d.todo
    BY <1>9, <1>10, <1>11, <2>1 DEF QBatchFits
  <2>5. d.at # "none" => d.no \in 1 .. batches
    BY <2>1 DEF QBatchFits
  <2>6. /\ d.at # "put" => ~e.stale
        /\ d.every \subseteq known /\ (d.at \in {"host", "put"} => d.level = Remove \/ d.level \in d.every)
        /\ d.at = "put" => d.host \in d.todo /\ d.read \cap Levels \subseteq known
    BY <2>1 DEF QBatchFits
  <2>7. /\ e.at = d.at /\ e.no = d.no /\ e.level = d.level /\ e.todo = d.todo /\ e.every = d.every
        /\ e.host = d.host /\ e.read = d.read
    BY <2>1 DEF SameButStale
  <2> HIDE DEF d
  <2> QED BY <1>2, <2>2, <2>3, <2>4, <2>5, <2>6, <2>7 DEF QBatchFits
<1>12. QBatchFits(p)'
  <2>1. c.every \subseteq known /\ (c.level = Remove \/ c.level \in c.every) /\ c.no \in 1 .. batches
    BY <1>1, <1>2, <1>4 DEF QBatchFits
  <2>2. \A w \in relabels' : w.no = c.no => w.host \notin c.todo
    BY <1>1, <1>2, <1>4, <1>9 DEF QBatchFits
  <2> QED BY <1>2, <1>4, <2>1, <2>2 DEF QBatchFits
<1>13. \A q \in Handlers : qbatch'[q].at # "put" \/ (q # p /\ qbatch[q].at = "put")
  BY <1>4 DEF SameButStale
<1>14. QNumbersDiffer'
  <2>1. \A q \in Handlers : qbatch'[q].no = qbatch[q].no /\ (qbatch'[q].at # "none" => qbatch[q].at # "none")
    BY <1>2, <1>4 DEF SameButStale
  <2> QED BY <1>1, <2>1 DEF QNumbersDiffer
<1>15. QLateIsLast'
  <2>1. \A w \in relabels : w.late => w.who # p
    BY <1>1, <1>2 DEF QLateIsLast
  <2>2. qident = 1 \/ qident = 2
    BY <1>1 DEF QuarantineTypeOK
  <2>3. \A w \in relabels : w.late => qident = 2 /\ (\A q \in Handlers : w.who = q => qbatch'[q].at # "put")
                                    /\ \A v \in relabels : v.late /\ v.who = w.who => v = w
    BY <1>1, <1>13 DEF QLateIsLast
  <2>4. CASE relabels' = relabels
    BY <1>2, <2>3, <2>4 DEF QLateIsLast
  <2>5. CASE \E n : /\ relabels' = relabels \cup {n} /\ n.who = p /\ n.late = (qident # 1)
    <3>1. PICK n : relabels' = relabels \cup {n} /\ n.who = p /\ n.late = (qident # 1)
      BY <2>5
    <3>2. qbatch'[p].at # "put"
      BY <1>4
    <3>3. \A v \in relabels' : v.late /\ v.who = p => v = n
      BY <2>1, <3>1
    <3>4. \A w \in relabels : w.late => /\ qident' = 2 /\ (\A q \in Handlers : w.who = q => qbatch'[q].at # "put")
                                      /\ \A v \in relabels' : v.late /\ v.who = w.who => v = w
      BY <1>2, <2>1, <2>3, <3>1
    <3>5. n.late => qident' = 2 /\ \A q \in Handlers : n.who = q => qbatch'[q].at # "put"
      BY <1>2, <2>2, <3>1, <3>2
    <3> QED BY <3>1, <3>3, <3>4, <3>5 DEF QLateIsLast
  <2> QED BY <1>8, <2>4, <2>5
<1>16. QuarantineTypes'
  BY <1>1, <1>2, <1>4 DEF QuarantineTypes
<1>17. QuarantineTypeOK'
  <2>1. \A q \in Handlers : qbatch'[q].at \in {"none", "label", "host", "put"}
    BY <1>4 DEF QBatch
  <2>2. \A r \in qlog' : r.result \in {"refused", "failed", "pending", "ok", "unknown", "not_quarantined"}
    BY <1>1, <1>6 DEF QuarantineTypeOK
  <2>3. \A g \in QHosts : worn'[g] \cap Levels \subseteq known
    BY <1>1, <1>8 DEF QuarantineTypeOK
  <2> QED BY <1>1, <1>2, <1>8, <2>1, <2>2, <2>3 DEF QuarantineTypeOK, Worn
<1> QED BY <1>8, <1>11, <1>12, <1>14, <1>15, <1>16, <1>17 DEF QuarantineInv
LEMMA ConsoleRelabelsKeep ==
    ASSUME QuarantineInv, NEW h \in QHosts, ConsoleRelabels(h) PROVE QuarantineInv'
<1>1. /\ QuarantineTypes /\ QuarantineTypeOK /\ (\A q \in Handlers : QBatchFits(q)) /\ QNumbersDiffer /\ QLateIsLast
      /\ \A q \in Handlers : qbatch[q] \in QBatch
  BY DEF QuarantineInv, QuarantineTypes
<1>2. UNCHANGED <<known, keyed, qident, qlog, batches, relabels>>
  BY DEF ConsoleRelabels
<1>3. ASSUME NEW q \in Handlers
      PROVE  /\ SameButStale(qbatch'[q], qbatch[q])
             /\ \/ qbatch'[q] = qbatch[q] /\ (qbatch[q].at = "put" => qbatch[q].host # h)
                \/ qbatch[q].at = "put" /\ qbatch'[q].stale
  <2> DEFINE t == TRUE
             b == [qbatch[q] EXCEPT !.stale = t]
  <2>1. qbatch'[q] = IF qbatch[q].at = "put" /\ qbatch[q].host = h THEN b ELSE qbatch[q]
    BY DEF ConsoleRelabels
  <2>2. t \in BOOLEAN /\ t
    OBVIOUS
  <2> HIDE DEF t
  <2>3. SameButStale(b, qbatch[q]) /\ b.stale = t
    BY <1>1, <2>2 DEF QBatch, SameButStale
  <2> HIDE DEF b
  <2>4. SameButStale(qbatch[q], qbatch[q])
    BY <1>1 DEF SameButStale
  <2> QED BY <2>1, <2>2, <2>3, <2>4
<1>4. /\ worn' \in [QHosts -> Worn] /\ \A g \in QHosts : g # h => worn'[g] = worn[g]
      /\ worn'[h] \cap Levels = worn[h] \cap Levels
  <2> DEFINE now == IF "app" \in worn[h] THEN worn[h] \ {"app"} ELSE worn[h] \cup {"app"}
  <2>1. worn' = [worn EXCEPT ![h] = now]
    BY DEF ConsoleRelabels
  <2>2. worn[h] \in Worn
    BY <1>1 DEF QuarantineTypeOK, Worn
  <2>3. now \in Worn /\ now \cap Levels = worn[h] \cap Levels
    BY <2>2, QuarantineConstants DEF Worn
  <2> HIDE DEF now
  <2> QED BY <1>1, <2>1, <2>3 DEF QuarantineTypeOK, Worn
<1>5. ASSUME NEW q \in Handlers PROVE QBatchFits(q)'
  <2>1. QBatchFits(q) /\ qbatch[q] \in QBatch /\ batches \in Nat
    BY <1>1 DEF QuarantineTypes
  <2>2. CASE qbatch'[q] = qbatch[q] /\ (qbatch[q].at = "put" => qbatch[q].host # h)
    <3>1. qbatch[q].at = "put" => worn'[qbatch[q].host] = worn[qbatch[q].host]
      BY <1>4, <2>1, <2>2 DEF QBatchFits, QBatch
    <3>2. qbatch[q].at = "put" => QRowOf(qbatch[q].no, q, qbatch[q].host, qbatch[q].level, "pending", qbatch[q].read) \in qlog'
      BY <1>2, <2>1 DEF QBatchFits
    <3> QED BY <1>2, <2>1, <2>2, <3>1, <3>2, QOthersFit
  <2>3. CASE qbatch[q].at = "put" /\ qbatch'[q].stale
    <3>1. SameButStale(qbatch'[q], qbatch[q])
      BY <1>3
    <3> QED BY <1>2, <2>1, <2>3, <3>1 DEF QBatchFits, SameButStale
  <2> QED BY <1>3, <2>2, <2>3
<1>6. \A q \in Handlers : qbatch'[q].at = qbatch[q].at /\ qbatch'[q].no = qbatch[q].no /\ qbatch'[q] \in QBatch
  BY <1>3 DEF SameButStale
<1>7. qbatch' = [q \in Handlers |-> qbatch'[q]]
  BY DEF ConsoleRelabels
<1>8. QuarantineTypes'
  <2>1. qbatch' \in [Handlers -> QBatch]
    <3> HIDE DEF QBatch
    <3> QED BY <1>6, <1>7
  <2> QED BY <1>1, <1>2, <2>1 DEF QuarantineTypes
<1>9. QuarantineTypeOK'
  <2>1. \A q \in Handlers : qbatch'[q].at \in {"none", "label", "host", "put"}
    BY <1>6 DEF QBatch
  <2>2. \A g \in QHosts : worn'[g] \cap Levels \subseteq known
    BY <1>1, <1>4 DEF QuarantineTypeOK
  <2> QED BY <1>1, <1>2, <1>4, <2>1, <2>2 DEF QuarantineTypeOK, Worn
<1>10. QNumbersDiffer' /\ QLateIsLast'
  BY <1>1, <1>2, <1>6 DEF QNumbersDiffer, QLateIsLast
<1>11. RelabelsAreNumbered' /\ OtherLabelsStay' /\ OneLevelSent' /\ RemovedIsGone' /\ RelabelOnRecord'
  BY <1>1, <1>2, RelabelsStay DEF QuarantineTypes
<1> QED BY <1>5, <1>8, <1>9, <1>10, <1>11 DEF QuarantineInv

LEMMA QSwitchKeeps == ASSUME QuarantineInv, QSwitch PROVE QuarantineInv'
<1>1. /\ QuarantineTypes /\ QuarantineTypeOK /\ (\A q \in Handlers : QBatchFits(q)) /\ QNumbersDiffer /\ QLateIsLast
  BY DEF QuarantineInv
<1>2. UNCHANGED <<worn, known, keyed, qbatch, qlog, batches, relabels>> /\ qident = 1 /\ qident' = 2
  BY DEF QSwitch
<1>3. \A q \in Handlers : QBatchFits(q)'
  BY <1>1, <1>2 DEF QBatchFits
<1>4. QuarantineTypes' /\ QuarantineTypeOK' /\ QNumbersDiffer' /\ QLateIsLast'
  BY <1>1, <1>2 DEF QuarantineTypes, QuarantineTypeOK, QNumbersDiffer, QLateIsLast
<1>5. RelabelsAreNumbered' /\ OtherLabelsStay' /\ OneLevelSent' /\ RemovedIsGone' /\ RelabelOnRecord'
  BY <1>1, <1>2, RelabelsStay DEF QuarantineTypes
<1> QED BY <1>3, <1>4, <1>5 DEF QuarantineInv

LEMMA QStopKeeps == ASSUME QuarantineInv, QStop PROVE QuarantineInv'
<1>1. /\ QuarantineTypes /\ QuarantineTypeOK /\ (\A q \in Handlers : QBatchFits(q)) /\ QNumbersDiffer /\ QLateIsLast
  BY DEF QuarantineInv
<1>2. UNCHANGED <<known, keyed, qident, qlog, batches>> /\ qbatch' = [p \in Handlers |-> NoWork]
  BY DEF QStop
<1>3. \A p \in Handlers : qbatch'[p] = NoWork
  BY <1>2
<1>4. \/ UNCHANGED <<worn, relabels>>
      \/ \E p \in Handlers : qbatch[p].at = "put" /\ Relabelled(p)
  BY DEF QStop
<1>5. ASSUME NEW p \in Handlers, qbatch[p].at = "put", Relabelled(p)
      PROVE  /\ worn' \in [QHosts -> Worn] /\ \A h \in QHosts : h # qbatch[p].host => worn'[h] = worn[h]
             /\ worn'[qbatch[p].host] \cap Levels \subseteq known
             /\ RelabelsAreNumbered' /\ OtherLabelsStay' /\ OneLevelSent' /\ RemovedIsGone' /\ RelabelOnRecord'
             /\ \E n : relabels' = relabels \cup {n} /\ n.who = p /\ n.late = (qident # 1)
  <2>1. QRow(p, qbatch[p].host, "pending", qbatch[p].read) \in qlog'
    BY <1>1, <1>2, <1>5 DEF QBatchFits, QRow
  <2> QED BY <1>2, <1>5, <2>1, RelabelledIs
<1>6. RelabelsAreNumbered' /\ OtherLabelsStay' /\ OneLevelSent' /\ RemovedIsGone' /\ RelabelOnRecord'
  BY <1>1, <1>2, <1>4, <1>5, RelabelsStay DEF QuarantineTypes
<1>7. worn' \in [QHosts -> Worn] /\ \A g \in QHosts : worn'[g] \cap Levels \subseteq known
  BY <1>1, <1>4, <1>5 DEF QuarantineTypeOK, Worn
<1>8. QuarantineTypes' /\ QNumbersDiffer' /\ \A q \in Handlers : QBatchFits(q)'
  BY <1>1, <1>2, <1>3, NoWorkIs DEF QuarantineTypes, QNumbersDiffer, QBatchFits
<1>9. QuarantineTypeOK'
  BY <1>1, <1>2, <1>3, <1>7, NoWorkIs DEF QuarantineTypeOK, Worn
<1>10. QLateIsLast'
  <2>1. \A q \in Handlers : qbatch'[q].at # "put"
    BY <1>3, NoWorkIs
  <2>2. \A w \in relabels : w.late => /\ qident' = 2 /\ (\A q \in Handlers : w.who = q => qbatch'[q].at # "put")
                                    /\ \A v \in relabels : v.late /\ v.who = w.who => v = w
    BY <1>1, <1>2, <2>1 DEF QLateIsLast
  <2>3. CASE UNCHANGED <<worn, relabels>>
    BY <2>2, <2>3 DEF QLateIsLast
  <2>4. CASE \E p \in Handlers : qbatch[p].at = "put" /\ Relabelled(p)
    <3>1. PICK p \in Handlers : qbatch[p].at = "put" /\ Relabelled(p)
      BY <2>4
    <3>2. PICK n : relabels' = relabels \cup {n} /\ n.who = p /\ n.late = (qident # 1)
      BY <1>5, <3>1
    <3>3. \A w \in relabels : w.late => w.who # p
      BY <1>1, <3>1 DEF QLateIsLast
    <3>4. n.late => qident' = 2
      <4>1. qident = 1 \/ qident = 2
        BY <1>1 DEF QuarantineTypeOK
      <4> QED BY <1>2, <3>2, <4>1
    <3>5. \A v \in relabels' : v.late /\ v.who = p => v = n
      BY <3>2, <3>3
    <3>6. \A w \in relabels : w.late => \A v \in relabels' : v.late /\ v.who = w.who => v = w
      BY <2>2, <3>2, <3>3
    <3> QED BY <2>1, <2>2, <3>2, <3>4, <3>5, <3>6 DEF QLateIsLast
  <2> QED BY <1>4, <2>3, <2>4
<1> QED BY <1>6, <1>8, <1>9, <1>10 DEF QuarantineInv

LEMMA QuarantineStep == QuarantineInv /\ [QuarantineNext]_quarantineVars => QuarantineInv'
<1> SUFFICES ASSUME QuarantineInv, [QuarantineNext]_quarantineVars PROVE QuarantineInv'
  OBVIOUS
<1>1. CASE UNCHANGED quarantineVars
  <2>1. UNCHANGED <<worn, known, keyed, qident, qbatch, qlog, batches, relabels>>
    BY <1>1 DEF quarantineVars
  <2>2. QuarantineFrame
    BY <2>1, QLogGrows DEF QuarantineInv, QuarantineTypeOK
  <2> QED BY <2>1, <2>2, QUnchangedWorkKeeps
<1>2. CASE \E p \in Handlers : QWorks(p)
  <2>1. PICK p \in Handlers : QWorks(p)
    BY <1>2
  <2> QED BY <2>1, MakeLabelKeeps, PutLabelsKeeps, QEndsKeep, ReadLabelsKeeps DEF QWorks
<1>3. CASE \E p \in Handlers, hs \in Selections, l \in Levels \cup {Remove} : StartQuarantine(p, hs, l)
  BY <1>3, StartQuarantineKeeps
<1>4. CASE \E h \in QHosts : ConsoleRelabels(h)
  BY <1>4, ConsoleRelabelsKeep
<1> QED BY <1>1, <1>2, <1>3, <1>4, QSwitchKeeps, QStopKeeps DEF QuarantineNext

LEMMA QuarantineHolds == QuarantineInv => QuarantineIsSound
<1> SUFFICES ASSUME QuarantineInv PROVE QuarantineIsSound
  OBVIOUS
<1>1. ASSUME NEW p \in Handlers PROVE Cardinality({w \in relabels : w.late /\ w.who = p}) <= 1
  <2>1. \A x, y \in {w \in relabels : w.late /\ w.who = p} : x = y
    BY DEF QuarantineInv, QLateIsLast
  <2> QED BY <2>1, AtMostOne
<1> QED BY <1>1 DEF QuarantineInv, QuarantineIsSound, QLittleAfterSwitch

-----------------------------------------------------------------------------
(* Turning on Rule Hit Count.                                              *)

RhcSteps == {"template", "draft", "provisioned"}
Reading == {"template", "active", "draft"}
Writing == {"putTemplate", "putDraft", "provision"}
DraftPut == {"activeAgain", "draftAgain", "switchedAgain", "provision"}
RhcStages == {"none", "waits", "switched"} \cup Reading \cup Writing \cup DraftPut
RhcRuns == [at : RhcStages, tpl : BOOLEAN, ven : BOOLEAN, other : Nat, edited : BOOLEAN, console : BOOLEAN,
            leftBefore : BOOLEAN, shipped : {"nothing", "ours", "edited since", "known"},
            done : SUBSET RhcSteps, wrote : SUBSET RhcSteps, late : Nat]
Firewalls == [scopes : BOOLEAN, content : Nat]

RhcTypeOK ==
    /\ template \in BOOLEAN /\ fwActive \in Firewalls /\ fwDraft \in Firewalls /\ samePce \in BOOLEAN
    /\ enabling \in [Enablers -> RhcRuns] /\ fwEdits \in Nat
    /\ enableLock \in Enablers \cup {"nobody"}
    /\ \A p \in Enablers : (enabling[p].at \in {"none", "waits"}) <=> enableLock # p

\* What the run inside _ENABLE_LOCK may rely on while the console leaves firewall_settings alone.
RunHolds(r) ==
    /\ r.done = r.wrote /\ r.shipped = "nothing" /\ (r.at \in Reading => r.wrote = {})
    /\ (r.late = 0) \/ (r.late = 1 /\ ~samePce /\ r.at \notin Writing)
    /\ r.at \in {"putDraft"} \cup DraftPut => r.tpl
    /\ r.at = "draftAgain" /\ ~r.edited => r.other = fwActive.content
    /\ r.at \in {"switchedAgain", "provision"} /\ ~r.edited => fwDraft.content = fwActive.content
RunKnows(r) ==
    ~r.console => /\ r.tpl => template
                  /\ r.ven => fwActive.scopes
                  /\ r.at \in DraftPut => fwDraft.scopes
                  /\ r.at \in Reading /\ ~r.leftBefore => fwDraft.scopes = fwActive.scopes

\* What is said of one run that ended.
EndIsTrue(e) ==
    /\ e.shipped # "known"
    /\ e.result = "pending_firewall" => e.wrote = {} /\ (e.console \/ e.leftBefore \/ fwEdits > 0)
    /\ e.done \subseteq e.wrote /\ Cardinality(e.wrote \ e.done) <= (IF e.result = "unreachable" THEN 1 ELSE 0)
    /\ e.result = "ok" => e.on \/ e.console
    /\ e.late <= 1

RhcInv ==
    /\ RhcTypeOK
    /\ \A p \in Enablers : enableLock = p => RunHolds(enabling[p]) /\ RunKnows(enabling[p])
    /\ fwEdits = 0 => fwActive.content = 0 /\ fwDraft.content = 0
    /\ \A e \in rhcEnds : EndIsTrue(e)

-----------------------------------------------------------------------------
LEMMA NotEnablingIs ==
    /\ NotEnabling \in RhcRuns /\ NotEnabling.at = "none" /\ NotEnabling.done = {} /\ NotEnabling.wrote = {}
    /\ NotEnabling.shipped = "nothing" /\ NotEnabling.late = 0 /\ ~NotEnabling.tpl /\ ~NotEnabling.ven
    /\ ~NotEnabling.edited /\ ~NotEnabling.console /\ ~NotEnabling.leftBefore /\ NotEnabling.other = 0
BY DEF NotEnabling, RhcRuns, RhcStages, RhcSteps

LEMMA AtIs ==
    ASSUME NEW r \in RhcRuns, NEW x \in RhcStages
    PROVE  /\ At(r, x) \in RhcRuns /\ At(r, x).at = x /\ At(r, x).tpl = r.tpl /\ At(r, x).ven = r.ven
           /\ At(r, x).other = r.other /\ At(r, x).edited = r.edited /\ At(r, x).console = r.console
           /\ At(r, x).leftBefore = r.leftBefore /\ At(r, x).shipped = r.shipped /\ At(r, x).done = r.done
           /\ At(r, x).wrote = r.wrote /\ At(r, x).late = r.late
BY DEF At, RhcRuns

LEMMA NoticedIs ==
    ASSUME NEW r \in RhcRuns
    PROVE  /\ Noticed(r) \in RhcRuns /\ Noticed(r).at = r.at /\ Noticed(r).tpl = r.tpl /\ Noticed(r).ven = r.ven
           /\ Noticed(r).edited /\ Noticed(r).console /\ Noticed(r).shipped = r.shipped
           /\ Noticed(r).leftBefore = r.leftBefore /\ Noticed(r).done = r.done /\ Noticed(r).wrote = r.wrote
           /\ Noticed(r).late = r.late
<1> DEFINE t == TRUE
           e == [r EXCEPT !.edited = t]
           n == [e EXCEPT !.console = t]
<1>1. t \in BOOLEAN /\ t
  OBVIOUS
<1>2. Noticed(r) = n
  BY DEF Noticed
<1> HIDE DEF t
<1>3. /\ e \in RhcRuns /\ e.at = r.at /\ e.tpl = r.tpl /\ e.ven = r.ven /\ e.edited = t /\ e.shipped = r.shipped
      /\ e.leftBefore = r.leftBefore /\ e.done = r.done /\ e.wrote = r.wrote /\ e.late = r.late
  BY <1>1 DEF RhcRuns
<1> HIDE DEF e
<1>4. /\ n \in RhcRuns /\ n.at = e.at /\ n.tpl = e.tpl /\ n.ven = e.ven /\ n.edited = e.edited /\ n.console = t
      /\ n.shipped = e.shipped /\ n.leftBefore = e.leftBefore /\ n.done = e.done /\ n.wrote = e.wrote /\ n.late = e.late
  BY <1>1, <1>3 DEF RhcRuns
<1> HIDE DEF n
<1> QED BY <1>1, <1>2, <1>3, <1>4

LEMMA DidIs ==
    ASSUME NEW r \in RhcRuns, NEW x \in RhcSteps
    PROVE  /\ Did(r, x) \in RhcRuns /\ Did(r, x).at = r.at /\ Did(r, x).tpl = r.tpl /\ Did(r, x).ven = r.ven
           /\ Did(r, x).other = r.other /\ Did(r, x).edited = r.edited /\ Did(r, x).console = r.console
           /\ Did(r, x).leftBefore = r.leftBefore /\ Did(r, x).shipped = r.shipped
           /\ Did(r, x).done = r.done \cup {x} /\ Did(r, x).wrote = r.wrote /\ Did(r, x).late = r.late
BY DEF Did, RhcRuns

LEMMA WroteIs ==
    ASSUME NEW r \in RhcRuns, NEW x \in RhcSteps
    PROVE  /\ Wrote(r, x) \in RhcRuns /\ Wrote(r, x).at = r.at /\ Wrote(r, x).tpl = r.tpl /\ Wrote(r, x).ven = r.ven
           /\ Wrote(r, x).other = r.other /\ Wrote(r, x).edited = r.edited /\ Wrote(r, x).console = r.console
           /\ Wrote(r, x).leftBefore = r.leftBefore /\ Wrote(r, x).shipped = r.shipped
           /\ Wrote(r, x).done = r.done /\ Wrote(r, x).wrote = r.wrote \cup {x}
           /\ Wrote(r, x).late = IF samePce THEN r.late ELSE r.late + 1
<1> DEFINE w == [r EXCEPT !.wrote = r.wrote \cup {x}]
           more == IF samePce THEN r.late ELSE r.late + 1
           n == [w EXCEPT !.late = more]
<1>1. /\ w \in RhcRuns /\ w.at = r.at /\ w.tpl = r.tpl /\ w.ven = r.ven /\ w.other = r.other /\ w.edited = r.edited
      /\ w.console = r.console /\ w.leftBefore = r.leftBefore /\ w.shipped = r.shipped /\ w.done = r.done
      /\ w.wrote = r.wrote \cup {x} /\ w.late = r.late
  BY DEF RhcRuns
<1>2. Wrote(r, x) = n
  BY <1>1 DEF Wrote
<1> HIDE DEF w, n
<1>3. more \in Nat
  <2>1. r.late \in Nat
    BY DEF RhcRuns
  <2> QED BY <2>1
<1> HIDE DEF more
<1> USE DEF n
<1>4. /\ n \in RhcRuns /\ n.at = w.at /\ n.tpl = w.tpl /\ n.ven = w.ven /\ n.other = w.other /\ n.edited = w.edited
      /\ n.console = w.console /\ n.leftBefore = w.leftBefore /\ n.shipped = w.shipped /\ n.done = w.done
      /\ n.wrote = w.wrote /\ n.late = more
  BY <1>1, <1>3 DEF RhcRuns
<1> HIDE DEF n
<1> QED BY <1>1, <1>2, <1>4 DEF more

-----------------------------------------------------------------------------
\* What a step of the run inside leaves of the PCE: types, and nothing edited where nobody edited.
PceIsWhole ==
    /\ template' \in BOOLEAN /\ fwActive' \in Firewalls /\ fwDraft' \in Firewalls /\ samePce' = samePce
    /\ fwEdits' = fwEdits /\ (fwEdits = 0 => fwActive'.content = 0 /\ fwDraft'.content = 0)

LEMMA RunGoesOn ==
    ASSUME RhcInv, NEW p \in Enablers, enableLock = p, NEW run \in RhcRuns, run.at \notin {"none", "waits"},
           Goes(p, run), PceIsWhole, RunHolds(enabling[p])', RunKnows(enabling[p])'
    PROVE  RhcInv'
<1>1. enabling' \in [Enablers -> RhcRuns] /\ enabling'[p] = run /\ \A q \in Enablers : q # p => enabling'[q] = enabling[q]
  BY DEF RhcInv, RhcTypeOK, Goes
<1>2. RhcTypeOK'
  BY <1>1 DEF RhcInv, RhcTypeOK, Goes, PceIsWhole
<1>3. (\A e \in rhcEnds : EndIsTrue(e))'
  BY DEF RhcInv, EndIsTrue, Goes, PceIsWhole
<1>4. (\A q \in Enablers : enableLock = q => RunHolds(enabling[q]) /\ RunKnows(enabling[q]))'
  BY DEF Goes
<1> QED BY <1>2, <1>3, <1>4 DEF RhcInv, PceIsWhole

LEMMA RunEnds ==
    ASSUME RhcInv, NEW p \in Enablers, enableLock = p, NEW run \in RhcRuns, NEW result, EndsAs(p, run, result),
           PceIsWhole, run.shipped # "known",
           result = "pending_firewall" => run.wrote = {} /\ (run.console \/ run.leftBefore \/ fwEdits > 0),
           run.done \subseteq run.wrote, Cardinality(run.wrote \ run.done) <= (IF result = "unreachable" THEN 1 ELSE 0),
           result = "ok" => (template' /\ fwActive'.scopes) \/ run.console,
           run.late <= 1
    PROVE  RhcInv'
<1>0. PICK e : e = [result |-> result, done |-> run.done, wrote |-> run.wrote, late |-> run.late,
                    leftBefore |-> run.leftBefore, console |-> run.console, shipped |-> run.shipped,
                    on |-> template' /\ fwActive'.scopes]
  OBVIOUS
<1>1. rhcEnds' = rhcEnds \cup {e} /\ enabling' = [enabling EXCEPT ![p] = NotEnabling] /\ enableLock' = "nobody"
  BY <1>0 DEF EndsAs
<1>2. enabling' \in [Enablers -> RhcRuns] /\ enabling'[p] = NotEnabling
      /\ \A q \in Enablers : q # p => enabling'[q] = enabling[q]
  BY <1>1, NotEnablingIs DEF RhcInv, RhcTypeOK
<1>3. \A q \in Enablers : enabling'[q].at \in {"none", "waits"} /\ enableLock' # q
  BY <1>1, <1>2, NotEnablingIs, RhcAssumption DEF RhcInv, RhcTypeOK
<1>4. RhcTypeOK'
  BY <1>1, <1>2, <1>3 DEF RhcInv, RhcTypeOK, PceIsWhole
<1>5. e.result = result /\ e.done = run.done /\ e.wrote = run.wrote /\ e.late = run.late /\ e.leftBefore = run.leftBefore
      /\ e.console = run.console /\ e.shipped = run.shipped /\ (e.on <=> template' /\ fwActive'.scopes)
  BY <1>0
<1>6. EndIsTrue(e)'
  BY <1>5 DEF EndIsTrue, PceIsWhole
<1>7. \A x \in rhcEnds : EndIsTrue(x)'
  BY DEF RhcInv, EndIsTrue, PceIsWhole
<1> QED BY <1>1, <1>3, <1>4, <1>6, <1>7 DEF RhcInv, PceIsWhole

\* The run ends with nothing written that it does not say.
LEMMA RunEndsClean ==
    ASSUME RhcInv, NEW p \in Enablers, enableLock = p,
           NEW result \in {"unreachable", "pce_changed", "step_failed", "firewall_changed"},
           EndsAs(p, enabling[p], result), UNCHANGED <<template, fwActive, fwDraft, samePce, fwEdits>>
    PROVE  RhcInv'
<1> DEFINE run == enabling[p]
<1>1. run \in RhcRuns /\ RunHolds(run)
  BY DEF RhcInv, RhcTypeOK
<1>2. PceIsWhole
  BY DEF PceIsWhole, RhcInv, RhcTypeOK
<1> HIDE DEF run
<1>3. run.wrote \ run.done = {} /\ run.done \subseteq run.wrote /\ run.late <= 1 /\ run.shipped # "known"
  BY <1>1 DEF RunHolds
<1>4. Cardinality(run.wrote \ run.done) = 0
  BY <1>3, FS_EmptySet
<1>5. EndsAs(p, run, result)
  BY DEF run
<1> QED BY <1>1, <1>2, <1>3, <1>4, <1>5, RunEnds

-----------------------------------------------------------------------------
LEMMA InsideIs ==
    ASSUME RhcInv, NEW p \in Enablers, enabling[p].at \notin {"none", "waits"}
    PROVE  /\ enableLock = p /\ enabling[p] \in RhcRuns /\ RunHolds(enabling[p]) /\ RunKnows(enabling[p])
           /\ template \in BOOLEAN /\ fwActive \in Firewalls /\ fwDraft \in Firewalls
           /\ fwEdits = 0 => fwActive.content = 0 /\ fwDraft.content = 0
BY DEF RhcInv, RhcTypeOK

LEMMA UntouchedIsWhole == RhcInv /\ UNCHANGED <<template, fwActive, fwDraft, samePce, fwEdits>> => PceIsWhole
BY DEF RhcInv, RhcTypeOK, PceIsWhole

LEMMA BeginKeeps == ASSUME RhcInv, NEW p \in Enablers, BeginEnable(p) PROVE RhcInv'
<1> DEFINE run == At(NotEnabling, "waits")
<1>1. enabling' = [enabling EXCEPT ![p] = run] /\ enabling[p].at = "none"
      /\ UNCHANGED <<template, fwActive, fwDraft, samePce, enableLock, fwEdits, rhcEnds>>
  BY DEF BeginEnable
<1>2. run \in RhcRuns /\ run.at = "waits"
  BY NotEnablingIs, AtIs DEF RhcStages
<1> HIDE DEF run
<1>3. enableLock # p
  BY <1>1 DEF RhcInv, RhcTypeOK
<1>4. enabling' \in [Enablers -> RhcRuns] /\ enabling'[p] = run /\ \A q \in Enablers : q # p => enabling'[q] = enabling[q]
  BY <1>1, <1>2 DEF RhcInv, RhcTypeOK
<1>5. RhcTypeOK'
  BY <1>1, <1>2, <1>3, <1>4 DEF RhcInv, RhcTypeOK
<1>6. \A q \in Enablers : (enableLock = q => RunHolds(enabling[q]) /\ RunKnows(enabling[q]))'
  BY <1>1, <1>3, <1>4 DEF RhcInv, RunHolds, RunKnows
<1>7. (\A e \in rhcEnds : EndIsTrue(e))'
  BY <1>1 DEF RhcInv, EndIsTrue
<1> QED BY <1>1, <1>5, <1>6, <1>7 DEF RhcInv

LEMMA EnterKeeps == ASSUME RhcInv, NEW p \in Enablers, EnterEnable(p) PROVE RhcInv'
<1> DEFINE began == LeftBehind
           fresh == [NotEnabling EXCEPT !.leftBefore = began]
           run == At(fresh, "template")
<1>1. enabling' = [enabling EXCEPT ![p] = run] /\ enableLock = "nobody" /\ enableLock' = p
      /\ UNCHANGED <<template, fwActive, fwDraft, samePce, fwEdits, rhcEnds>>
  BY DEF EnterEnable, EnableFree
<1>2. began \in BOOLEAN /\ (~began => fwDraft.scopes = fwActive.scopes)
  BY DEF LeftBehind
<1> HIDE DEF began
<1>3. /\ fresh \in RhcRuns /\ fresh.leftBefore = began /\ fresh.at = NotEnabling.at /\ fresh.done = NotEnabling.done
      /\ fresh.wrote = NotEnabling.wrote /\ fresh.shipped = NotEnabling.shipped /\ fresh.late = NotEnabling.late
      /\ fresh.tpl = NotEnabling.tpl /\ fresh.ven = NotEnabling.ven
  BY <1>2, NotEnablingIs DEF RhcRuns
<1> HIDE DEF fresh
<1>4. run \in RhcRuns /\ run.at = "template" /\ run.leftBefore = began /\ run.done = {} /\ run.wrote = {}
      /\ run.shipped = "nothing" /\ run.late = 0 /\ ~run.tpl /\ ~run.ven
  BY <1>3, NotEnablingIs, AtIs DEF RhcStages, Reading
<1> HIDE DEF run
<1>5. enabling' \in [Enablers -> RhcRuns] /\ enabling'[p] = run /\ \A q \in Enablers : q # p => enabling'[q] = enabling[q]
  BY <1>1, <1>4 DEF RhcInv, RhcTypeOK
<1>6. RhcTypeOK'
  <2>1. \A q \in Enablers : enabling[q].at \in {"none", "waits"}
    BY <1>1, RhcAssumption DEF RhcInv, RhcTypeOK
  <2> QED BY <1>1, <1>4, <1>5, <2>1 DEF RhcInv, RhcTypeOK
<1>7. RunHolds(enabling[p])'
  BY <1>4, <1>5 DEF RunHolds, Reading, Writing, DraftPut
<1>8. RunKnows(enabling[p])'
  BY <1>1, <1>2, <1>4, <1>5 DEF RunKnows, DraftPut
<1>9. (\A e \in rhcEnds : EndIsTrue(e))'
  BY <1>1 DEF RhcInv, EndIsTrue
<1> QED BY <1>1, <1>6, <1>7, <1>8, <1>9 DEF RhcInv

LEMMA ReadTemplateKeeps == ASSUME RhcInv, NEW p \in Enablers, ReadTemplate(p) PROVE RhcInv'
<1> DEFINE r == enabling[p]
           s == [r EXCEPT !.tpl = template]
           run == At(s, "active")
<1>1. r.at = "template" /\ Goes(p, run) /\ UNCHANGED <<template, fwActive, fwDraft, samePce, fwEdits>>
  BY DEF ReadTemplate
<1>2. enableLock = p /\ r \in RhcRuns /\ RunHolds(r) /\ RunKnows(r) /\ template \in BOOLEAN
  BY <1>1, InsideIs
<1> HIDE DEF r
<1>3. /\ s \in RhcRuns /\ s.tpl = template /\ s.ven = r.ven /\ s.leftBefore = r.leftBefore /\ s.console = r.console
      /\ s.done = r.done /\ s.wrote = r.wrote /\ s.shipped = r.shipped /\ s.late = r.late
  BY <1>2 DEF RhcRuns
<1> HIDE DEF s
<1>4. /\ run \in RhcRuns /\ run.at = "active" /\ run.tpl = template /\ run.ven = r.ven /\ run.leftBefore = r.leftBefore
      /\ run.console = r.console /\ run.done = r.done /\ run.wrote = r.wrote /\ run.shipped = r.shipped /\ run.late = r.late
  BY <1>3, AtIs DEF RhcStages, Reading
<1> HIDE DEF run
<1>5. enabling'[p] = run
  BY <1>1 DEF Goes, RhcInv, RhcTypeOK
<1>6. RunHolds(enabling[p])'
  BY <1>1, <1>2, <1>4, <1>5 DEF RunHolds, Reading, Writing, DraftPut
<1>7. RunKnows(enabling[p])'
  BY <1>1, <1>2, <1>4, <1>5 DEF RunKnows, Reading, DraftPut
<1> QED BY <1>1, <1>2, <1>4, <1>6, <1>7, UntouchedIsWhole, RunGoesOn

LEMMA ReadActiveKeeps == ASSUME RhcInv, NEW p \in Enablers, ReadActive(p) PROVE RhcInv'
<1> DEFINE r == enabling[p]
           s == [r EXCEPT !.ven = fwActive.scopes]
           next == IF s.ven THEN "switched" ELSE "draft"
           run == At(s, next)
<1>1. r.at = "active" /\ Goes(p, run) /\ UNCHANGED <<template, fwActive, fwDraft, samePce, fwEdits>>
  BY DEF ReadActive
<1>2. enableLock = p /\ r \in RhcRuns /\ RunHolds(r) /\ RunKnows(r) /\ fwActive \in Firewalls
  BY <1>1, InsideIs
<1> HIDE DEF r
<1>3. /\ s \in RhcRuns /\ s.tpl = r.tpl /\ s.ven = fwActive.scopes /\ s.leftBefore = r.leftBefore /\ s.console = r.console
      /\ s.done = r.done /\ s.wrote = r.wrote /\ s.shipped = r.shipped /\ s.late = r.late
  BY <1>2 DEF RhcRuns, Firewalls
<1>4. next \in RhcStages /\ next \in {"switched", "draft"}
  BY DEF RhcStages, Reading
<1> HIDE DEF s, next
<1>5. /\ run \in RhcRuns /\ run.at = next /\ run.tpl = r.tpl /\ run.ven = fwActive.scopes /\ run.leftBefore = r.leftBefore
      /\ run.console = r.console /\ run.done = r.done /\ run.wrote = r.wrote /\ run.shipped = r.shipped /\ run.late = r.late
  BY <1>3, <1>4, AtIs
<1> HIDE DEF run
<1>6. enabling'[p] = run
  BY <1>1 DEF Goes, RhcInv, RhcTypeOK
<1>7. RunHolds(enabling[p])'
  BY <1>1, <1>2, <1>4, <1>5, <1>6 DEF RunHolds, Reading, Writing, DraftPut
<1>8. RunKnows(enabling[p])'
  BY <1>1, <1>2, <1>4, <1>5, <1>6 DEF RunKnows, Reading, DraftPut
<1>9. run.at \notin {"none", "waits"}
  BY <1>4, <1>5
<1> QED BY <1>1, <1>2, <1>5, <1>7, <1>8, <1>9, UntouchedIsWhole, RunGoesOn

LEMMA ReadDraftKeeps == ASSUME RhcInv, NEW p \in Enablers, ReadDraft(p) PROVE RhcInv'
<1> DEFINE r == enabling[p]
           run == At(r, "switched")
<1>1. r.at = "draft" /\ UNCHANGED <<template, fwActive, fwDraft, samePce, fwEdits>>
  BY DEF ReadDraft
<1>2. enableLock = p /\ r \in RhcRuns /\ RunHolds(r) /\ RunKnows(r) /\ fwActive \in Firewalls /\ fwDraft \in Firewalls
      /\ (fwEdits = 0 => fwActive.content = 0 /\ fwDraft.content = 0) /\ fwEdits \in Nat
  BY <1>1, InsideIs DEF RhcInv, RhcTypeOK
<1>3. CASE PendingChange
  <2>1. EndsAs(p, r, "pending_firewall")
    BY <1>3 DEF ReadDraft
  <2> HIDE DEF r
  <2>2. r.done = r.wrote /\ r.wrote = {} /\ r.shipped = "nothing" /\ r.late <= 1
    BY <1>1, <1>2 DEF RunHolds, Reading
  <2>3. r.console \/ r.leftBefore \/ fwEdits > 0
    <3>1. fwEdits = 0 => fwActive.scopes # fwDraft.scopes
      BY <1>2, <1>3 DEF PendingChange, Firewalls
    <3> QED BY <1>1, <1>2, <3>1 DEF RunKnows, Reading
  <2>4. Cardinality(r.wrote \ r.done) = 0
    <3>1. r.wrote \ r.done = {}
      BY <2>2
    <3> QED BY <3>1, FS_EmptySet
  <2>5. r.shipped # "known" /\ r.done \subseteq r.wrote
    BY <2>2
  <2> QED BY <1>1, <1>2, <2>1, <2>2, <2>3, <2>4, <2>5, UntouchedIsWhole, RunEnds
<1>4. CASE ~PendingChange
  <2>1. Goes(p, run)
    BY <1>4 DEF ReadDraft
  <2> HIDE DEF r
  <2>2. /\ run \in RhcRuns /\ run.at = "switched" /\ run.tpl = r.tpl /\ run.ven = r.ven /\ run.leftBefore = r.leftBefore
        /\ run.console = r.console /\ run.done = r.done /\ run.wrote = r.wrote /\ run.shipped = r.shipped /\ run.late = r.late
    BY <1>2, AtIs DEF RhcStages
  <2> HIDE DEF run
  <2>3. enabling'[p] = run
    BY <2>1 DEF Goes, RhcInv, RhcTypeOK
  <2>4. RunHolds(enabling[p])'
    BY <1>1, <1>2, <2>2, <2>3 DEF RunHolds, Reading, Writing, DraftPut
  <2>5. RunKnows(enabling[p])'
    BY <1>1, <1>2, <2>2, <2>3 DEF RunKnows, Reading, DraftPut
  <2> QED BY <1>1, <1>2, <2>1, <2>2, <2>4, <2>5, UntouchedIsWhole, RunGoesOn
<1> QED BY <1>3, <1>4

-----------------------------------------------------------------------------
LEMMA ReadActiveAgainKeeps == ASSUME RhcInv, NEW p \in Enablers, ReadActiveAgain(p) PROVE RhcInv'
<1> DEFINE r == enabling[p]
           f == FALSE
           c == [r EXCEPT !.other = fwActive.content]
           s == [c EXCEPT !.edited = f]
           run == At(s, "draftAgain")
<1>1. r.at = "activeAgain" /\ Goes(p, run) /\ UNCHANGED <<template, fwActive, fwDraft, samePce, fwEdits>>
  BY DEF ReadActiveAgain
<1>2. enableLock = p /\ r \in RhcRuns /\ RunHolds(r) /\ RunKnows(r) /\ fwActive \in Firewalls
  BY <1>1, InsideIs
<1>3. f \in BOOLEAN
  OBVIOUS
<1> HIDE DEF r, f
<1>4. /\ c \in RhcRuns /\ c.other = fwActive.content /\ c.tpl = r.tpl /\ c.ven = r.ven /\ c.console = r.console
      /\ c.leftBefore = r.leftBefore
      /\ c.done = r.done /\ c.wrote = r.wrote /\ c.shipped = r.shipped /\ c.late = r.late
  BY <1>2 DEF RhcRuns, Firewalls
<1> HIDE DEF c
<1>5. /\ s \in RhcRuns /\ s.other = c.other /\ s.tpl = c.tpl /\ s.ven = c.ven /\ s.console = c.console
      /\ s.leftBefore = c.leftBefore
      /\ s.done = c.done /\ s.wrote = c.wrote /\ s.shipped = c.shipped /\ s.late = c.late
  BY <1>3, <1>4 DEF RhcRuns
<1> HIDE DEF s
<1>6. /\ run \in RhcRuns /\ run.at = "draftAgain" /\ run.other = fwActive.content /\ run.tpl = r.tpl /\ run.ven = r.ven
      /\ run.console = r.console /\ run.leftBefore = r.leftBefore
      /\ run.done = r.done /\ run.wrote = r.wrote /\ run.shipped = r.shipped /\ run.late = r.late
  BY <1>4, <1>5, AtIs DEF RhcStages, DraftPut
<1> HIDE DEF run
<1>7. enabling'[p] = run
  BY <1>1 DEF Goes, RhcInv, RhcTypeOK
<1>8. RunHolds(enabling[p])'
  BY <1>1, <1>2, <1>6, <1>7 DEF RunHolds, Reading, Writing, DraftPut
<1>9. RunKnows(enabling[p])'
  BY <1>1, <1>2, <1>6, <1>7 DEF RunKnows, Reading, DraftPut
<1> QED BY <1>1, <1>2, <1>6, <1>8, <1>9, UntouchedIsWhole, RunGoesOn

LEMMA ReadDraftAgainKeeps == ASSUME RhcInv, NEW p \in Enablers, ReadDraftAgain(p) PROVE RhcInv'
<1> DEFINE r == enabling[p]
           run == At(r, "switchedAgain")
<1>1. r.at = "draftAgain" /\ UNCHANGED <<template, fwActive, fwDraft, samePce, fwEdits>>
  BY DEF ReadDraftAgain
<1>2. enableLock = p /\ r \in RhcRuns /\ RunHolds(r) /\ RunKnows(r)
  BY <1>1, InsideIs
<1>3. CASE OnlyOurs(p)
  <2>1. Goes(p, run) /\ r.other = fwDraft.content
    BY <1>3 DEF ReadDraftAgain, OnlyOurs
  <2> HIDE DEF r
  <2>2. /\ run \in RhcRuns /\ run.at = "switchedAgain" /\ run.tpl = r.tpl /\ run.ven = r.ven /\ run.console = r.console
        /\ run.edited = r.edited /\ run.leftBefore = r.leftBefore
        /\ run.done = r.done /\ run.wrote = r.wrote /\ run.shipped = r.shipped /\ run.late = r.late
    BY <1>2, AtIs DEF RhcStages, DraftPut
  <2> HIDE DEF run
  <2>3. enabling'[p] = run
    BY <2>1 DEF Goes, RhcInv, RhcTypeOK
  <2>4. RunHolds(enabling[p])'
    BY <1>1, <1>2, <2>1, <2>2, <2>3 DEF RunHolds, Reading, Writing, DraftPut
  <2>5. RunKnows(enabling[p])'
    BY <1>1, <1>2, <2>2, <2>3 DEF RunKnows, Reading, DraftPut
  <2> QED BY <1>1, <1>2, <2>1, <2>2, <2>4, <2>5, UntouchedIsWhole, RunGoesOn
<1>4. CASE ~OnlyOurs(p)
  BY <1>1, <1>2, <1>4, RunEndsClean DEF ReadDraftAgain
<1> QED BY <1>3, <1>4

LEMMA CheckSwitchedKeeps == ASSUME RhcInv, NEW p \in Enablers, CheckSwitched(p) PROVE RhcInv'
<1> DEFINE r == enabling[p]
           next == IF r.at = "switchedAgain" THEN "provision" ELSE WhatNext(r)
           run == At(r, next)
<1>1. r.at \in {"switched", "switchedAgain"} /\ UNCHANGED <<template, fwActive, fwDraft, samePce, fwEdits>>
      /\ \/ next = "end" /\ EndsAs(p, r, "ok")
         \/ next # "end" /\ ~samePce /\ EndsAs(p, r, "pce_changed")
         \/ next # "end" /\ samePce /\ Goes(p, run)
  BY DEF CheckSwitched, StillSame
<1>2. enableLock = p /\ r \in RhcRuns /\ RunHolds(r) /\ RunKnows(r)
  BY <1>1, InsideIs
<1>3. /\ next \in {"end", "provision", "putTemplate", "putDraft"}
      /\ next = "end" => r.tpl /\ r.ven
      /\ next = "provision" => r.at = "switchedAgain"
      /\ next = "putDraft" => r.tpl
  BY DEF WhatNext
<1>4. CASE next # "end" /\ ~samePce /\ EndsAs(p, r, "pce_changed")
  BY <1>1, <1>2, <1>4, RunEndsClean
<1> HIDE DEF r, next
<1>5. CASE next = "end" /\ EndsAs(p, r, "ok")
  <2>1. r.done = r.wrote /\ r.shipped = "nothing" /\ r.late <= 1
    BY <1>2 DEF RunHolds
  <2>2. (template' /\ fwActive'.scopes) \/ r.console
    BY <1>1, <1>2, <1>3, <1>5 DEF RunKnows
  <2>3. Cardinality(r.wrote \ r.done) = 0
    <3>1. r.wrote \ r.done = {}
      BY <2>1
    <3> QED BY <3>1, FS_EmptySet
  <2>4. r.shipped # "known" /\ r.done \subseteq r.wrote
    BY <2>1
  <2> QED BY <1>1, <1>2, <1>5, <2>1, <2>2, <2>3, <2>4, UntouchedIsWhole, RunEnds
<1>6. CASE next # "end" /\ samePce /\ Goes(p, run)
  <2>1. next \in RhcStages
    BY <1>3, <1>6 DEF RhcStages, Writing
  <2>2. /\ run \in RhcRuns /\ run.at = next /\ run.tpl = r.tpl /\ run.ven = r.ven /\ run.console = r.console
        /\ run.edited = r.edited /\ run.leftBefore = r.leftBefore
        /\ run.done = r.done /\ run.wrote = r.wrote /\ run.shipped = r.shipped /\ run.late = r.late
    BY <1>2, <2>1, AtIs
  <2> HIDE DEF run
  <2>3. enabling'[p] = run
    BY <1>6 DEF Goes, RhcInv, RhcTypeOK
  <2>4. RunHolds(enabling[p])'
    BY <1>1, <1>2, <1>3, <1>6, <2>2, <2>3 DEF RunHolds, Reading, Writing, DraftPut
  <2>5. RunKnows(enabling[p])'
    BY <1>1, <1>2, <1>3, <1>6, <2>2, <2>3 DEF RunKnows, Reading, DraftPut
  <2>6. run.at \notin {"none", "waits"}
    BY <1>3, <2>2
  <2> QED BY <1>1, <1>2, <1>6, <2>2, <2>4, <2>5, <2>6, UntouchedIsWhole, RunGoesOn
<1> QED BY <1>1, <1>4, <1>5, <1>6

LEMMA ReadFailsKeeps == ASSUME RhcInv, NEW p \in Enablers, ReadFails(p) PROVE RhcInv'
<1>1. enableLock = p
  BY InsideIs DEF ReadFails
<1>2. EndsAs(p, enabling[p], "unreachable") /\ UNCHANGED <<template, fwActive, fwDraft, samePce, fwEdits>>
  BY DEF ReadFails
<1> QED BY <1>1, <1>2, RunEndsClean

-----------------------------------------------------------------------------
\* What is written but not said to be done is at most the last step.
LEMMA LastStepOnly ==
    ASSUME NEW D, NEW x
    PROVE  Cardinality((D \cup {x}) \ D) <= 1
<1>1. CASE x \in D
  <2>1. (D \cup {x}) \ D = {}
    BY <1>1
  <2> QED BY <2>1, FS_EmptySet
<1>2. CASE x \notin D
  <2>1. (D \cup {x}) \ D = {x}
    BY <1>2
  <2>2. Cardinality({x}) = 1
    BY FS_Singleton
  <2> QED BY <2>1, <2>2
<1> QED BY <1>1, <1>2

LEMMA TookKeeps ==
    ASSUME RhcInv, NEW p \in Enablers, enableLock = p, NEW r \in RhcRuns, r.done = r.wrote, r.shipped = "nothing",
           r.late = 0, r.tpl, NEW x \in RhcSteps, NEW next \in {"switched", "activeAgain"}, Took(p, r, x, next),
           PceIsWhole, ~r.console => template' /\ (r.ven => fwActive'.scopes) /\ (next = "activeAgain" => fwDraft'.scopes)
    PROVE  RhcInv'
<1> DEFINE w == Wrote(r, x)
           d == Did(w, x)
           run == At(d, next)
<1>1. Goes(p, run) \/ EndsAs(p, w, "unreachable")
  BY DEF Took
<1>2. /\ w \in RhcRuns /\ w.tpl = r.tpl /\ w.ven = r.ven /\ w.console = r.console
      /\ w.shipped = r.shipped /\ w.done = r.done /\ w.wrote = r.wrote \cup {x}
      /\ w.late = IF samePce THEN 0 ELSE 1
  <2>1. /\ w \in RhcRuns /\ w.tpl = r.tpl /\ w.ven = r.ven /\ w.console = r.console
        /\ w.shipped = r.shipped /\ w.done = r.done /\ w.wrote = r.wrote \cup {x}
        /\ w.late = IF samePce THEN r.late ELSE r.late + 1
    BY WroteIs
  <2> HIDE DEF w
  <2> QED BY <2>1
<1> HIDE DEF w
<1>3. CASE EndsAs(p, w, "unreachable")
  <2>1. Cardinality(w.wrote \ w.done) <= 1
    BY <1>2, LastStepOnly
  <2>2. w.done \subseteq w.wrote /\ w.shipped # "known"
    BY <1>2
  <2>3. w.late <= 1
    BY <1>2
  <2> QED BY <1>2, <1>3, <2>1, <2>2, <2>3, RunEnds
<1>4. CASE Goes(p, run)
  <2>1. /\ d \in RhcRuns /\ d.tpl = r.tpl /\ d.ven = r.ven /\ d.console = r.console
        /\ d.shipped = r.shipped /\ d.done = r.done \cup {x} /\ d.wrote = r.wrote \cup {x} /\ d.late = w.late
    BY <1>2, DidIs
  <2> HIDE DEF d
  <2>2. next \in RhcStages /\ next \notin Reading /\ next \notin Writing
    BY DEF RhcStages, DraftPut, Reading, Writing
  <2>3. /\ run \in RhcRuns /\ run.at = next /\ run.tpl = r.tpl /\ run.ven = r.ven /\ run.console = r.console
        /\ run.shipped = r.shipped /\ run.done = r.done \cup {x} /\ run.wrote = r.wrote \cup {x} /\ run.late = w.late
    BY <2>1, <2>2, AtIs
  <2> HIDE DEF run
  <2>4. enabling'[p] = run
    BY <1>4 DEF Goes, RhcInv, RhcTypeOK
  <2>5. (run.late = 0) \/ (run.late = 1 /\ ~samePce')
    BY <1>2, <2>3 DEF PceIsWhole
  <2>6. RunHolds(enabling[p])'
    BY <2>2, <2>3, <2>4, <2>5 DEF RunHolds
  <2>7. RunKnows(enabling[p])'
    BY <2>2, <2>3, <2>4 DEF RunKnows, DraftPut
  <2>8. run.at \notin {"none", "waits"}
    BY <2>3
  <2> QED BY <1>4, <2>3, <2>6, <2>7, <2>8, RunGoesOn
<1> QED BY <1>1, <1>3, <1>4

LEMMA PutTemplateKeeps == ASSUME RhcInv, NEW p \in Enablers, PutTemplate(p) PROVE RhcInv'
<1> DEFINE r == enabling[p]
           t == TRUE
           s == [r EXCEPT !.tpl = t]
<1>1. r.at = "putTemplate" /\ UNCHANGED <<samePce, fwEdits>>
  BY DEF PutTemplate
<1>2. enableLock = p /\ r \in RhcRuns /\ RunHolds(r) /\ RunKnows(r) /\ fwActive \in Firewalls /\ fwDraft \in Firewalls
      /\ (fwEdits = 0 => fwActive.content = 0 /\ fwDraft.content = 0)
  BY <1>1, InsideIs
<1>3. CASE Refuses(p)
  BY <1>1, <1>2, <1>3, RunEndsClean DEF Refuses
<1>4. CASE template' = TRUE /\ UNCHANGED <<fwActive, fwDraft>> /\ Took(p, s, "template", "switched")
  <2>1. t \in BOOLEAN /\ t
    OBVIOUS
  <2> HIDE DEF r, t
  <2>2. /\ s \in RhcRuns /\ s.tpl = t /\ s.ven = r.ven /\ s.console = r.console /\ s.done = r.done /\ s.wrote = r.wrote
        /\ s.shipped = r.shipped /\ s.late = r.late
    BY <1>2, <2>1 DEF RhcRuns
  <2> HIDE DEF s
  <2>3. s.done = s.wrote /\ s.shipped = "nothing" /\ s.late = 0 /\ s.tpl
    BY <1>1, <1>2, <2>1, <2>2 DEF RunHolds, Writing
  <2>4. PceIsWhole
    BY <1>1, <1>2, <1>4 DEF PceIsWhole
  <2>5. ~s.console => template' /\ (s.ven => fwActive'.scopes)
    BY <1>2, <1>4, <2>2 DEF RunKnows
  <2>6. "template" \in RhcSteps
    BY DEF RhcSteps
  <2> QED BY <1>2, <1>4, <2>2, <2>3, <2>4, <2>5, <2>6, TookKeeps
<1> QED BY <1>3, <1>4 DEF PutTemplate

LEMMA PutDraftKeeps == ASSUME RhcInv, NEW p \in Enablers, PutDraft(p) PROVE RhcInv'
<1> DEFINE r == enabling[p]
           t == TRUE
<1>1. r.at = "putDraft" /\ UNCHANGED <<samePce, fwEdits>>
  BY DEF PutDraft
<1>2. enableLock = p /\ r \in RhcRuns /\ RunHolds(r) /\ RunKnows(r) /\ fwActive \in Firewalls /\ fwDraft \in Firewalls
      /\ (fwEdits = 0 => fwActive.content = 0 /\ fwDraft.content = 0) /\ template \in BOOLEAN
  BY <1>1, InsideIs
<1>3. CASE Refuses(p)
  BY <1>1, <1>2, <1>3, RunEndsClean DEF Refuses
<1>4. CASE fwDraft' = [fwDraft EXCEPT !.scopes = TRUE] /\ UNCHANGED <<template, fwActive>> /\ Took(p, r, "draft", "activeAgain")
  <2>1. t \in BOOLEAN /\ t /\ fwDraft' = [fwDraft EXCEPT !.scopes = t]
    BY <1>4
  <2> HIDE DEF r, t
  <2>2. fwDraft' \in Firewalls /\ fwDraft'.scopes = t /\ fwDraft'.content = fwDraft.content
    BY <1>2, <2>1 DEF Firewalls
  <2>3. r.done = r.wrote /\ r.shipped = "nothing" /\ r.late = 0 /\ r.tpl
    BY <1>1, <1>2 DEF RunHolds, Writing
  <2>4. PceIsWhole
    BY <1>1, <1>2, <1>4, <2>2 DEF PceIsWhole
  <2>5. ~r.console => template' /\ (r.ven => fwActive'.scopes) /\ fwDraft'.scopes
    BY <1>2, <1>4, <2>1, <2>2, <2>3 DEF RunKnows
  <2>6. "draft" \in RhcSteps
    BY DEF RhcSteps
  <2> QED BY <1>2, <1>4, <2>3, <2>4, <2>5, <2>6, TookKeeps
<1> QED BY <1>3, <1>4 DEF PutDraft

LEMMA ProvisionFirewallKeeps == ASSUME RhcInv, NEW p \in Enablers, ProvisionFirewall(p) PROVE RhcInv'
<1> DEFINE r == enabling[p]
           sh == Shipped(r)
           s == [r EXCEPT !.shipped = sh]
           run == Wrote(s, "provisioned")
           all == Did(run, "provisioned")
<1>1. r.at = "provision" /\ UNCHANGED <<samePce, fwEdits>>
  BY DEF ProvisionFirewall
<1>2. enableLock = p /\ r \in RhcRuns /\ RunHolds(r) /\ RunKnows(r) /\ fwActive \in Firewalls /\ fwDraft \in Firewalls
      /\ (fwEdits = 0 => fwActive.content = 0 /\ fwDraft.content = 0) /\ template \in BOOLEAN
  BY <1>1, InsideIs
<1>3. CASE Refuses(p)
  BY <1>1, <1>2, <1>3, RunEndsClean DEF Refuses
<1>4. CASE fwActive' = fwDraft /\ UNCHANGED <<template, fwDraft>>
           /\ (EndsAs(p, all, "ok") \/ EndsAs(p, run, "unreachable"))
  <2>1. sh \in {"ours", "edited since"}
    BY <1>1, <1>2 DEF RunHolds, Shipped
  <2> HIDE DEF r, sh
  <2>2. /\ s \in RhcRuns /\ s.shipped = sh /\ s.done = r.done /\ s.wrote = r.wrote /\ s.late = r.late
        /\ s.console = r.console /\ s.tpl = r.tpl
    BY <1>2, <2>1 DEF RhcRuns
  <2> HIDE DEF s
  <2>3. "provisioned" \in RhcSteps /\ r.late = 0 /\ r.tpl /\ r.done = r.wrote
    BY <1>1, <1>2 DEF RhcSteps, RunHolds, Writing, DraftPut
  <2>4. /\ run \in RhcRuns /\ run.shipped = sh /\ run.done = r.done /\ run.wrote = r.done \cup {"provisioned"}
        /\ run.late <= 1 /\ run.console = r.console
    <3>1. /\ run \in RhcRuns /\ run.shipped = s.shipped /\ run.done = s.done /\ run.wrote = s.wrote \cup {"provisioned"}
          /\ run.late = (IF samePce THEN s.late ELSE s.late + 1) /\ run.console = s.console
      BY <2>2, <2>3, WroteIs
    <3> HIDE DEF run
    <3> QED BY <2>2, <2>3, <3>1
  <2> HIDE DEF run
  <2>5. PceIsWhole
    BY <1>1, <1>2, <1>4 DEF PceIsWhole
  <2>6. CASE EndsAs(p, run, "unreachable")
    <3>1. Cardinality(run.wrote \ run.done) <= 1
      BY <2>4, LastStepOnly
    <3>2. run.done \subseteq run.wrote /\ run.shipped # "known"
      BY <2>1, <2>4
    <3> QED BY <1>2, <2>4, <2>5, <2>6, <3>1, <3>2, RunEnds
  <2>7. CASE EndsAs(p, all, "ok")
    <3>1. /\ all \in RhcRuns /\ all.shipped = run.shipped /\ all.done = run.done \cup {"provisioned"}
          /\ all.wrote = run.wrote /\ all.late = run.late /\ all.console = run.console
      BY <2>3, <2>4, DidIs
    <3> HIDE DEF all
    <3>2. Cardinality(all.wrote \ all.done) = 0
      <4>1. all.wrote \ all.done = {}
        BY <2>4, <3>1
      <4> QED BY <4>1, FS_EmptySet
    <3>3. (template' /\ fwActive'.scopes) \/ all.console
      BY <1>1, <1>2, <1>4, <2>3, <2>4, <3>1 DEF RunKnows, DraftPut
    <3>4. all.done \subseteq all.wrote /\ all.shipped # "known" /\ all.late <= 1
      BY <2>1, <2>4, <3>1
    <3> QED BY <1>2, <2>5, <2>7, <3>1, <3>2, <3>3, <3>4, RunEnds
  <2> QED BY <1>4, <2>6, <2>7
<1> QED BY <1>3, <1>4 DEF ProvisionFirewall

-----------------------------------------------------------------------------
LEMMA ConsoleStepKeeps ==
    ASSUME RhcInv, NEW tpl \in BOOLEAN, NEW a \in Firewalls, NEW d \in Firewalls, ConsoleStep(tpl, a, d)
    PROVE  RhcInv'
<1>1. /\ template' = tpl /\ fwActive' = a /\ fwDraft' = d /\ fwEdits' = fwEdits + 1
      /\ UNCHANGED <<samePce, enableLock, rhcEnds>>
      /\ enabling' = [p \in Enablers |-> IF enabling[p].at \in {"none", "waits"} THEN enabling[p] ELSE Noticed(enabling[p])]
  BY DEF ConsoleStep
<1>2. enabling' \in [Enablers -> RhcRuns] /\ \A p \in Enablers : enabling'[p].at = enabling[p].at
  BY <1>1, NoticedIs DEF RhcInv, RhcTypeOK
<1>3. RhcTypeOK' /\ fwEdits' > 0
  BY <1>1, <1>2 DEF RhcInv, RhcTypeOK
<1>4. ASSUME NEW p \in Enablers, enableLock' = p PROVE RunHolds(enabling[p])' /\ RunKnows(enabling[p])'
  <2>1. enabling[p].at \notin {"none", "waits"} /\ enabling[p] \in RhcRuns /\ RunHolds(enabling[p])
    BY <1>1, <1>4 DEF RhcInv, RhcTypeOK
  <2>2. PICK n : n = Noticed(enabling[p])
    OBVIOUS
  <2>3. enabling'[p] = n
    BY <1>1, <2>1, <2>2
  <2>4. /\ n.at = enabling[p].at /\ n.tpl = enabling[p].tpl /\ n.edited /\ n.console /\ n.shipped = enabling[p].shipped
        /\ n.done = enabling[p].done /\ n.wrote = enabling[p].wrote /\ n.late = enabling[p].late
    BY <2>1, <2>2, NoticedIs
  <2>5. RunHolds(enabling[p])'
    BY <1>1, <2>1, <2>3, <2>4 DEF RunHolds
  <2>6. RunKnows(enabling[p])'
    BY <2>3, <2>4 DEF RunKnows
  <2> QED BY <2>5, <2>6
<1>5. (\A e \in rhcEnds : EndIsTrue(e))'
  BY <1>1, <1>3 DEF RhcInv, EndIsTrue
<1> QED BY <1>3, <1>4, <1>5 DEF RhcInv

LEMMA ConsoleKeeps == RhcInv /\ RhcConsole => RhcInv'
<1> SUFFICES ASSUME RhcInv, RhcConsole PROVE RhcInv'
  OBVIOUS
<1>1. template \in BOOLEAN /\ fwActive \in Firewalls /\ fwDraft \in Firewalls
  BY DEF RhcInv, RhcTypeOK
<1>2. ASSUME NEW c \in Contents, ConsoleStep(template, fwActive, [fwDraft EXCEPT !.content = c]) PROVE RhcInv'
  <2>1. [fwDraft EXCEPT !.content = c] \in Firewalls
    BY <1>1 DEF Contents, Firewalls
  <2> QED BY <1>1, <1>2, <2>1, ConsoleStepKeeps
<1>3. CASE ConsoleStep(template, fwDraft, fwDraft)
  BY <1>1, <1>3, ConsoleStepKeeps
<1>4. CASE ConsoleStep(template, fwActive, fwActive)
  BY <1>1, <1>4, ConsoleStepKeeps
<1>5. CASE ConsoleStep(template, [fwActive EXCEPT !.scopes = FALSE], [fwDraft EXCEPT !.scopes = FALSE])
  <2> DEFINE f == FALSE
  <2>1. f \in BOOLEAN /\ ConsoleStep(template, [fwActive EXCEPT !.scopes = f], [fwDraft EXCEPT !.scopes = f])
    BY <1>5
  <2> HIDE DEF f
  <2>2. [fwActive EXCEPT !.scopes = f] \in Firewalls /\ [fwDraft EXCEPT !.scopes = f] \in Firewalls
    BY <1>1, <2>1 DEF Firewalls
  <2> QED BY <1>1, <2>1, <2>2, ConsoleStepKeeps
<1>6. CASE ConsoleStep(~template, fwActive, fwDraft)
  <2>1. (~template) \in BOOLEAN
    OBVIOUS
  <2> QED BY <1>1, <1>6, <2>1, ConsoleStepKeeps
<1> QED BY <1>2, <1>3, <1>4, <1>5, <1>6 DEF RhcConsole

LEMMA RhcSwitchKeeps == RhcInv /\ RhcSwitch => RhcInv'
<1> SUFFICES ASSUME RhcInv, RhcSwitch PROVE RhcInv'
  OBVIOUS
<1>1. samePce /\ samePce' = FALSE /\ UNCHANGED <<template, fwActive, fwDraft, enabling, enableLock, fwEdits, rhcEnds>>
  BY DEF RhcSwitch
<1>2. RhcTypeOK'
  BY <1>1 DEF RhcInv, RhcTypeOK
<1>3. \A p \in Enablers : (enableLock = p => RunHolds(enabling[p]) /\ RunKnows(enabling[p]))'
  BY <1>1 DEF RhcInv, RunHolds, RunKnows
<1>4. (\A e \in rhcEnds : EndIsTrue(e))'
  BY <1>1 DEF RhcInv, EndIsTrue
<1> QED BY <1>1, <1>2, <1>3, <1>4 DEF RhcInv

-----------------------------------------------------------------------------
LEMMA RhcBegins == RhcInit => RhcInv
<1> SUFFICES ASSUME RhcInit PROVE RhcInv
  OBVIOUS
<1>1. /\ template \in BOOLEAN /\ fwActive \in [scopes : BOOLEAN, content : {0}] /\ fwDraft = fwActive /\ samePce = TRUE
      /\ enabling = [p \in Enablers |-> NotEnabling] /\ enableLock = "nobody" /\ fwEdits = 0 /\ rhcEnds = {}
  BY DEF RhcInit
<1>2. fwActive \in Firewalls /\ fwActive.content = 0
  BY <1>1 DEF Firewalls
<1>3. \A p \in Enablers : enableLock # p
  BY <1>1, RhcAssumption
<1>4. enabling \in [Enablers -> RhcRuns] /\ \A p \in Enablers : enabling[p].at = "none"
  BY <1>1, NotEnablingIs
<1>5. RhcTypeOK
  BY <1>1, <1>2, <1>3, <1>4 DEF RhcTypeOK
<1> QED BY <1>1, <1>2, <1>3, <1>5 DEF RhcInv

LEMMA RhcStep == RhcInv /\ [RhcNext]_rhcVars => RhcInv'
<1> SUFFICES ASSUME RhcInv, [RhcNext]_rhcVars PROVE RhcInv'
  OBVIOUS
<1>1. CASE UNCHANGED rhcVars
  <2>1. RhcTypeOK'
    BY <1>1 DEF rhcVars, RhcInv, RhcTypeOK
  <2>2. \A p \in Enablers : (enableLock = p => RunHolds(enabling[p]) /\ RunKnows(enabling[p]))'
    BY <1>1 DEF rhcVars, RhcInv, RunHolds, RunKnows
  <2>3. (\A e \in rhcEnds : EndIsTrue(e))'
    BY <1>1 DEF rhcVars, RhcInv, EndIsTrue
  <2> QED BY <1>1, <2>1, <2>2, <2>3 DEF rhcVars, RhcInv
<1>2. ASSUME NEW p \in Enablers, BeginEnable(p) \/ Enable(p) PROVE RhcInv'
  BY <1>2, BeginKeeps, EnterKeeps, ReadTemplateKeeps, ReadActiveKeeps, ReadDraftKeeps, CheckSwitchedKeeps,
     PutTemplateKeeps, PutDraftKeeps, ReadActiveAgainKeeps, ReadDraftAgainKeeps, ProvisionFirewallKeeps,
     ReadFailsKeeps DEF Enable
<1> QED BY <1>1, <1>2, ConsoleKeeps, RhcSwitchKeeps DEF RhcNext

LEMMA EnablingHolds == RhcInv => EnablingIsSound
BY DEF RhcInv, EndIsTrue, EnablingIsSound, OthersEditsStay, RefusalWritesNothing, StepsAreTrue

-----------------------------------------------------------------------------
(* Report schedules.                                                       *)

SaneSchedules == [there : {TRUE}, enabled : BOOLEAN, hour : Hours] \cup {NoSchedule}
TickType == [step : {"idle", "forget", "due", "enqueue"}, at : Nat, schedule : SaneSchedules, last : Int, latest : Int]
SettledDues == enqueued \cup lost

ScheduleTypes ==
    /\ clock \in 0 .. MaxClock /\ schedule \in SaneSchedules /\ lastDue \in NoDue .. clock
    /\ tick \in TickType /\ tick.at <= clock /\ tick.last \in NoDue .. tick.at
    /\ enqueued \subseteq 0 .. clock /\ lost \subseteq 0 .. clock /\ again \in BOOLEAN /\ counting \in Int

\* Every run time that made a report, or was lost, lies at or before last_due, and before the one a tick is about
\* to make a report for.
DuesGoUp ==
    /\ lastDue = NoDue \/ \A u \in SettledDues : u <= lastDue
    /\ tick.step # "idle" => \A u \in SettledDues : u <= tick.at /\ (tick.last = NoDue \/ u <= tick.last)
    /\ tick.step = "enqueue" => /\ tick.last # NoDue /\ tick.last < tick.latest /\ tick.latest <= tick.at
                                /\ lastDue = NoDue \/ lastDue = tick.latest

\* A schedule that counts has a row in report_schedule_state, and the row says when it began to, or names a run time
\* that is settled or being settled.
CountsFromItsRow ==
    /\ counting # NoDue => /\ schedule.there /\ lastDue # NoDue
                           /\ \/ lastDue = counting \/ lastDue \in SettledDues
                              \/ tick.step = "enqueue" /\ lastDue = tick.latest
    /\ tick.step \in {"forget", "due"} /\ (tick.last = NoDue \/ ~tick.schedule.there) => counting = NoDue
    /\ tick.step \in {"due", "enqueue"} => tick.schedule.enabled

ScheduleInv == ScheduleTypes /\ ~again /\ DuesGoUp /\ CountsFromItsRow

-----------------------------------------------------------------------------
LEMMA MaxIsGreatest ==
    ASSUME NEW n \in Nat, NEW S, S \subseteq 0 .. n, S # {}
    PROVE  Max(S) \in S /\ \A y \in S : y <= Max(S)
<1> DEFINE T == {n - x : x \in S}
<1>1. T \subseteq Nat /\ T # {}
  <2>1. ASSUME NEW x \in S PROVE n - x \in Nat
    <3>1. x \in 0 .. n
      OBVIOUS
    <3> QED BY <3>1
  <2> QED BY <2>1
<1>2. PICK t \in T : \A u \in T : t <= u
  BY <1>1, LeastOfNaturals
<1>3. PICK x \in S : t = n - x
  BY <1>2
<1>4. \A y \in S : x >= y
  <2>1. ASSUME NEW y \in S PROVE x >= y
    <3>1. n - x <= n - y /\ x \in Int /\ y \in Int
      BY <1>2, <1>3
    <3> QED BY <3>1
  <2> QED BY <2>1
<1>5. Max(S) \in S /\ \A y \in S : Max(S) >= y
  BY <1>3, <1>4 DEF Max
<1>6. ASSUME NEW y \in S PROVE y <= Max(S)
  <2> DEFINE m == Max(S)
  <2>1. m \in S /\ m >= y
    BY <1>5
  <2> HIDE DEF m
  <2>2. m \in Int /\ y \in Int
    <3>1. \A z \in S : z \in Int
      OBVIOUS
    <3> QED BY <2>1, <3>1
  <2>3. y <= m
    BY <2>1, <2>2
  <2> QED BY <2>3 DEF m
<1> QED BY <1>5, <1>6

LEMMA SaneIs ==
    ASSUME NEW s \in SaneSchedules
    PROVE  /\ s \in [there : BOOLEAN, enabled : BOOLEAN, hour : Hours] /\ s.hour \in {0, 1}
           /\ s.there \in BOOLEAN /\ s.enabled \in BOOLEAN /\ (s.enabled => s.there)
<1>1. CASE s = NoSchedule
  BY <1>1 DEF NoSchedule, Hours
<1>2. CASE s \in [there : {TRUE}, enabled : BOOLEAN, hour : Hours]
  <2>1. s \in [there : BOOLEAN, enabled : BOOLEAN, hour : Hours] /\ s.hour \in {0, 1} /\ s.enabled \in BOOLEAN
    BY <1>2 DEF Hours
  <2>2. s.there = TRUE
    BY <1>2
  <2> QED BY <2>1, <2>2
<1> QED BY <1>1, <1>2 DEF SaneSchedules

\* A run time that is due lies after the last one and has come; so does the latest of them.
LEMMA LatestIsNext ==
    ASSUME ScheduleTypes, tick.last # NoDue, IsDue
    PROVE  LET latest == LatestDue(tick.schedule.hour, tick.last, tick.at)
           IN  latest \in Nat /\ tick.last < latest /\ latest <= tick.at
<1> DEFINE H == tick.schedule.hour
           S == {t \in DueTimes(H) : t > tick.last}
           D == {t \in DueTimes(H) : t > tick.last /\ t <= tick.at}
<1>1. /\ tick.last \in 0 .. MaxClock /\ tick.at \in 0 .. MaxClock /\ MaxClock \in Nat
  <2>1. clock \in 0 .. MaxClock /\ tick.at <= clock /\ tick.at \in Nat /\ tick.last \in NoDue .. tick.at
        /\ MaxClock \in Nat
    BY ReportSchedulesAssumption DEF ScheduleTypes, TickType
  <2> QED BY <2>1 DEF NoDue
<1>2. H \in {0, 1}
  <2>1. tick.schedule \in SaneSchedules
    BY DEF ScheduleTypes, TickType
  <2>2. \A x \in SaneSchedules : x.hour \in {0, 1}
    BY SaneIs
  <2> QED BY <2>1, <2>2
<1> HIDE DEF H
<1>3. DueTimes(H) \subseteq Nat
  BY <1>2, ReportSchedulesAssumption DEF DueTimes
<1>4. S \subseteq Nat /\ S # {}
  <2>1. PICK d \in MatchingDays : 2 * d > tick.last
    BY <1>1, ReportSchedulesAssumption
  <2>2. d \in Nat
    BY ReportSchedulesAssumption
  <2>3. 2 * d + H > tick.last
    BY <1>1, <1>2, <2>1, <2>2
  <2>4. 2 * d + H \in DueTimes(H)
    BY DEF DueTimes
  <2> QED BY <1>3, <2>3, <2>4
<1>5. Min(S) <= tick.at
  BY DEF IsDue, DueTime, H
<1> DEFINE m == Min(S)
<1>6. m \in S /\ m <= tick.at
  BY <1>4, <1>5, MinIsLeast
<1> HIDE DEF m
<1>7. D # {} /\ D \subseteq 0 .. tick.at
  <2>1. m \in D
    BY <1>6
  <2>2. ASSUME NEW t \in D PROVE t \in 0 .. tick.at
    <3>1. t \in Nat /\ t <= tick.at
      BY <1>3
    <3> QED BY <1>1, <3>1
  <2> QED BY <2>1, <2>2
<1> HIDE DEF D
<1> DEFINE latest == Max(D)
<1>8. latest \in D
  <2>1. tick.at \in Nat
    BY <1>1
  <2> QED BY <1>7, <2>1, MaxIsGreatest
<1>9. LatestDue(tick.schedule.hour, tick.last, tick.at) = latest
  BY DEF LatestDue, H, D
<1> HIDE DEF latest
<1>10. latest \in Nat /\ tick.last < latest /\ latest <= tick.at
  <2>1. latest \in Nat /\ latest > tick.last /\ latest <= tick.at
    BY <1>3, <1>8 DEF D
  <2> QED BY <1>1, <2>1
<1> QED BY <1>9, <1>10

LEMMA NoTickIs ==
    /\ NoTick \in TickType /\ NoTick.step = "idle" /\ NoTick.at = 0 /\ NoTick.last = NoDue /\ NoTick.schedule = NoSchedule
BY DEF NoTick, TickType, SaneSchedules, NoDue, Hours

LEMMA ToEnqueueIs ==
    ASSUME NEW latest \in Int, tick \in TickType
    PROVE  LET n == ToEnqueue(latest)
           IN  /\ n \in TickType /\ n.step = "enqueue" /\ n.at = tick.at /\ n.schedule = tick.schedule
               /\ n.last = tick.last /\ n.latest = latest
<1> DEFINE due == [tick EXCEPT !.latest = latest]
           n == [due EXCEPT !.step = "enqueue"]
<1>1. /\ due \in TickType /\ due.latest = latest /\ due.at = tick.at /\ due.schedule = tick.schedule /\ due.last = tick.last
  BY DEF TickType
<1> HIDE DEF due
<1>2. /\ n \in TickType /\ n.step = "enqueue" /\ n.latest = due.latest /\ n.at = due.at /\ n.schedule = due.schedule
      /\ n.last = due.last
  BY <1>1 DEF TickType
<1> USE DEF due
<1>3. ToEnqueue(latest) = n
  BY DEF ToEnqueue
<1> HIDE DEF due, n
<1> QED BY <1>1, <1>2, <1>3

-----------------------------------------------------------------------------
LEMMA ScheduleBegins == ScheduleInit => ScheduleInv
<1> SUFFICES ASSUME ScheduleInit PROVE ScheduleInv
  OBVIOUS
<1>1. clock = 0 /\ schedule = NoSchedule /\ lastDue = NoDue /\ tick = NoTick /\ counting = NoDue /\ enqueued = {}
      /\ again = FALSE /\ lost = {} /\ MaxClock \in Nat
  BY ReportSchedulesAssumption DEF ScheduleInit
<1>2. NoSchedule \in SaneSchedules /\ NoDue \in Int /\ NoDue < 0
  BY DEF SaneSchedules, NoDue
<1>3. ScheduleTypes
  <2>1. again \in BOOLEAN
    BY <1>1
  <2> QED BY <1>1, <1>2, <2>1, NoTickIs DEF ScheduleTypes, NoDue
<1> QED BY <1>1, <1>3, NoTickIs DEF ScheduleInv, DuesGoUp, CountsFromItsRow, SettledDues

LEMMA SaveScheduleKeeps ==
    ASSUME ScheduleInv, NEW s \in SaneSchedules, SaveSchedule(s)
    PROVE  ScheduleInv'
<1>1. /\ schedule' = s /\ ((counting' = counting /\ s.there /\ schedule.there) \/ counting' = NoDue)
      /\ ((lastDue' = lastDue /\ schedule.there) \/ (lastDue' = NoDue /\ counting' = NoDue))
      /\ UNCHANGED <<clock, tick, enqueued, again, lost>>
  <2>1. CASE s.there /\ schedule.there /\ s.hour = schedule.hour
    <3>1. counting' = counting /\ lastDue' = lastDue
      BY <2>1 DEF SaveSchedule
    <3>2. schedule' = s /\ UNCHANGED <<clock, tick, enqueued, again, lost>>
      BY DEF SaveSchedule
    <3>3. s.there /\ schedule.there
      BY <2>1
    <3> QED BY <3>1, <3>2, <3>3
  <2>2. CASE ~(s.there /\ schedule.there /\ s.hour = schedule.hour)
    <3>1. counting' = NoDue /\ lastDue' = (IF schedule.there THEN lastDue ELSE NoDue)
      BY <2>2 DEF SaveSchedule
    <3> QED BY <3>1 DEF SaveSchedule
  <2> QED BY <2>1, <2>2
<1>2. ScheduleTypes'
  BY <1>1 DEF ScheduleInv, ScheduleTypes, NoDue
<1>3. DuesGoUp'
  BY <1>1 DEF ScheduleInv, DuesGoUp, SettledDues
<1>4. CountsFromItsRow'
  BY <1>1 DEF ScheduleInv, CountsFromItsRow, SettledDues
<1> QED BY <1>1, <1>2, <1>3, <1>4 DEF ScheduleInv

LEMMA TickBeginKeeps == ASSUME ScheduleInv, TickBegin PROVE ScheduleInv'
<1> DEFINE n == [step |-> "forget", at |-> clock, schedule |-> schedule, last |-> lastDue, latest |-> NoDue]
<1>1. tick.step = "idle" /\ tick' = n /\ UNCHANGED <<clock, schedule, lastDue, enqueued, again, lost, counting>>
  BY DEF TickBegin, scheduleHistory
<1>2. clock \in Nat /\ lastDue \in Int /\ schedule \in SaneSchedules /\ NoDue \in Int
  BY DEF ScheduleInv, ScheduleTypes, NoDue
<1>3. n \in TickType /\ n.step = "forget" /\ n.at = clock /\ n.schedule = schedule /\ n.last = lastDue
  BY <1>2 DEF TickType
<1> HIDE DEF n
<1>4. ScheduleTypes'
  BY <1>1, <1>2, <1>3 DEF ScheduleInv, ScheduleTypes
<1>5. \A u \in SettledDues : u <= clock
  BY DEF ScheduleInv, ScheduleTypes, SettledDues
<1>6. DuesGoUp'
  BY <1>1, <1>3, <1>5 DEF ScheduleInv, DuesGoUp, SettledDues
<1>7. CountsFromItsRow'
  BY <1>1, <1>3 DEF ScheduleInv, CountsFromItsRow, SettledDues
<1> QED BY <1>1, <1>4, <1>6, <1>7 DEF ScheduleInv

LEMMA TickForgetKeeps == ASSUME ScheduleInv, TickForget PROVE ScheduleInv'
<1> DEFINE next == IF tick.schedule.enabled THEN "due" ELSE "idle"
<1>1. /\ tick.step = "forget" /\ (lastDue' = lastDue \/ (~tick.schedule.there /\ lastDue' = NoDue))
      /\ tick' = [tick EXCEPT !.step = next] /\ UNCHANGED <<clock, schedule, enqueued, again, lost, counting>>
  <2>1. /\ tick.step = "forget" /\ lastDue' = (IF tick.schedule.there THEN lastDue ELSE NoDue)
        /\ tick' = [tick EXCEPT !.step = next] /\ UNCHANGED <<clock, schedule, enqueued, again, lost, counting>>
    BY DEF TickForget, scheduleHistory
  <2>2. CASE tick.schedule.there
    BY <2>1, <2>2, Zenon
  <2>3. CASE ~tick.schedule.there
    <3>1. lastDue' = NoDue
      BY <2>1, <2>3
    <3> QED BY <2>1, <2>3, <3>1, Zenon
  <2> QED BY <2>2, <2>3
<1>2. tick \in TickType /\ next \in {"due", "idle"} /\ (next = "due" => tick.schedule.enabled)
  BY DEF ScheduleInv, ScheduleTypes
<1> HIDE DEF next
<1>3. tick' \in TickType /\ tick'.step = next /\ tick'.at = tick.at /\ tick'.schedule = tick.schedule /\ tick'.last = tick.last
  BY <1>1, <1>2 DEF TickType
<1>4. ScheduleTypes'
  BY <1>1, <1>3 DEF ScheduleInv, ScheduleTypes, NoDue
<1>5. DuesGoUp'
  BY <1>1, <1>2, <1>3 DEF ScheduleInv, DuesGoUp, SettledDues
<1>6. CountsFromItsRow'
  BY <1>1, <1>2, <1>3 DEF ScheduleInv, CountsFromItsRow, SettledDues
<1> QED BY <1>1, <1>4, <1>5, <1>6 DEF ScheduleInv

LEMMA TickFirstKeeps == ASSUME ScheduleInv, TickFirst PROVE ScheduleInv'
<1>1. /\ tick.step = "due" /\ tick.last = NoDue /\ lastDue' = tick.at /\ tick' = NoTick
      /\ ((schedule = tick.schedule /\ counting' = tick.at) \/ counting' = counting)
      /\ UNCHANGED <<clock, schedule, enqueued, again, lost>>
  BY DEF TickFirst
<1>2. tick.at \in 0 .. clock /\ tick.schedule \in SaneSchedules /\ tick.schedule.enabled /\ counting = NoDue /\ clock \in Nat
  BY <1>1 DEF ScheduleInv, ScheduleTypes, CountsFromItsRow, TickType
<1>3. ScheduleTypes'
  BY <1>1, <1>2, NoTickIs DEF ScheduleInv, ScheduleTypes, NoDue
<1>4. DuesGoUp'
  BY <1>1, <1>2, NoTickIs DEF ScheduleInv, DuesGoUp, SettledDues
<1>5. CountsFromItsRow'
  <2>1. tick.at # NoDue
    BY <1>2 DEF NoDue
  <2>2. schedule = tick.schedule => schedule.there
    BY <1>2, SaneIs
  <2> QED BY <1>1, <1>2, <2>1, <2>2, NoTickIs DEF CountsFromItsRow
<1> QED BY <1>1, <1>3, <1>4, <1>5 DEF ScheduleInv

LEMMA TickNotDueKeeps == ASSUME ScheduleInv, TickNotDue PROVE ScheduleInv'
<1>1. tick.step = "due" /\ tick' = NoTick /\ UNCHANGED <<clock, schedule, lastDue, enqueued, again, lost, counting>>
  BY DEF TickNotDue, scheduleHistory
<1>2. ScheduleTypes'
  BY <1>1, NoTickIs DEF ScheduleInv, ScheduleTypes, NoDue
<1>3. DuesGoUp'
  BY <1>1, NoTickIs DEF ScheduleInv, DuesGoUp, SettledDues
<1>4. CountsFromItsRow'
  BY <1>1, NoTickIs DEF ScheduleInv, CountsFromItsRow, SettledDues
<1> QED BY <1>1, <1>2, <1>3, <1>4 DEF ScheduleInv

LEMMA TickDueKeeps == ASSUME ScheduleInv, TickDue PROVE ScheduleInv'
<1> DEFINE latest == LatestDue(tick.schedule.hour, tick.last, tick.at)
           n == ToEnqueue(latest)
<1>1. /\ tick.step = "due" /\ tick.last # NoDue /\ IsDue /\ lastDue' = latest /\ tick' = n
      /\ UNCHANGED <<clock, schedule, enqueued, again, lost, counting>>
  BY DEF TickDue, scheduleHistory
<1>2. latest \in Nat /\ tick.last < latest /\ latest <= tick.at
  BY <1>1, LatestIsNext DEF ScheduleInv
<1> HIDE DEF latest
<1>3. tick \in TickType /\ tick.at <= clock /\ clock \in Nat /\ tick.at \in Nat /\ tick.last \in Int
  BY DEF ScheduleInv, ScheduleTypes, TickType
<1>4. latest \in Int
  BY <1>2
<1>5. /\ n \in TickType /\ n.step = "enqueue" /\ n.at = tick.at /\ n.schedule = tick.schedule /\ n.last = tick.last
      /\ n.latest = latest
  BY <1>3, <1>4, ToEnqueueIs
<1> HIDE DEF n
<1>6. ScheduleTypes'
  BY <1>1, <1>2, <1>3, <1>5 DEF ScheduleInv, ScheduleTypes, NoDue
<1>7. \A u \in SettledDues : u <= tick.at /\ u <= tick.last /\ u <= latest
  <2>1. \A u \in SettledDues : u <= tick.at /\ u <= tick.last /\ u \in Nat
    BY <1>1 DEF ScheduleInv, DuesGoUp, SettledDues, ScheduleTypes
  <2> QED BY <1>2, <1>3, <2>1
<1>8. DuesGoUp'
  BY <1>1, <1>2, <1>5, <1>7 DEF DuesGoUp, SettledDues
<1>9. CountsFromItsRow'
  <2>1. latest # NoDue
    BY <1>2 DEF NoDue
  <2> QED BY <1>1, <1>5, <2>1 DEF ScheduleInv, CountsFromItsRow, SettledDues
<1> QED BY <1>1, <1>6, <1>8, <1>9 DEF ScheduleInv

\* The run time a tick found is settled: its report made, or lost.
LEMMA LatestSettles ==
    ASSUME ScheduleInv, tick.step = "enqueue", tick' = NoTick, UNCHANGED <<clock, schedule, lastDue, counting>>,
           enqueued' \cup lost' = SettledDues \cup {tick.latest}, again' = FALSE,
           enqueued' \subseteq enqueued \cup {tick.latest}, lost' \subseteq lost \cup {tick.latest}
    PROVE  ScheduleInv'
<1>1. /\ tick.last # NoDue /\ tick.last < tick.latest /\ tick.latest <= tick.at /\ tick.at <= clock /\ clock \in Nat
      /\ tick.at \in Nat /\ tick.latest \in Int /\ tick.last \in NoDue .. tick.at
      /\ (lastDue = NoDue \/ lastDue = tick.latest)
  BY DEF ScheduleInv, ScheduleTypes, DuesGoUp, TickType
<1>2. tick.latest \in 0 .. clock
  BY <1>1 DEF NoDue
<1>3. ScheduleTypes'
  <2>1. again' \in BOOLEAN
    OBVIOUS
  <2> QED BY <1>2, <2>1, NoTickIs DEF ScheduleInv, ScheduleTypes, NoDue
<1>4. \A u \in SettledDues : u <= tick.latest
  <2>1. \A u \in SettledDues : u <= tick.last /\ u \in Nat
    BY <1>1 DEF ScheduleInv, DuesGoUp, SettledDues, ScheduleTypes
  <2>2. tick.last \in Int
    BY <1>1 DEF NoDue
  <2> QED BY <1>1, <2>1, <2>2
<1>5. DuesGoUp'
  BY <1>1, <1>4, NoTickIs DEF DuesGoUp, SettledDues
<1>6. CountsFromItsRow'
  BY NoTickIs DEF ScheduleInv, CountsFromItsRow, SettledDues
<1> QED BY <1>3, <1>5, <1>6 DEF ScheduleInv

LEMMA TickEnqueueKeeps == ASSUME ScheduleInv, TickEnqueue PROVE ScheduleInv'
<1>1. /\ tick.step = "enqueue" /\ enqueued' = enqueued \cup {tick.latest} /\ again' = (again \/ tick.latest \in enqueued)
      /\ tick' = NoTick /\ UNCHANGED <<clock, schedule, lastDue, counting, lost>>
  BY DEF TickEnqueue
<1>2. tick.latest \notin enqueued
  <2>1. tick.last # NoDue /\ tick.last < tick.latest /\ \A u \in enqueued : u <= tick.last
    BY <1>1 DEF ScheduleInv, DuesGoUp, SettledDues
  <2>2. tick.last \in Int /\ tick.latest \in Int
    BY DEF ScheduleInv, ScheduleTypes, TickType
  <2> QED BY <2>1, <2>2
<1>3. again' = FALSE
  BY <1>1, <1>2 DEF ScheduleInv
<1> QED BY <1>1, <1>3, LatestSettles DEF SettledDues

LEMMA TickStopsKeeps == ASSUME ScheduleInv, TickStops PROVE ScheduleInv'
<1>1. /\ lost' = (IF tick.step = "enqueue" THEN lost \cup {tick.latest} ELSE lost) /\ tick' = NoTick
      /\ UNCHANGED <<clock, schedule, lastDue, counting, enqueued, again>>
  BY DEF TickStops
<1>2. again = FALSE
  BY DEF ScheduleInv, ScheduleTypes
<1>3. CASE tick.step = "enqueue"
  BY <1>1, <1>2, <1>3, LatestSettles DEF SettledDues
<1>4. CASE tick.step # "enqueue"
  <2>1. ScheduleTypes'
    BY <1>1, <1>4, NoTickIs DEF ScheduleInv, ScheduleTypes, NoDue
  <2>2. DuesGoUp'
    BY <1>1, <1>4, NoTickIs DEF ScheduleInv, DuesGoUp, SettledDues
  <2>3. CountsFromItsRow'
    BY <1>1, <1>4, NoTickIs DEF ScheduleInv, CountsFromItsRow, SettledDues
  <2> QED BY <1>1, <2>1, <2>2, <2>3 DEF ScheduleInv
<1> QED BY <1>3, <1>4

LEMMA ClockTicksKeeps == ASSUME ScheduleInv, ClockTicks PROVE ScheduleInv'
<1>1. clock < MaxClock /\ clock' = clock + 1 /\ UNCHANGED <<schedule, lastDue, tick, enqueued, again, lost, counting>>
  BY DEF ClockTicks, scheduleHistory
<1>2. ScheduleTypes'
  BY <1>1, ReportSchedulesAssumption DEF ScheduleInv, ScheduleTypes, NoDue, TickType
<1>3. DuesGoUp'
  BY <1>1 DEF ScheduleInv, DuesGoUp, SettledDues
<1>4. CountsFromItsRow'
  BY <1>1 DEF ScheduleInv, CountsFromItsRow, SettledDues
<1> QED BY <1>1, <1>2, <1>3, <1>4 DEF ScheduleInv

LEMMA ScheduleStep == ScheduleInv /\ [ScheduleNext]_scheduleVars => ScheduleInv'
<1> SUFFICES ASSUME ScheduleInv, [ScheduleNext]_scheduleVars PROVE ScheduleInv'
  OBVIOUS
<1>1. CASE UNCHANGED scheduleVars
  BY <1>1 DEF scheduleVars, scheduleHistory, ScheduleInv, ScheduleTypes, DuesGoUp, CountsFromItsRow, SettledDues
<1>2. CASE \E s \in [there : {TRUE}, enabled : BOOLEAN, hour : Hours] \cup {NoSchedule} : SaveSchedule(s)
  BY <1>2, SaveScheduleKeeps DEF SaneSchedules
<1> QED BY <1>1, <1>2, TickBeginKeeps, TickForgetKeeps, TickFirstKeeps, TickNotDueKeeps, TickDueKeeps, TickEnqueueKeeps,
           TickStopsKeeps, ClockTicksKeeps DEF ScheduleNext, TickStep

LEMMA SchedulesHold == ScheduleInv => SchedulesAreKept
<1> SUFFICES ASSUME ScheduleInv PROVE SchedulesAreKept
  OBVIOUS
<1>1. ScheduleTypeOK
  <2>1. schedule \in [there : BOOLEAN, enabled : BOOLEAN, hour : Hours]
    BY SaneIs DEF ScheduleInv, ScheduleTypes
  <2> QED BY <2>1 DEF ScheduleInv, ScheduleTypes, ScheduleTypeOK, TickType
<1>2. MissedRunsAreMadeUp
  <2> SUFFICES ASSUME tick.step = "idle", counting # NoDue, lastDue # NoDue,
                      NEW t \in DueTimes(schedule.hour), counting < t, t <= lastDue
               PROVE  \E u \in enqueued \cup lost : u >= t
    BY DEF MissedRunsAreMadeUp
  <2>1. lastDue = counting \/ lastDue \in SettledDues
    BY DEF ScheduleInv, CountsFromItsRow
  <2>2. t \in Int /\ lastDue \in Int
    <3>1. schedule.hour \in {0, 1}
      BY SaneIs DEF ScheduleInv, ScheduleTypes
    <3>2. t \in Int
      BY <3>1, ReportSchedulesAssumption DEF DueTimes
    <3> QED BY <3>2 DEF ScheduleInv, ScheduleTypes, NoDue
  <2>3. lastDue # counting
    BY <2>2
  <2> QED BY <2>1, <2>2, <2>3 DEF SettledDues
<1> QED BY <1>1, <1>2 DEF SchedulesAreKept, NoRunTwice, ScheduleInv

-----------------------------------------------------------------------------
(* The report queue.                                                       *)

ReportRow == [status : {"none", "queued", "running", "done", "failed"}, serial : 0 .. MaxReports, target : 0 .. 2,
              email : {"none", "sending", "sent", "failed", "skipped"}]
ReportFiles == [serial : 0 .. MaxReports, shows : SUBSET Pces]
MakingType == [step : {"idle", "claimed", "build", "write", "done", "mail", "fail"}, id : 0 .. NumReportIds,
               serial : 0 .. MaxReports, target : 0 .. 2, generation : Nat, reads : Nat, read : SUBSET Pces]
RemoverType == [step : {"idle", "delete", "files"}, ids : SUBSET ReportIds]

ReportTypes ==
    /\ reports \in [ReportIds -> ReportRow] /\ files \in [ReportIds -> ReportFiles]
    /\ target \in Pces /\ bound \in Pces /\ clearing \in Nat /\ generation \in Nat
    /\ making \in MakingType /\ making.generation <= generation /\ recovered \in BOOLEAN
    /\ remover \in [Removers -> RemoverType] /\ asked \in 0 .. MaxReports /\ stops \in Nat
    /\ overlapped \in BOOLEAN /\ mails \in [Serials -> Nat]

\* A row has a serial of its own; the running one is the job's, or an earlier process left it.
AtRow == {"claimed", "build", "write", "done", "fail"}
RowsAreNumbered ==
    /\ \A i \in ReportIds : /\ reports[i].serial <= asked
                            /\ reports[i] = NoReport <=> reports[i].serial = 0
                            /\ reports[i] = NoReport <=> reports[i].status = "none"
                            /\ reports[i].status = "running" =>
                                 (making.id = i /\ making.step \in AtRow) \/ (~recovered /\ stops > 0)
    /\ \A i, j \in ReportIds : reports[i].serial = reports[j].serial /\ reports[i].serial # 0 => i = j

\* Until it is done, the report that is made is the row's, which nobody removes.
JobHasItsRow ==
    /\ making.step # "idle" => making.id \in ReportIds /\ making.serial \in 1 .. asked /\ recovered
    /\ making.step \in AtRow => /\ reports[making.id].status = "running" /\ reports[making.id].serial = making.serial
                                /\ reports[making.id].target = making.target

\* The flow database is the one the settings name, or a clearing is outstanding, as long as there was one at a time.
ClearedInTime == ~overlapped => bound = target \/ clearing > 0
\* What the report read is of its own PCE as long as the flow database is the one it began with.
ReadsFit ==
    ~overlapped =>
      /\ making.step = "build" /\ generation = making.generation =>
           making.read \subseteq {making.target} /\ (bound = making.target \/ (clearing > 0 /\ target = making.target))
      /\ making.step = "claimed" => making.read = {}
      /\ making.step = "write" => making.read \subseteq {making.target}
      /\ making.step = "done" => files[making.id].shows \subseteq {making.target}
WrittenIsThere == making.step = "done" => files[making.id].serial = making.serial \/ making.serial \in reused

\* A directory is removed under a row only if the row has an id that was given again.
RemovedRowIsGone ==
    \A r \in Removers : /\ remover[r].step = "idle" => remover[r].ids = {}
                        /\ remover[r].step = "files" => \A i \in remover[r].ids : reports[i] = NoReport \/ reports[i].serial \in reused
FilesAreKept(i) ==
    \/ reports[i].status = "done" \/ (\E r \in Removers : remover[r].step = "files" /\ i \in remover[r].ids)
    \/ stops > 0 /\ (reports[i].status \in {"queued", "running"} \/ i \in orphaned)
    \/ reports[i].serial \in reused
EveryFileIsKept == \A i \in ReportIds : files[i] # NoFiles => FilesAreKept(i) \/ (making.step \in AtRow /\ making.id = i)

\* A mail that went out was the last of its report.
MailIsLast ==
    /\ \A s \in Serials : \/ mails[s] = 0
                          \/ mails[s] = 1 /\ (making.step # "idle" => making.serial # s)
                             /\ \A i \in ReportIds : reports[i].serial = s => reports[i].status \notin {"queued", "running"}
    /\ \A s \in Serials : s > asked => mails[s] = 0
    /\ making.step = "mail" => \A i \in ReportIds : reports[i].serial = making.serial => reports[i].status \notin {"queued", "running"}

ReportInv ==
    /\ ReportTypes /\ RowsAreNumbered /\ JobHasItsRow /\ ClearedInTime /\ ReadsFit /\ WrittenIsThere /\ RemovedRowIsGone
    /\ EveryFileIsKept /\ MailIsLast /\ DoneHasFiles /\ ReportShowsItsPce

-----------------------------------------------------------------------------
LEMMA NoReportIs ==
    /\ NoReport \in ReportRow /\ NoReport.status = "none" /\ NoReport.serial = 0 /\ NoReport.target = 0
    /\ NoFiles \in ReportFiles /\ NoFiles.serial = 0 /\ NoFiles.shows = {}
    /\ NotMaking \in MakingType /\ NotMaking.step = "idle" /\ NotMaking.generation = 0
    /\ NotRemoving \in RemoverType /\ NotRemoving.step = "idle" /\ NotRemoving.ids = {}
BY ReportQueueAssumption DEF NoReport, NoFiles, NotMaking, NotRemoving, ReportRow, ReportFiles, MakingType, RemoverType

LEMMA RowWithIs ==
    ASSUME NEW x \in ReportRow, NEW status \in {"none", "queued", "running", "done", "failed"},
           NEW email \in {"none", "sending", "sent", "failed", "skipped"}
    PROVE  /\ RowWith(x, status, email) \in ReportRow /\ RowWith(x, status, email).status = status
           /\ RowWith(x, status, email).serial = x.serial /\ RowWith(x, status, email).target = x.target
BY DEF RowWith, ReportRow

\* The fields of the rows, the directories, the job and the removers.
LEMMA ReportFields ==
    ASSUME ReportTypes
    PROVE  /\ \A i \in ReportIds : /\ reports[i] \in ReportRow /\ reports[i].serial \in 0 .. MaxReports
                                   /\ reports[i].status \in {"none", "queued", "running", "done", "failed"}
                                   /\ reports[i].target \in 0 .. 2
                                   /\ reports[i].email \in {"none", "sending", "sent", "failed", "skipped"}
                                   /\ files[i] \in ReportFiles /\ files[i].shows \subseteq Pces
           /\ making.step \in {"idle", "claimed", "build", "write", "done", "mail", "fail"}
           /\ making.generation \in Nat /\ making.reads \in Nat /\ making.read \subseteq Pces /\ making.serial \in 0 .. MaxReports
           /\ making.target \in 0 .. 2
           /\ \A r \in Removers : remover[r] \in RemoverType /\ remover[r].ids \subseteq ReportIds
                                  /\ remover[r].step \in {"idle", "delete", "files"}
           /\ MaxReports \in Nat /\ NumReportIds \in Nat
<1>1. MaxReports \in Nat /\ NumReportIds \in Nat
  BY ReportQueueAssumption
<1>2. ASSUME NEW i \in ReportIds
      PROVE  /\ reports[i] \in ReportRow /\ reports[i].serial \in 0 .. MaxReports
             /\ reports[i].status \in {"none", "queued", "running", "done", "failed"}
             /\ reports[i].target \in 0 .. 2
             /\ reports[i].email \in {"none", "sending", "sent", "failed", "skipped"}
             /\ files[i] \in ReportFiles /\ files[i].shows \subseteq Pces
  <2>1. reports[i] \in ReportRow /\ files[i] \in ReportFiles
    BY DEF ReportTypes
  <2>2. /\ reports[i].serial \in 0 .. MaxReports
        /\ reports[i].status \in {"none", "queued", "running", "done", "failed"}
        /\ reports[i].target \in 0 .. 2
        /\ reports[i].email \in {"none", "sending", "sent", "failed", "skipped"}
    BY <2>1 DEF ReportRow
  <2>3. files[i].shows \subseteq Pces
    BY <2>1 DEF ReportFiles
  <2> QED BY <2>1, <2>2, <2>3
<1>3. /\ making.step \in {"idle", "claimed", "build", "write", "done", "mail", "fail"}
      /\ making.generation \in Nat /\ making.reads \in Nat /\ making.read \subseteq Pces /\ making.serial \in 0 .. MaxReports
      /\ making.target \in 0 .. 2
  BY DEF ReportTypes, MakingType
<1>4. ASSUME NEW r \in Removers
      PROVE  remover[r] \in RemoverType /\ remover[r].ids \subseteq ReportIds /\ remover[r].step \in {"idle", "delete", "files"}
  <2>1. remover[r] \in RemoverType
    BY DEF ReportTypes
  <2> QED BY <2>1 DEF RemoverType
<1> QED BY <1>1, <1>2, <1>3, <1>4

\* What concerns the rows, the directories and the removers, when only the job's own notes or the PCE change.
RowsStand ==
    /\ UNCHANGED <<reports, files, remover, recovered, stops, asked, overlapped, reused, orphaned, mails>>
    /\ making'.id = making.id /\ making'.serial = making.serial /\ making'.target = making.target
    /\ (making.step \in AtRow) <=> (making'.step \in AtRow)
    /\ (making.step = "idle") <=> (making'.step = "idle")
    /\ (making.step = "mail") <=> (making'.step = "mail")
    /\ making'.step = "done" => making.step = "done"

LEMMA RowsStandKeeps ==
    ASSUME ReportInv, RowsStand
    PROVE  /\ RowsAreNumbered' /\ JobHasItsRow' /\ RemovedRowIsGone' /\ EveryFileIsKept' /\ MailIsLast' /\ DoneHasFiles'
           /\ ReportShowsItsPce' /\ WrittenIsThere'
<1>1. RowsAreNumbered'
  BY DEF ReportInv, RowsStand, RowsAreNumbered
<1>2. JobHasItsRow'
  BY DEF ReportInv, RowsStand, JobHasItsRow
<1>3. RemovedRowIsGone' /\ DoneHasFiles' /\ ReportShowsItsPce' /\ WrittenIsThere'
  BY DEF ReportInv, RowsStand, RemovedRowIsGone, DoneHasFiles, ReportShowsItsPce, WrittenIsThere
<1>4. EveryFileIsKept'
  BY DEF ReportInv, RowsStand, EveryFileIsKept, FilesAreKept
<1>5. MailIsLast'
  BY DEF ReportInv, RowsStand, MailIsLast
<1> QED BY <1>1, <1>2, <1>3, <1>4, <1>5

-----------------------------------------------------------------------------
LEMMA StartBuildKeeps == ASSUME ReportInv, StartBuild PROVE ReportInv'
<1> DEFINE next == IF target = making.target THEN "build" ELSE "fail"
<1>1. making.step = "claimed" /\ making' = [making EXCEPT !.step = next]
      /\ UNCHANGED <<reports, files, target, bound, clearing, generation, recovered, remover, stops, asked, overlapped,
                     reused, orphaned, mails>>
  BY DEF StartBuild, pceState, reportHistory
<1>2. next \in {"build", "fail"} /\ (next = "build" => target = making.target)
  OBVIOUS
<1> HIDE DEF next
<1>3. /\ making' \in MakingType /\ making'.step = next /\ making'.id = making.id /\ making'.serial = making.serial
      /\ making'.target = making.target /\ making'.generation = making.generation /\ making'.read = making.read
  BY <1>1, <1>2 DEF ReportInv, ReportTypes, MakingType
<1>4. RowsStand
  BY <1>1, <1>2, <1>3 DEF RowsStand, AtRow
<1>5. ReportTypes'
  BY <1>1, <1>3 DEF ReportInv, ReportTypes
<1>6. ClearedInTime'
  BY <1>1 DEF ReportInv, ClearedInTime
<1>7. ReadsFit'
  <2>1. ~overlapped => making.read = {} /\ (bound = target \/ clearing > 0)
    BY <1>1 DEF ReportInv, ReadsFit, ClearedInTime
  <2> QED BY <1>1, <1>2, <1>3, <2>1 DEF ReadsFit
<1> QED BY <1>4, <1>5, <1>6, <1>7, RowsStandKeeps DEF ReportInv

LEMMA BuildReadKeeps == ASSUME ReportInv, BuildRead PROVE ReportInv'
<1>1. making.step = "build"
      /\ UNCHANGED <<reports, files, target, bound, clearing, generation, recovered, remover, stops, asked, overlapped,
                     reused, orphaned, mails>>
  BY DEF BuildRead, pceState, reportHistory
<1>2. making \in MakingType /\ bound \in Pces
  BY DEF ReportInv, ReportTypes
<1>3. CASE bound = target
  <2> DEFINE x == [making EXCEPT !.read = making.read \cup {bound}]
             n == [x EXCEPT !.reads = making.reads + 1]
  <2>1. making' = n
    <3>1. x.reads = making.reads
      BY <1>2 DEF MakingType
    <3> QED BY <1>3, <3>1 DEF BuildRead
  <2>2. /\ x \in MakingType /\ x.step = making.step /\ x.id = making.id /\ x.serial = making.serial
        /\ x.target = making.target /\ x.generation = making.generation /\ x.read = making.read \cup {bound}
    BY <1>2 DEF MakingType
  <2>3. making.reads + 1 \in Nat
    BY <1>2 DEF MakingType
  <2> HIDE DEF x
  <2>4. /\ n \in MakingType /\ n.step = x.step /\ n.id = x.id /\ n.serial = x.serial
        /\ n.target = x.target /\ n.generation = x.generation /\ n.read = x.read
    BY <2>2, <2>3 DEF MakingType
  <2> HIDE DEF n
  <2>5. RowsStand
    BY <1>1, <2>1, <2>2, <2>4 DEF RowsStand
  <2>6. ReportTypes'
    BY <1>1, <2>1, <2>2, <2>4 DEF ReportInv, ReportTypes
  <2>7. ClearedInTime'
    BY <1>1 DEF ReportInv, ClearedInTime
  <2>8. ReadsFit'
    <3>1. ~overlapped /\ generation = making.generation => making.read \cup {bound} \subseteq {making.target}
      BY <1>1, <1>3 DEF ReportInv, ReadsFit
    <3> QED BY <1>1, <2>1, <2>2, <2>4, <3>1 DEF ReportInv, ReadsFit
  <2> QED BY <2>5, <2>6, <2>7, <2>8, RowsStandKeeps DEF ReportInv
<1>4. CASE bound # target
  <2>1. making' = [making EXCEPT !.step = "fail"]
    BY <1>4 DEF BuildRead
  <2>2. /\ making' \in MakingType /\ making'.step = "fail" /\ making'.id = making.id /\ making'.serial = making.serial
        /\ making'.target = making.target /\ making'.generation = making.generation
    BY <1>2, <2>1 DEF MakingType
  <2>3. RowsStand
    BY <1>1, <2>2 DEF RowsStand, AtRow
  <2>4. ReportTypes'
    BY <1>1, <2>2 DEF ReportInv, ReportTypes
  <2>5. ClearedInTime' /\ ReadsFit'
    BY <1>1, <2>2 DEF ReportInv, ClearedInTime, ReadsFit
  <2> QED BY <2>3, <2>4, <2>5, RowsStandKeeps DEF ReportInv
<1> QED BY <1>3, <1>4

LEMMA BuildFailsKeeps == ASSUME ReportInv, BuildFails PROVE ReportInv'
<1>1. making.step \in {"build", "write"} /\ making' = [making EXCEPT !.step = "fail"]
      /\ UNCHANGED <<reports, files, target, bound, clearing, generation, recovered, remover, stops, asked, overlapped,
                     reused, orphaned, mails>>
  BY DEF BuildFails, pceState, reportHistory
<1>2. /\ making' \in MakingType /\ making'.step = "fail" /\ making'.id = making.id /\ making'.serial = making.serial
      /\ making'.target = making.target /\ making'.generation = making.generation
  BY <1>1 DEF ReportInv, ReportTypes, MakingType
<1>3. RowsStand
  BY <1>1, <1>2 DEF RowsStand, AtRow
<1>4. ReportTypes'
  BY <1>1, <1>2 DEF ReportInv, ReportTypes
<1>5. ClearedInTime' /\ ReadsFit'
  BY <1>1, <1>2 DEF ReportInv, ClearedInTime, ReadsFit
<1> QED BY <1>3, <1>4, <1>5, RowsStandKeeps DEF ReportInv

\* The reads of a report lie between two looks at the generation, so they were of one flow database.
LEMMA ReadsAreOfOnePce ==
    ASSUME ReportInv, making.step = "build", making.reads = NumReads, generation = making.generation, ~overlapped
    PROVE  making.read \subseteq {making.target}
BY DEF ReportInv, ReadsFit

LEMMA BuildEndsKeeps == ASSUME ReportInv, BuildEnds PROVE ReportInv'
<1> DEFINE next == IF SameDatabase THEN "write" ELSE "fail"
<1>1. making.step = "build" /\ making.reads = NumReads /\ making' = [making EXCEPT !.step = next]
      /\ UNCHANGED <<reports, files, target, bound, clearing, generation, recovered, remover, stops, asked, overlapped,
                     reused, orphaned, mails>>
  BY DEF BuildEnds, pceState, reportHistory
<1>2. next \in {"write", "fail"} /\ (next = "write" => generation = making.generation)
  BY DEF SameDatabase
<1> HIDE DEF next
<1>3. /\ making' \in MakingType /\ making'.step = next /\ making'.id = making.id /\ making'.serial = making.serial
      /\ making'.target = making.target /\ making'.generation = making.generation /\ making'.read = making.read
  BY <1>1, <1>2 DEF ReportInv, ReportTypes, MakingType
<1>4. RowsStand
  BY <1>1, <1>2, <1>3 DEF RowsStand, AtRow
<1>5. ReportTypes'
  BY <1>1, <1>3 DEF ReportInv, ReportTypes
<1>6. ClearedInTime'
  BY <1>1 DEF ReportInv, ClearedInTime
<1>7. ReadsFit'
  BY <1>1, <1>2, <1>3, ReadsAreOfOnePce DEF ReadsFit
<1> QED BY <1>4, <1>5, <1>6, <1>7, RowsStandKeeps DEF ReportInv

LEMMA SwitchSettingsKeeps == ASSUME ReportInv, SwitchSettings PROVE ReportInv'
<1>1. target' = 3 - target /\ clearing' = clearing + 1 /\ overlapped' = (overlapped \/ clearing > 0)
      /\ UNCHANGED <<reports, files, bound, generation, making, recovered, remover, stops, asked, reused, orphaned, mails>>
  BY DEF SwitchSettings
<1>2. target' \in Pces /\ clearing' \in Nat /\ clearing' > 0 /\ overlapped' \in BOOLEAN
  BY <1>1 DEF ReportInv, ReportTypes, Pces
<1>3. ReportTypes'
  BY <1>1, <1>2 DEF ReportInv, ReportTypes
<1>4. ~overlapped' => ~overlapped /\ ~(clearing > 0)
  BY <1>1
<1>5. ClearedInTime' /\ ReadsFit'
  BY <1>1, <1>2, <1>4 DEF ReportInv, ClearedInTime, ReadsFit
<1>6. ReportShowsItsPce'
  BY <1>1, <1>4 DEF ReportInv, ReportShowsItsPce
<1>7. RowsAreNumbered' /\ JobHasItsRow' /\ RemovedRowIsGone' /\ DoneHasFiles' /\ WrittenIsThere'
  BY <1>1 DEF ReportInv, RowsAreNumbered, JobHasItsRow, RemovedRowIsGone, DoneHasFiles, WrittenIsThere
<1>8. EveryFileIsKept' /\ MailIsLast'
  BY <1>1 DEF ReportInv, EveryFileIsKept, FilesAreKept, MailIsLast
<1> QED BY <1>3, <1>5, <1>6, <1>7, <1>8 DEF ReportInv

LEMMA SwitchDatabaseKeeps == ASSUME ReportInv, SwitchDatabase PROVE ReportInv'
<1>1. clearing > 0 /\ clearing' = clearing - 1 /\ bound' = target /\ generation' = generation + 1
      /\ UNCHANGED <<reports, files, target, making, recovered, remover, stops, asked, overlapped, reused, orphaned, mails>>
  BY DEF SwitchDatabase, reportHistory
<1>2. clearing' \in Nat /\ generation' \in Nat /\ making.generation \in Nat /\ generation \in Nat
      /\ making.generation <= generation /\ generation' # making.generation /\ making.generation <= generation'
  <2>1. clearing \in Nat /\ generation \in Nat /\ making.generation \in Nat /\ making.generation <= generation
    BY ReportFields DEF ReportInv, ReportTypes
  <2> QED BY <1>1, <2>1
<1>3. ReportTypes'
  BY <1>1, <1>2 DEF ReportInv, ReportTypes
<1>4. RowsStand
  BY <1>1 DEF RowsStand
<1>5. ClearedInTime'
  BY <1>1 DEF ClearedInTime
<1>6. ReadsFit'
  BY <1>1, <1>2 DEF ReportInv, ReadsFit
<1> QED BY <1>3, <1>4, <1>5, <1>6, RowsStandKeeps DEF ReportInv

-----------------------------------------------------------------------------
LEMMA ChooseToRemoveKeeps ==
    ASSUME ReportInv, NEW r \in Removers, NEW these \in SUBSET ReportIds, ChooseToRemove(r, these)
    PROVE  ReportInv'
<1> DEFINE n == [step |-> "delete", ids |-> these]
<1>1. /\ remover[r].step = "idle" /\ remover' = [remover EXCEPT ![r] = n]
      /\ UNCHANGED <<reports, files, target, bound, clearing, generation, making, recovered, stops, asked, overlapped, reused,
                     orphaned, mails>>
  BY DEF ChooseToRemove, pceState, reportHistory
<1>2. n \in RemoverType /\ n.step = "delete"
  BY DEF RemoverType
<1> HIDE DEF n
<1>3. remover' \in [Removers -> RemoverType] /\ remover'[r] = n /\ \A q \in Removers : q # r => remover'[q] = remover[q]
  BY <1>1, <1>2 DEF ReportInv, ReportTypes
<1>4. ReportTypes'
  BY <1>1, <1>3 DEF ReportInv, ReportTypes
<1>5. RowsAreNumbered' /\ JobHasItsRow' /\ DoneHasFiles' /\ WrittenIsThere' /\ ClearedInTime' /\ ReadsFit'
      /\ ReportShowsItsPce'
  BY <1>1 DEF ReportInv, RowsAreNumbered, JobHasItsRow, DoneHasFiles, WrittenIsThere, ClearedInTime, ReadsFit,
              ReportShowsItsPce
<1>6. RemovedRowIsGone'
  BY <1>1, <1>2, <1>3 DEF ReportInv, RemovedRowIsGone
<1>7. \A i \in ReportIds : FilesAreKept(i) => FilesAreKept(i)'
  BY <1>1, <1>3 DEF FilesAreKept
<1>8. EveryFileIsKept'
  BY <1>1, <1>7 DEF ReportInv, EveryFileIsKept
<1>9. MailIsLast'
  BY <1>1 DEF ReportInv, MailIsLast
<1> QED BY <1>4, <1>5, <1>6, <1>8, <1>9 DEF ReportInv

LEMMA DeleteRowsKeeps == ASSUME ReportInv, NEW r \in Removers, DeleteRows(r) PROVE ReportInv'
<1> DEFINE gone == Deletable(remover[r].ids)
           n == IF gone = {} THEN NotRemoving ELSE [step |-> "files", ids |-> gone]
<1>1. /\ remover[r].step = "delete" /\ remover' = [remover EXCEPT ![r] = n]
      /\ reports' = [i \in ReportIds |-> IF i \in gone THEN NoReport ELSE reports[i]]
      /\ UNCHANGED <<files, target, bound, clearing, generation, making, recovered, stops, asked, overlapped, reused,
                     orphaned, mails>>
  BY DEF DeleteRows, pceState, reportHistory
<1>2. gone \in SUBSET ReportIds /\ \A i \in gone : reports[i].status # "running"
  BY ReportFields DEF Deletable, ReportInv
<1> HIDE DEF gone
<1>3. n \in RemoverType /\ ((n.step = "idle" /\ n.ids = {} /\ gone = {}) \/ (n.step = "files" /\ n.ids = gone))
  <2>1. CASE gone = {}
    BY <2>1, NoReportIs
  <2>2. CASE gone # {}
    <3>1. n = [step |-> "files", ids |-> gone]
      BY <2>2
    <3> HIDE DEF n
    <3> QED BY <1>2, <3>1 DEF RemoverType
  <2> QED BY <2>1, <2>2
<1> HIDE DEF n
<1>4. remover' \in [Removers -> RemoverType] /\ remover'[r] = n /\ \A q \in Removers : q # r => remover'[q] = remover[q]
  BY <1>1, <1>3 DEF ReportInv, ReportTypes
<1>5. /\ reports' \in [ReportIds -> ReportRow]
      /\ \A i \in ReportIds : (i \notin gone /\ reports'[i] = reports[i]) \/ (i \in gone /\ reports'[i] = NoReport)
  BY <1>1, NoReportIs DEF ReportInv, ReportTypes
<1>6. ReportTypes'
  BY <1>1, <1>4, <1>5 DEF ReportInv, ReportTypes
<1>7. RowsAreNumbered'
  <2>1. asked \in Nat
    BY ReportFields DEF ReportInv, ReportTypes
  <2> QED BY <1>1, <1>5, <2>1, NoReportIs DEF ReportInv, RowsAreNumbered
<1>8. JobHasItsRow'
  BY <1>1, <1>2, <1>5 DEF ReportInv, JobHasItsRow, AtRow
<1>9. WrittenIsThere' /\ ClearedInTime' /\ ReadsFit'
  BY <1>1 DEF ReportInv, WrittenIsThere, ClearedInTime, ReadsFit
<1>10. DoneHasFiles' /\ ReportShowsItsPce'
  BY <1>1, <1>5, NoReportIs DEF ReportInv, DoneHasFiles, ReportShowsItsPce
<1>11. RemovedRowIsGone'
  <2>1. ASSUME NEW q \in Removers, remover'[q].step = "files", NEW i \in remover'[q].ids
        PROVE  reports'[i] = NoReport \/ reports'[i].serial \in reused
    <3>1. i \in ReportIds
      BY <1>2, <1>3, <1>4, <2>1, ReportFields DEF ReportInv
    <3>2. CASE q = r
      BY <1>3, <1>4, <1>5, <2>1, <3>1, <3>2
    <3>3. CASE q # r
      <4>1. reports[i] = NoReport \/ reports[i].serial \in reused
        BY <1>4, <2>1, <3>3 DEF ReportInv, RemovedRowIsGone
      <4> QED BY <1>5, <3>1, <4>1
    <3> QED BY <3>2, <3>3
  <2>2. \A q \in Removers : remover'[q].step = "idle" => remover'[q].ids = {}
    BY <1>3, <1>4 DEF ReportInv, RemovedRowIsGone
  <2> QED BY <1>1, <2>1, <2>2 DEF RemovedRowIsGone
<1>12. ASSUME NEW i \in ReportIds, FilesAreKept(i) \/ i \in gone PROVE FilesAreKept(i)'
  <2>1. CASE i \in gone
    BY <1>3, <1>4, <2>1 DEF FilesAreKept
  <2>2. CASE i \notin gone
    BY <1>1, <1>4, <1>5, <1>12, <2>2 DEF FilesAreKept
  <2> QED BY <2>1, <2>2
<1>13. EveryFileIsKept'
  BY <1>1, <1>12 DEF ReportInv, EveryFileIsKept
<1>14. MailIsLast'
  BY <1>1, <1>5, NoReportIs DEF ReportInv, MailIsLast
<1> QED BY <1>6, <1>7, <1>8, <1>9, <1>10, <1>11, <1>13, <1>14 DEF ReportInv

LEMMA RemoveFilesKeeps == ASSUME ReportInv, NEW r \in Removers, RemoveFiles(r) PROVE ReportInv'
<1> DEFINE these == remover[r].ids
<1>1. /\ remover[r].step = "files" /\ remover' = [remover EXCEPT ![r] = NotRemoving]
      /\ files' = [i \in ReportIds |-> IF i \in these THEN NoFiles ELSE files[i]]
      /\ UNCHANGED <<reports, target, bound, clearing, generation, making, recovered, stops, asked, overlapped, reused,
                     orphaned, mails>>
  BY DEF RemoveFiles, pceState, reportHistory
<1>2. \A i \in these : reports[i] = NoReport \/ reports[i].serial \in reused
  BY <1>1 DEF ReportInv, RemovedRowIsGone
<1>3. remover' \in [Removers -> RemoverType] /\ remover'[r] = NotRemoving
      /\ \A q \in Removers : q # r => remover'[q] = remover[q]
  BY <1>1, NoReportIs DEF ReportInv, ReportTypes
<1>4. /\ files' \in [ReportIds -> ReportFiles]
      /\ \A i \in ReportIds : (i \notin these /\ files'[i] = files[i]) \/ (i \in these /\ files'[i] = NoFiles)
  BY <1>1, NoReportIs DEF ReportInv, ReportTypes
<1>5. ReportTypes'
  BY <1>1, <1>3, <1>4 DEF ReportInv, ReportTypes
<1>6. RowsAreNumbered' /\ JobHasItsRow' /\ ClearedInTime' /\ MailIsLast'
  BY <1>1 DEF ReportInv, RowsAreNumbered, JobHasItsRow, ClearedInTime, MailIsLast
<1>7. making.step \in AtRow => making.id \in ReportIds /\ reports[making.id] # NoReport /\ reports[making.id].serial = making.serial
  BY NoReportIs DEF ReportInv, JobHasItsRow, AtRow
<1>8. WrittenIsThere'
  BY <1>1, <1>2, <1>4, <1>7 DEF ReportInv, WrittenIsThere, AtRow
<1>9. ReadsFit'
  BY <1>1, <1>4, <1>7, NoReportIs DEF ReportInv, ReadsFit, AtRow
<1>10. DoneHasFiles'
  BY <1>1, <1>2, <1>4, NoReportIs DEF ReportInv, DoneHasFiles
<1>11. ReportShowsItsPce'
  BY <1>1, <1>4, NoReportIs DEF ReportInv, ReportShowsItsPce
<1>12. RemovedRowIsGone'
  BY <1>1, <1>3, NoReportIs DEF ReportInv, RemovedRowIsGone
<1>13. ASSUME NEW i \in ReportIds, FilesAreKept(i), i \notin these PROVE FilesAreKept(i)'
  BY <1>1, <1>3, <1>13 DEF FilesAreKept
<1>14. EveryFileIsKept'
  BY <1>1, <1>4, <1>13 DEF ReportInv, EveryFileIsKept
<1> QED BY <1>5, <1>6, <1>8, <1>9, <1>10, <1>11, <1>12, <1>14 DEF ReportInv

-----------------------------------------------------------------------------
\* The id that is given next is free.
LEMMA NextIdIsFree ==
    ASSUME ReportInv, NextId \in ReportIds
    PROVE  reports[NextId] = NoReport
<1>1. CASE Present = {}
  BY <1>1 DEF Present
<1>2. CASE Present # {}
  <2> DEFINE m == Max(Present)
  <2>1. NumReportIds \in Nat /\ Present \subseteq 0 .. NumReportIds
    BY ReportQueueAssumption DEF Present, ReportIds
  <2>2. m \in Present /\ \A y \in Present : y <= m
    BY <1>2, <2>1, MaxIsGreatest
  <2>3. NextId = m + 1
    BY <1>2 DEF NextId
  <2> HIDE DEF m
  <2>4. m \in Int /\ ~(m + 1 <= m)
    BY <2>1, <2>2
  <2>5. m + 1 \notin Present
    BY <2>2, <2>4
  <2> QED BY <2>3, <2>5 DEF Present
<1> QED BY <1>1, <1>2

LEMMA EnqueueKeeps == ASSUME ReportInv, NEW refused \in BOOLEAN, Enqueue(refused) PROVE ReportInv'
<1>0. PICK k : k = NextId
  OBVIOUS
<1> DEFINE x == [status |-> IF refused THEN "failed" ELSE "queued", serial |-> asked + 1, target |-> target, email |-> "none"]
           more == IF files[k] # NoFiles \/ (making.id = k) \/ (\E r \in Removers : k \in remover[r].ids)
                   THEN reused \cup {asked + 1} ELSE reused
<1>1. /\ k \in ReportIds /\ asked < MaxReports /\ asked' = asked + 1 /\ reports' = [reports EXCEPT ![k] = x] /\ reused' = more
      /\ UNCHANGED <<files, target, bound, clearing, generation, making, recovered, remover, stops, overlapped, orphaned,
                     mails>>
  BY <1>0 DEF Enqueue, pceState
<1>2. reports[k] = NoReport
  BY <1>0, <1>1, NextIdIsFree
<1>3. asked \in 0 .. MaxReports /\ MaxReports \in Nat /\ target \in {1, 2} /\ asked' \in 0 .. MaxReports
  BY <1>1, ReportQueueAssumption DEF ReportInv, ReportTypes, Pces
<1>4. x \in ReportRow /\ x.status \in {"failed", "queued"} /\ x.serial = asked + 1 /\ x.serial # 0
  BY <1>1, <1>3 DEF ReportRow
<1> HIDE DEF x
<1>5. reused \subseteq reused'
      /\ (files[k] # NoFiles \/ making.id = k \/ (\E r \in Removers : k \in remover[r].ids) => asked + 1 \in reused')
  BY <1>1
<1> HIDE DEF more
<1>6. reports' \in [ReportIds -> ReportRow] /\ reports'[k] = x /\ \A i \in ReportIds : i # k => reports'[i] = reports[i]
  BY <1>1, <1>4 DEF ReportInv, ReportTypes
<1>7. ReportTypes'
  BY <1>1, <1>3, <1>6 DEF ReportInv, ReportTypes
<1>8. x # NoReport
  BY <1>4, NoReportIs
<1>9. \A i \in ReportIds : reports[i].serial \in Nat /\ reports[i].serial <= asked /\ reports[i].serial # asked + 1
  <2>1. \A i \in ReportIds : reports[i].serial \in Nat /\ reports[i].serial <= asked
    BY ReportFields DEF ReportInv, RowsAreNumbered
  <2> QED BY <1>3, <2>1
<1>10. RowsAreNumbered'
  <2>1. \A i \in ReportIds : reports'[i].serial <= asked'
    BY <1>1, <1>3, <1>4, <1>6, <1>9
  <2>2. \A i, j \in ReportIds : reports'[i].serial = reports'[j].serial /\ reports'[i].serial # 0 => i = j
    BY <1>4, <1>6, <1>9 DEF ReportInv, RowsAreNumbered
  <2>3. \A i \in ReportIds : /\ reports'[i] = NoReport <=> reports'[i].serial = 0
                             /\ reports'[i] = NoReport <=> reports'[i].status = "none"
                             /\ reports'[i].status = "running" =>
                                 (making.id = i /\ making.step \in AtRow) \/ (~recovered /\ stops > 0)
    BY <1>4, <1>6, <1>8 DEF ReportInv, RowsAreNumbered
  <2> QED BY <1>1, <2>1, <2>2, <2>3 DEF RowsAreNumbered
<1>11. making.step \in AtRow => making.id # k
  BY <1>2, NoReportIs DEF ReportInv, JobHasItsRow
<1>12. making.step # "idle" => making.serial \in 1 .. asked /\ making.serial # asked + 1 /\ making.serial \in 1 .. asked'
  BY <1>1, <1>3 DEF ReportInv, JobHasItsRow
<1>13. JobHasItsRow'
  BY <1>1, <1>6, <1>11, <1>12 DEF ReportInv, JobHasItsRow, AtRow
<1>14. WrittenIsThere' /\ ClearedInTime' /\ ReadsFit'
  BY <1>1, <1>5 DEF ReportInv, WrittenIsThere, ClearedInTime, ReadsFit
<1>15. DoneHasFiles' /\ ReportShowsItsPce'
  BY <1>1, <1>4, <1>5, <1>6 DEF ReportInv, DoneHasFiles, ReportShowsItsPce
<1>16. RemovedRowIsGone'
  <2>1. ASSUME NEW q \in Removers, remover[q].step = "files", NEW i \in remover[q].ids
        PROVE  reports'[i] = NoReport \/ reports'[i].serial \in reused'
    <3>1. i \in ReportIds /\ (reports[i] = NoReport \/ reports[i].serial \in reused)
      BY <2>1, ReportFields DEF ReportInv, RemovedRowIsGone
    <3> QED BY <1>4, <1>5, <1>6, <2>1, <3>1
  <2> QED BY <1>1, <2>1 DEF ReportInv, RemovedRowIsGone
<1>17. ASSUME NEW i \in ReportIds, i # k, FilesAreKept(i) PROVE FilesAreKept(i)'
  BY <1>1, <1>5, <1>6, <1>17 DEF FilesAreKept
<1>18. files[k] # NoFiles => FilesAreKept(k)'
  BY <1>4, <1>5, <1>6 DEF FilesAreKept
<1>19. EveryFileIsKept'
  BY <1>1, <1>17, <1>18 DEF ReportInv, EveryFileIsKept
<1>20. MailIsLast'
  <2>1. \A s \in Serials : s \in Nat /\ (s > asked' => s > asked)
    BY <1>1, <1>3 DEF Serials
  <2>2. ASSUME NEW s \in Serials, mails[s] = 1
        PROVE  \A i \in ReportIds : reports'[i].serial = s => reports'[i].status \notin {"queued", "running"}
    <3>1. ~(s > asked)
      BY <2>2 DEF ReportInv, MailIsLast
    <3>2. s # asked + 1
      BY <1>3, <2>1, <3>1
    <3> QED BY <1>4, <1>6, <2>2, <3>2 DEF ReportInv, MailIsLast
  <2>3. making.step = "mail" =>
          \A i \in ReportIds : reports'[i].serial = making.serial => reports'[i].status \notin {"queued", "running"}
    BY <1>4, <1>6, <1>12 DEF ReportInv, MailIsLast
  <2> QED BY <1>1, <2>1, <2>2, <2>3 DEF ReportInv, MailIsLast
<1> QED BY <1>7, <1>10, <1>13, <1>14, <1>15, <1>16, <1>19, <1>20 DEF ReportInv

LEMMA RecoverRunningKeeps == ASSUME ReportInv, RecoverRunning PROVE ReportInv'
<1>1. /\ making.step = "idle" /\ recovered = FALSE /\ recovered' = TRUE
      /\ reports' = [i \in ReportIds |-> IF reports[i].status = "running" THEN RowWith(reports[i], "queued", reports[i].email)
                                         ELSE reports[i]]
      /\ UNCHANGED <<files, target, bound, clearing, generation, making, remover, stops, asked, overlapped, reused,
                     orphaned, mails>>
  BY DEF RecoverRunning, pceState, reportHistory, ReportInv, ReportTypes
<1>2. ASSUME NEW i \in ReportIds
      PROVE  /\ reports'[i] \in ReportRow /\ reports'[i].serial = reports[i].serial /\ reports'[i].target = reports[i].target
             /\ \/ reports[i].status = "running" /\ reports'[i].status = "queued"
                \/ reports[i].status # "running" /\ reports'[i] = reports[i]
  BY <1>1, ReportFields, RowWithIs DEF ReportInv
<1>3. reports' \in [ReportIds -> ReportRow]
  BY <1>1, <1>2
<1>4. ReportTypes'
  <2>1. recovered' \in BOOLEAN
    BY <1>1
  <2> QED BY <1>1, <1>3, <2>1 DEF ReportInv, ReportTypes
<1>5. RowsAreNumbered'
  <2>1. \A i \in ReportIds : reports'[i] = NoReport <=> reports[i] = NoReport
    BY <1>2, NoReportIs DEF ReportInv, RowsAreNumbered
  <2> QED BY <1>1, <1>2, <2>1 DEF ReportInv, RowsAreNumbered
<1>6. JobHasItsRow' /\ WrittenIsThere' /\ ClearedInTime' /\ ReadsFit'
  BY <1>1 DEF ReportInv, JobHasItsRow, WrittenIsThere, ClearedInTime, ReadsFit, AtRow
<1>7. DoneHasFiles' /\ ReportShowsItsPce'
  BY <1>1, <1>2 DEF ReportInv, DoneHasFiles, ReportShowsItsPce
<1>8. RemovedRowIsGone'
  <2>1. ASSUME NEW q \in Removers, remover[q].step = "files", NEW i \in remover[q].ids
        PROVE  reports'[i] = NoReport \/ reports'[i].serial \in reused
    <3>1. i \in ReportIds /\ (reports[i] = NoReport \/ reports[i].serial \in reused)
      BY <2>1, ReportFields DEF ReportInv, RemovedRowIsGone
    <3> QED BY <1>2, <3>1, NoReportIs
  <2> QED BY <1>1, <2>1 DEF ReportInv, RemovedRowIsGone
<1>9. ASSUME NEW i \in ReportIds, FilesAreKept(i) PROVE FilesAreKept(i)'
  BY <1>1, <1>2, <1>9 DEF FilesAreKept
<1>10. EveryFileIsKept'
  BY <1>1, <1>9 DEF ReportInv, EveryFileIsKept
<1>11. MailIsLast'
  BY <1>1, <1>2 DEF ReportInv, MailIsLast
<1> QED BY <1>4, <1>5, <1>6, <1>7, <1>8, <1>10, <1>11 DEF ReportInv

-----------------------------------------------------------------------------
LEMMA ClaimNextKeeps == ASSUME ReportInv, ClaimNext PROVE ReportInv'
<1>0. PICK i : i = Min(Queued)
  OBVIOUS
<1> DEFINE x == RowWith(reports[i], "running", reports[i].email)
           n == [step |-> "claimed", id |-> i, serial |-> reports[i].serial, target |-> reports[i].target,
                 generation |-> generation, reads |-> 0, read |-> {}]
<1>1. i \in ReportIds /\ reports[i].status = "queued"
  <2>1. Queued \subseteq Nat /\ Queued # {}
    BY DEF Queued, ReportIds, ClaimNext
  <2>2. i \in Queued
    BY <1>0, <2>1, MinIsLeast
  <2> QED BY <2>2 DEF Queued
<1>2. reports[i] \in ReportRow /\ reports[i].serial \in 0 .. MaxReports /\ reports[i].target \in 0 .. 2
      /\ reports[i].email \in {"none", "sending", "sent", "failed", "skipped"} /\ generation \in Nat
      /\ i \in 0 .. NumReportIds
  BY <1>1, ReportFields DEF ReportInv, ReportTypes, ReportIds
<1>3. /\ making.step = "idle" /\ recovered /\ reports' = [reports EXCEPT ![i] = x] /\ making' = n
      /\ UNCHANGED <<files, target, bound, clearing, generation, recovered, remover, stops, asked, overlapped, reused,
                     orphaned, mails>>
  BY <1>0 DEF ClaimNext, pceState, reportHistory
<1>4. n \in MakingType /\ n.step = "claimed" /\ n.id = i /\ n.serial = reports[i].serial /\ n.target = reports[i].target
      /\ n.generation = generation /\ n.read = {}
  BY <1>2 DEF MakingType
<1> HIDE DEF n
<1>5. x \in ReportRow /\ x.status = "running" /\ x.serial = reports[i].serial /\ x.target = reports[i].target
  BY <1>2, RowWithIs
<1> HIDE DEF x
<1>6. reports' \in [ReportIds -> ReportRow] /\ reports'[i] = x /\ \A j \in ReportIds : j # i => reports'[j] = reports[j]
  BY <1>1, <1>3, <1>5 DEF ReportInv, ReportTypes
<1>7. reports[i] # NoReport /\ reports[i].serial # 0 /\ x # NoReport /\ reports[i].serial <= asked
  BY <1>1, <1>5, NoReportIs DEF ReportInv, RowsAreNumbered
<1>8. n.serial \in 1 .. asked
  <2>1. asked \in Nat
    BY ReportFields DEF ReportInv, ReportTypes
  <2> QED BY <1>2, <1>4, <1>7, <2>1
<1>9. ReportTypes'
  BY <1>2, <1>3, <1>4, <1>6 DEF ReportInv, ReportTypes
<1>10. RowsAreNumbered'
  <2>1. \A j \in ReportIds : /\ reports'[j].serial = reports[j].serial
                             /\ reports'[j] = NoReport <=> reports[j] = NoReport
                             /\ reports'[j].status = "none" <=> reports[j].status = "none"
    BY <1>1, <1>5, <1>6, <1>7
  <2>2. \A j \in ReportIds : reports'[j].status = "running" => j = i
    BY <1>3, <1>6 DEF ReportInv, RowsAreNumbered, AtRow
  <2> QED BY <1>3, <1>4, <2>1, <2>2 DEF ReportInv, RowsAreNumbered, AtRow
<1>11. JobHasItsRow'
  BY <1>1, <1>3, <1>4, <1>5, <1>6, <1>8 DEF JobHasItsRow
<1>12. WrittenIsThere' /\ ClearedInTime' /\ ReadsFit'
  BY <1>3, <1>4 DEF ReportInv, WrittenIsThere, ClearedInTime, ReadsFit
<1>13. DoneHasFiles' /\ ReportShowsItsPce'
  BY <1>3, <1>5, <1>6 DEF ReportInv, DoneHasFiles, ReportShowsItsPce
<1>14. RemovedRowIsGone'
  <2>1. ASSUME NEW q \in Removers, remover[q].step = "files", NEW j \in remover[q].ids
        PROVE  reports'[j] = NoReport \/ reports'[j].serial \in reused
    <3>1. j \in ReportIds /\ (reports[j] = NoReport \/ reports[j].serial \in reused)
      BY <2>1, ReportFields DEF ReportInv, RemovedRowIsGone
    <3> QED BY <1>5, <1>6, <1>7, <3>1
  <2> QED BY <1>3, <2>1 DEF ReportInv, RemovedRowIsGone
<1>15. ASSUME NEW j \in ReportIds, FilesAreKept(j) PROVE FilesAreKept(j)'
  BY <1>1, <1>3, <1>5, <1>6, <1>15 DEF FilesAreKept
<1>16. EveryFileIsKept'
  BY <1>3, <1>15 DEF ReportInv, EveryFileIsKept, AtRow
<1>17. MailIsLast'
  <2>1. \A s \in Serials : mails[s] = 1 => reports[i].serial # s
    BY <1>1 DEF ReportInv, MailIsLast
  <2> QED BY <1>3, <1>4, <1>5, <1>6, <2>1 DEF ReportInv, MailIsLast
<1> QED BY <1>9, <1>10, <1>11, <1>12, <1>13, <1>14, <1>16, <1>17 DEF ReportInv

LEMMA WriteFilesKeeps == ASSUME ReportInv, WriteFiles PROVE ReportInv'
<1>0. PICK k : k = making.id
  OBVIOUS
<1> DEFINE w == [serial |-> making.serial, shows |-> making.read]
<1>1. /\ making.step = "write" /\ files' = [files EXCEPT ![k] = w] /\ making' = [making EXCEPT !.step = "done"]
      /\ UNCHANGED <<reports, target, bound, clearing, generation, recovered, remover, stops, asked, overlapped, reused,
                     orphaned, mails>>
  BY <1>0 DEF WriteFiles, pceState, reportHistory
<1>2. k \in ReportIds /\ reports[k].status = "running"
  BY <1>0, <1>1 DEF ReportInv, JobHasItsRow, AtRow
<1>3. w \in ReportFiles /\ w.serial = making.serial /\ w.shows = making.read
  BY ReportFields DEF ReportInv, ReportFiles
<1> HIDE DEF w
<1>4. /\ making' \in MakingType /\ making'.step = "done" /\ making'.id = making.id /\ making'.serial = making.serial
      /\ making'.target = making.target /\ making'.generation = making.generation
  BY <1>1 DEF ReportInv, ReportTypes, MakingType
<1>5. files' \in [ReportIds -> ReportFiles] /\ files'[k] = w /\ \A j \in ReportIds : j # k => files'[j] = files[j]
  BY <1>1, <1>2, <1>3 DEF ReportInv, ReportTypes
<1>6. ReportTypes'
  BY <1>1, <1>4, <1>5 DEF ReportInv, ReportTypes
<1>7. RowsAreNumbered' /\ JobHasItsRow' /\ ClearedInTime' /\ MailIsLast' /\ RemovedRowIsGone'
  BY <1>1, <1>4 DEF ReportInv, RowsAreNumbered, JobHasItsRow, ClearedInTime, MailIsLast, RemovedRowIsGone, AtRow
<1>8. ReadsFit' /\ WrittenIsThere'
  BY <1>0, <1>1, <1>3, <1>4, <1>5 DEF ReportInv, ReadsFit, WrittenIsThere
<1>9. DoneHasFiles' /\ ReportShowsItsPce'
  BY <1>1, <1>2, <1>5 DEF ReportInv, DoneHasFiles, ReportShowsItsPce
<1>10. ASSUME NEW j \in ReportIds, FilesAreKept(j) PROVE FilesAreKept(j)'
  BY <1>1, <1>10 DEF FilesAreKept
<1>11. EveryFileIsKept'
  BY <1>0, <1>1, <1>4, <1>5, <1>10 DEF ReportInv, EveryFileIsKept, AtRow
<1> QED BY <1>6, <1>7, <1>8, <1>9, <1>11 DEF ReportInv

\* What finish and deliver do to the rows: the one with the job's id, and only its status and mail.
RowIsSet(status) ==
    \A i \in ReportIds : /\ reports'[i] \in ReportRow /\ reports'[i].serial = reports[i].serial
                         /\ reports'[i].target = reports[i].target
                         /\ (reports'[i] = NoReport <=> reports[i] = NoReport)
                         /\ i # making.id => reports'[i] = reports[i]
                         /\ i = making.id /\ reports[i] # NoReport => reports'[i].status \in status

LEMMA FinishedIs ==
    ASSUME ReportInv, NEW status \in {"done", "failed"}, NEW email \in {"none", "sending", "sent", "failed", "skipped"},
           reports' = Finished(status, email)
    PROVE  reports' \in [ReportIds -> ReportRow] /\ RowIsSet({status})
<1>1. ASSUME NEW i \in ReportIds
      PROVE  /\ reports'[i] \in ReportRow /\ reports'[i].serial = reports[i].serial
             /\ reports'[i].target = reports[i].target
             /\ (reports'[i] = NoReport <=> reports[i] = NoReport)
             /\ i # making.id => reports'[i] = reports[i]
             /\ i = making.id /\ reports[i] # NoReport => reports'[i].status = status
  <2>1. reports[i] \in ReportRow /\ (reports[i] # NoReport => reports[i].serial # 0)
    BY ReportFields DEF ReportInv, RowsAreNumbered
  <2>2. CASE i # making.id
    <3>1. reports'[i] = reports[i]
      BY <2>2 DEF Finished, ReportInv, ReportTypes
    <3> QED BY <2>1, <2>2, <3>1
  <2>3. CASE i = making.id /\ reports[i] = NoReport
    <3>1. reports'[i] = reports[i]
      BY <2>3 DEF Finished, ReportInv, ReportTypes
    <3> QED BY <2>1, <2>3, <3>1
  <2>4. CASE i = making.id /\ reports[i] # NoReport
    <3>1. reports'[i] = RowWith(reports[i], status, email)
      BY <2>4 DEF Finished, ReportInv, ReportTypes
    <3> QED BY <2>1, <2>4, <3>1, RowWithIs, NoReportIs
  <2> QED BY <2>2, <2>3, <2>4
<1>2. reports' \in [ReportIds -> ReportRow]
  <2>1. reports' = [i \in ReportIds |-> reports'[i]]
    BY DEF Finished, ReportInv, ReportTypes
  <2> QED BY <1>1, <2>1
<1> QED BY <1>1, <1>2 DEF RowIsSet

\* The job is done with the row, or sends its mail.
JobLeavesRow ==
    /\ making.step # "idle" /\ reports' \in [ReportIds -> ReportRow]
    /\ \A i \in ReportIds : /\ reports'[i].serial = reports[i].serial /\ reports'[i].target = reports[i].target
                            /\ (reports'[i] = NoReport <=> reports[i] = NoReport)
                            /\ (reports'[i] = NoReport <=> reports'[i].status = "none")
                            /\ reports'[i].status # "running"
    /\ \/ making' = NotMaking
       \/ /\ making'.step = "mail" /\ making' \in MakingType /\ making'.id = making.id /\ making'.serial = making.serial
          /\ making'.generation = making.generation
    /\ UNCHANGED <<target, bound, clearing, generation, recovered, remover, stops, asked, overlapped, reused, orphaned>>
    /\ files' \in [ReportIds -> ReportFiles] /\ mails' \in [Serials -> Nat]

LEMMA JobLeavesRowKeeps ==
    ASSUME ReportInv, JobLeavesRow
    PROVE  /\ ReportTypes' /\ RowsAreNumbered' /\ JobHasItsRow' /\ ClearedInTime' /\ ReadsFit' /\ WrittenIsThere'
           /\ RemovedRowIsGone' /\ making'.step \in {"idle", "mail"}
<1>1. making' \in MakingType /\ making'.step \in {"idle", "mail"} /\ making'.generation <= generation
  <2>1. generation \in Nat /\ making.generation <= generation
    BY DEF ReportInv, ReportTypes
  <2> QED BY <2>1, NoReportIs DEF JobLeavesRow
<1>2. ReportTypes'
  BY <1>1 DEF ReportInv, ReportTypes, JobLeavesRow
<1>3. RowsAreNumbered'
  BY DEF ReportInv, RowsAreNumbered, JobLeavesRow
<1>4. JobHasItsRow'
  BY <1>1, NoReportIs DEF ReportInv, JobHasItsRow, JobLeavesRow, AtRow
<1>5. ClearedInTime' /\ ReadsFit' /\ WrittenIsThere'
  BY <1>1 DEF ReportInv, ClearedInTime, ReadsFit, WrittenIsThere, JobLeavesRow
<1>6. RemovedRowIsGone'
  <2>1. ASSUME NEW q \in Removers, remover[q].step = "files", NEW j \in remover[q].ids
        PROVE  reports'[j] = NoReport \/ reports'[j].serial \in reused
    <3>1. j \in ReportIds /\ (reports[j] = NoReport \/ reports[j].serial \in reused)
      BY <2>1, ReportFields DEF ReportInv, RemovedRowIsGone
    <3> QED BY <3>1 DEF JobLeavesRow
  <2> QED BY <2>1 DEF ReportInv, RemovedRowIsGone, JobLeavesRow
<1> QED BY <1>1, <1>2, <1>3, <1>4, <1>5, <1>6

\* The row that is finished: what was running is done or failed, and every other row as it was.
LEMMA FinishedRow ==
    ASSUME ReportInv, making.step \in AtRow, NEW status \in {"done", "failed"},
           NEW email \in {"none", "sending", "sent", "failed", "skipped"}, reports' = Finished(status, email)
    PROVE  /\ reports' \in [ReportIds -> ReportRow]
           /\ making.id \in ReportIds /\ reports'[making.id].status = status
           /\ reports'[making.id].serial = making.serial /\ reports'[making.id].target = making.target
           /\ \A i \in ReportIds : /\ reports'[i].serial = reports[i].serial /\ reports'[i].target = reports[i].target
                                   /\ (reports'[i] = NoReport <=> reports[i] = NoReport)
                                   /\ (reports'[i] = NoReport <=> reports'[i].status = "none")
                                   /\ reports'[i].status # "running" /\ (i # making.id => reports'[i] = reports[i])
<1>1. reports' \in [ReportIds -> ReportRow] /\ RowIsSet({status})
  BY FinishedIs
<1>2. /\ making.id \in ReportIds /\ reports[making.id].serial = making.serial /\ reports[making.id].target = making.target
      /\ reports[making.id].status = "running" /\ recovered
  BY DEF ReportInv, JobHasItsRow, AtRow
<1>3. reports[making.id] # NoReport
  BY <1>2, NoReportIs
<1>4. \A i \in ReportIds : i # making.id => reports[i].status # "running"
  BY <1>2 DEF ReportInv, RowsAreNumbered
<1>5. \A i \in ReportIds : reports[i] = NoReport <=> reports[i].status = "none"
  BY DEF ReportInv, RowsAreNumbered
<1> QED BY <1>1, <1>2, <1>3, <1>4, <1>5 DEF RowIsSet

LEMMA FinishDoneKeeps == ASSUME ReportInv, NEW mail \in BOOLEAN, FinishDone(mail) PROVE ReportInv'
<1> DEFINE email == IF mail THEN "sending" ELSE "none"
<1>1. /\ making.step = "done" /\ reports' = Finished("done", email)
      /\ making' = (IF mail THEN [making EXCEPT !.step = "mail"] ELSE NotMaking)
      /\ UNCHANGED <<files, target, bound, clearing, generation, recovered, remover, stops, asked, overlapped, reused,
                     orphaned, mails>>
  BY DEF FinishDone, pceState, reportHistory
<1>2. email \in {"none", "sending", "sent", "failed", "skipped"}
  OBVIOUS
<1> HIDE DEF email
<1>3. making' = NotMaking
      \/ (/\ making'.step = "mail" /\ making' \in MakingType /\ making'.id = making.id /\ making'.serial = making.serial
          /\ making'.generation = making.generation)
  BY <1>1 DEF ReportInv, ReportTypes, MakingType
<1>4. making.step \in AtRow
  BY <1>1 DEF AtRow
<1>5. /\ reports' \in [ReportIds -> ReportRow]
      /\ making.id \in ReportIds /\ reports'[making.id].status = "done"
      /\ reports'[making.id].serial = making.serial /\ reports'[making.id].target = making.target
      /\ \A i \in ReportIds : /\ reports'[i].serial = reports[i].serial /\ reports'[i].target = reports[i].target
                              /\ (reports'[i] = NoReport <=> reports[i] = NoReport)
                              /\ (reports'[i] = NoReport <=> reports'[i].status = "none")
                              /\ reports'[i].status # "running" /\ (i # making.id => reports'[i] = reports[i])
  BY <1>1, <1>2, <1>4, FinishedRow
<1>6. JobLeavesRow
  BY <1>1, <1>3, <1>5 DEF JobLeavesRow, ReportInv, ReportTypes
<1>7. DoneHasFiles'
  BY <1>1, <1>5 DEF ReportInv, DoneHasFiles, WrittenIsThere
<1>8. ReportShowsItsPce'
  BY <1>1, <1>5 DEF ReportInv, ReportShowsItsPce, ReadsFit
<1>9. ASSUME NEW i \in ReportIds, FilesAreKept(i) \/ i = making.id PROVE FilesAreKept(i)'
  BY <1>1, <1>5, <1>9 DEF FilesAreKept
<1>10. EveryFileIsKept'
  BY <1>1, <1>9 DEF ReportInv, EveryFileIsKept
<1>11. MailIsLast'
  <2>1. \A i \in ReportIds : reports[i].serial = making.serial => i = making.id
    <3>1. making.serial # 0 /\ reports[making.id].serial = making.serial
      BY <1>4 DEF ReportInv, JobHasItsRow, AtRow
    <3> QED BY <1>5, <3>1 DEF ReportInv, RowsAreNumbered
  <2>2. \A s \in Serials : mails[s] = 1 => \A i \in ReportIds : reports'[i].serial = s => reports'[i].status \notin {"queued", "running"}
    BY <1>1, <1>5 DEF ReportInv, MailIsLast
  <2>3. making'.step = "mail" =>
          \A i \in ReportIds : reports'[i].serial = making'.serial => reports'[i].status \notin {"queued", "running"}
    BY <1>3, <1>5, <2>1, NoReportIs
  <2>4. making'.step # "idle" => making'.serial = making.serial
    BY <1>3, NoReportIs
  <2> QED BY <1>1, <2>2, <2>3, <2>4 DEF ReportInv, MailIsLast
<1> QED BY <1>6, <1>7, <1>8, <1>10, <1>11, JobLeavesRowKeeps DEF ReportInv

LEMMA ReportFailsHolds == ASSUME ReportInv, ReportFails PROVE ReportInv'
<1>0. PICK k : k = making.id
  OBVIOUS
<1>1. /\ making.step = "fail" /\ reports' = Finished("failed", reports[k].email) /\ making' = NotMaking
      /\ files' = [files EXCEPT ![k] = NoFiles]
      /\ UNCHANGED <<target, bound, clearing, generation, recovered, remover, stops, asked, overlapped, reused,
                     orphaned, mails>>
  BY <1>0 DEF ReportFails, pceState, reportHistory
<1>2. making.step \in AtRow
  BY <1>1 DEF AtRow
<1>3. k \in ReportIds /\ reports[k].email \in {"none", "sending", "sent", "failed", "skipped"}
  BY <1>0, <1>2, ReportFields DEF ReportInv, JobHasItsRow, AtRow
<1>4. /\ reports' \in [ReportIds -> ReportRow]
      /\ reports'[k].status = "failed"
      /\ \A i \in ReportIds : /\ reports'[i].serial = reports[i].serial /\ reports'[i].target = reports[i].target
                              /\ (reports'[i] = NoReport <=> reports[i] = NoReport)
                              /\ (reports'[i] = NoReport <=> reports'[i].status = "none")
                              /\ reports'[i].status # "running" /\ (i # k => reports'[i] = reports[i])
  BY <1>0, <1>1, <1>2, <1>3, FinishedRow
<1>5. files' \in [ReportIds -> ReportFiles] /\ files'[k] = NoFiles /\ \A i \in ReportIds : i # k => files'[i] = files[i]
  BY <1>1, <1>3, NoReportIs DEF ReportInv, ReportTypes
<1>6. JobLeavesRow
  BY <1>1, <1>4, <1>5 DEF JobLeavesRow, ReportInv, ReportTypes
<1>7. DoneHasFiles'
  BY <1>1, <1>3, <1>4, <1>5 DEF ReportInv, DoneHasFiles
<1>8. ReportShowsItsPce'
  BY <1>1, <1>3, <1>4, <1>5 DEF ReportInv, ReportShowsItsPce
<1>9. ASSUME NEW i \in ReportIds, FilesAreKept(i), i # k PROVE FilesAreKept(i)'
  BY <1>1, <1>4, <1>9 DEF FilesAreKept
<1>10. EveryFileIsKept'
  BY <1>0, <1>1, <1>5, <1>9 DEF ReportInv, EveryFileIsKept
<1>11. MailIsLast'
  BY <1>1, <1>3, <1>4, NoReportIs DEF ReportInv, MailIsLast
<1> QED BY <1>6, <1>7, <1>8, <1>10, <1>11, JobLeavesRowKeeps DEF ReportInv

LEMMA DeliverKeeps ==
    ASSUME ReportInv, NEW outcome \in {"sent", "failed", "skipped", "raised"}, Deliver(outcome) PROVE ReportInv'
<1>0. PICK s : s = making.serial
  OBVIOUS
<1>1. /\ making.step = "mail" /\ making' = NotMaking
      /\ mails' = (IF outcome = "sent" THEN [mails EXCEPT ![s] = @ + 1] ELSE mails)
      /\ UNCHANGED <<files, target, bound, clearing, generation, recovered, remover, stops, overlapped, asked, reused,
                     orphaned>>
  BY <1>0 DEF Deliver, pceState
<1>2. /\ making.id \in ReportIds /\ recovered /\ s \in 1 .. asked /\ s \in Serials /\ asked \in 0 .. MaxReports
      /\ MaxReports \in Nat
  <2>1. making.id \in ReportIds /\ recovered /\ s \in 1 .. asked /\ asked \in 0 .. MaxReports /\ MaxReports \in Nat
    BY <1>0, <1>1, ReportQueueAssumption DEF ReportInv, JobHasItsRow, ReportTypes
  <2> QED BY <2>1 DEF Serials
<1>3. ASSUME NEW i \in ReportIds
      PROVE  /\ reports'[i] \in ReportRow /\ reports'[i].serial = reports[i].serial /\ reports'[i].target = reports[i].target
             /\ reports'[i].status = reports[i].status /\ (reports'[i] = NoReport <=> reports[i] = NoReport)
  <2>1. reports[i] \in ReportRow /\ (reports[i] # NoReport => reports[i].serial # 0)
        /\ reports[i].status \in {"none", "queued", "running", "done", "failed"}
    BY ReportFields DEF ReportInv, RowsAreNumbered
  <2>2. CASE reports'[i] = reports[i]
    BY <2>1, <2>2
  <2>3. CASE reports'[i] # reports[i]
    <3>1. i = making.id /\ reports[i] # NoReport /\ outcome # "raised"
          /\ reports'[i] = RowWith(reports[i], reports[i].status, outcome)
      BY <2>3 DEF Deliver, ReportInv, ReportTypes
    <3>2. outcome \in {"none", "sending", "sent", "failed", "skipped"}
      BY <3>1
    <3> QED BY <2>1, <3>1, <3>2, RowWithIs, NoReportIs
  <2> QED BY <2>2, <2>3
<1>4. reports' \in [ReportIds -> ReportRow]
  <2>1. reports' = [i \in ReportIds |-> reports'[i]]
    BY DEF Deliver, ReportInv, ReportTypes
  <2> QED BY <1>3, <2>1
<1>5. \A i \in ReportIds : reports[i].status # "running" /\ (reports[i] = NoReport <=> reports[i].status = "none")
  BY <1>1, <1>2 DEF ReportInv, RowsAreNumbered, AtRow
<1>6. mails \in [Serials -> Nat] /\ mails[s] = 0
  BY <1>0, <1>1, <1>2 DEF ReportInv, ReportTypes, MailIsLast
<1>7. mails' \in [Serials -> Nat] /\ mails'[s] \in {0, 1} /\ \A x \in Serials : x # s => mails'[x] = mails[x]
  BY <1>1, <1>2, <1>6
<1>8. JobLeavesRow
  BY <1>1, <1>3, <1>4, <1>5, <1>7 DEF JobLeavesRow, ReportInv, ReportTypes
<1>9. DoneHasFiles' /\ ReportShowsItsPce'
  BY <1>1, <1>3 DEF ReportInv, DoneHasFiles, ReportShowsItsPce
<1>10. ASSUME NEW i \in ReportIds, FilesAreKept(i) PROVE FilesAreKept(i)'
  BY <1>1, <1>3, <1>10 DEF FilesAreKept
<1>11. EveryFileIsKept'
  BY <1>1, <1>10 DEF ReportInv, EveryFileIsKept, AtRow
<1>12. MailIsLast'
  <2>1. \A i \in ReportIds : reports'[i].serial = s => reports'[i].status \notin {"queued", "running"}
    BY <1>0, <1>1, <1>3 DEF ReportInv, MailIsLast
  <2>2. ~(s > asked)
    BY <1>2
  <2>3. \A x \in Serials : x # s => \/ mails'[x] = 0
                                    \/ mails'[x] = 1 /\ \A i \in ReportIds :
                                         reports'[i].serial = x => reports'[i].status \notin {"queued", "running"}
    BY <1>3, <1>7 DEF ReportInv, MailIsLast
  <2>4. \A x \in Serials : x > asked => mails'[x] = 0
    BY <1>7, <2>2 DEF ReportInv, MailIsLast
  <2> QED BY <1>1, <1>7, <2>1, <2>3, <2>4, NoReportIs DEF MailIsLast
<1> QED BY <1>8, <1>9, <1>11, <1>12, JobLeavesRowKeeps DEF ReportInv

LEMMA ReportStopKeeps == ASSUME ReportInv, ReportStop PROVE ReportInv'
<1>1. /\ stops' = stops + 1 /\ making' = NotMaking /\ recovered' = FALSE /\ remover' = [r \in Removers |-> NotRemoving]
      /\ orphaned' = orphaned \cup {i \in UNION {remover[r].ids : r \in Removers} : files[i] # NoFiles}
      /\ UNCHANGED <<reports, files, target, bound, clearing, generation, asked, overlapped, reused, mails>>
  BY DEF ReportStop, pceState
<1>2. stops' \in Nat /\ stops' > 0
  BY <1>1 DEF ReportInv, ReportTypes
<1>3. ReportTypes'
  <2>1. making' \in MakingType /\ making'.generation <= generation
    BY <1>1, NoReportIs DEF ReportInv, ReportTypes
  <2>2. remover' \in [Removers -> RemoverType]
    BY <1>1, NoReportIs
  <2> QED BY <1>1, <1>2, <2>1, <2>2 DEF ReportInv, ReportTypes
<1>4. RowsAreNumbered'
  BY <1>1, <1>2 DEF ReportInv, RowsAreNumbered
<1>5. JobHasItsRow' /\ ReadsFit' /\ WrittenIsThere'
  BY <1>1, NoReportIs DEF JobHasItsRow, ReadsFit, WrittenIsThere, AtRow
<1>6. ClearedInTime' /\ DoneHasFiles' /\ ReportShowsItsPce'
  BY <1>1 DEF ReportInv, ClearedInTime, DoneHasFiles, ReportShowsItsPce
<1>7. RemovedRowIsGone'
  BY <1>1, NoReportIs DEF RemovedRowIsGone
<1>8. ASSUME NEW i \in ReportIds, FilesAreKept(i), files[i] # NoFiles PROVE FilesAreKept(i)'
  <2>1. CASE reports[i].status = "done" \/ reports[i].serial \in reused
    BY <1>1, <2>1 DEF FilesAreKept
  <2>2. CASE stops > 0 /\ (reports[i].status \in {"queued", "running"} \/ i \in orphaned)
    BY <1>1, <1>2, <2>2 DEF FilesAreKept
  <2>3. CASE \E r \in Removers : remover[r].step = "files" /\ i \in remover[r].ids
    <3>1. i \in UNION {remover[r].ids : r \in Removers}
      BY <2>3
    <3>2. i \in orphaned'
      BY <1>1, <1>8, <3>1
    <3> QED BY <1>2, <3>2 DEF FilesAreKept
  <2> QED BY <1>8, <2>1, <2>2, <2>3 DEF FilesAreKept
<1>9. ASSUME making.step \in AtRow, NEW i \in ReportIds, making.id = i PROVE FilesAreKept(i)'
  <2>1. reports[i].status = "running"
    BY <1>9 DEF ReportInv, JobHasItsRow
  <2> QED BY <1>1, <1>2, <2>1 DEF FilesAreKept
<1>10. EveryFileIsKept'
  BY <1>1, <1>8, <1>9 DEF ReportInv, EveryFileIsKept
<1>11. MailIsLast'
  BY <1>1, NoReportIs DEF ReportInv, MailIsLast
<1> QED BY <1>3, <1>4, <1>5, <1>6, <1>7, <1>10, <1>11 DEF ReportInv

-----------------------------------------------------------------------------
LEMMA ReportBegins == ReportInit => ReportInv
<1> SUFFICES ASSUME ReportInit PROVE ReportInv
  OBVIOUS
<1>1. /\ \A i \in ReportIds : reports[i] = NoReport /\ files[i] = NoFiles
      /\ target = 1 /\ bound = 1 /\ clearing = 0 /\ generation = 0 /\ overlapped = FALSE
      /\ making = NotMaking /\ recovered = FALSE /\ \A r \in Removers : remover[r] = NotRemoving
      /\ asked = 0 /\ stops = 0 /\ \A s \in Serials : mails[s] = 0
  BY DEF ReportInit
<1>2. ReportTypes
  <2>1. reports \in [ReportIds -> ReportRow] /\ files \in [ReportIds -> ReportFiles]
    BY NoReportIs DEF ReportInit
  <2>2. making \in MakingType /\ making.generation <= generation /\ remover \in [Removers -> RemoverType]
    BY <1>1, NoReportIs DEF ReportInit
  <2>3. asked \in 0 .. MaxReports /\ mails \in [Serials -> Nat] /\ target \in Pces /\ bound \in Pces
    BY <1>1, ReportQueueAssumption DEF ReportInit, Pces
  <2> QED BY <1>1, <2>1, <2>2, <2>3 DEF ReportTypes
<1>3. RowsAreNumbered /\ JobHasItsRow /\ ClearedInTime /\ ReadsFit /\ WrittenIsThere /\ RemovedRowIsGone
  BY <1>1, NoReportIs DEF RowsAreNumbered, JobHasItsRow, ClearedInTime, ReadsFit, WrittenIsThere, RemovedRowIsGone, AtRow
<1>4. EveryFileIsKept /\ MailIsLast /\ DoneHasFiles /\ ReportShowsItsPce
  BY <1>1, NoReportIs DEF EveryFileIsKept, MailIsLast, DoneHasFiles, ReportShowsItsPce
<1> QED BY <1>2, <1>3, <1>4 DEF ReportInv

LEMMA ReportStep == ReportInv /\ [ReportNext]_reportVars => ReportInv'
<1> SUFFICES ASSUME ReportInv, [ReportNext]_reportVars PROVE ReportInv'
  OBVIOUS
<1>1. CASE UNCHANGED reportVars
  <2>1. UNCHANGED <<reports, files, target, bound, clearing, generation, making, recovered, remover, stops, asked,
                    overlapped, reused, orphaned, mails>>
    BY <1>1 DEF reportVars, pceState, reportHistory
  <2>2. ReportTypes' /\ ClearedInTime' /\ ReadsFit'
    BY <2>1 DEF ReportInv, ReportTypes, ClearedInTime, ReadsFit
  <2>3. RowsStand
    BY <2>1 DEF RowsStand
  <2> QED BY <2>2, <2>3, RowsStandKeeps DEF ReportInv
<1>2. CASE ReportJob
  BY <1>2, RecoverRunningKeeps, ClaimNextKeeps, StartBuildKeeps, BuildReadKeeps, BuildEndsKeeps, WriteFilesKeeps,
     ReportFailsHolds, FinishDoneKeeps, DeliverKeeps DEF ReportJob
<1>3. CASE SwitchSettings \/ SwitchDatabase \/ BuildFails \/ ReportStop
  BY <1>3, SwitchSettingsKeeps, SwitchDatabaseKeeps, BuildFailsKeeps, ReportStopKeeps
<1>4. CASE \E refused \in BOOLEAN : Enqueue(refused)
  BY <1>4, EnqueueKeeps
<1>5. ASSUME NEW r \in Removers,
             DeleteRows(r) \/ RemoveFiles(r) \/ \E these \in SUBSET ReportIds : ChooseToRemove(r, these)
      PROVE  ReportInv'
  BY <1>5, DeleteRowsKeeps, RemoveFilesKeeps, ChooseToRemoveKeeps
<1> QED BY <1>1, <1>2, <1>3, <1>4, <1>5 DEF ReportNext

\* What the runs check follows from the invariant.
LEMMA ReportsHold == ReportInv => ReportsAreSound
<1> SUFFICES ASSUME ReportInv PROVE ReportsAreSound
  OBVIOUS
<1>1. ReportTypeOK
  <2>1. \A i \in ReportIds : reports[i].status = "running" => making.id = i \/ ~recovered
    BY DEF ReportInv, RowsAreNumbered
  <2>2. making.step \in {"idle", "claimed", "build", "write", "done", "mail", "fail"}
        /\ \A r \in Removers : remover[r].ids \subseteq ReportIds
    BY ReportFields DEF ReportInv
  <2> QED BY <2>1, <2>2 DEF ReportTypeOK, ReportInv, ReportTypes, ReportRow, ReportFiles
<1>2. FilesHaveAReport
  <2>1. \A i \in ReportIds : FilesAreKept(i) => \/ reports[i].status = "done" \/ (\E r \in Removers : i \in remover[r].ids)
                                               \/ (stops > 0 /\ (reports[i].status \in {"queued", "running"} \/ i \in orphaned))
                                               \/ reports[i].serial \in reused
    BY DEF FilesAreKept
  <2> QED BY <2>1 DEF ReportInv, EveryFileIsKept, FilesHaveAReport
<1>3. MailedAtMostOnce
  BY DEF ReportInv, MailIsLast, MailedAtMostOnce
<1> QED BY <1>1, <1>2, <1>3 DEF ReportInv, ReportsAreSound

-----------------------------------------------------------------------------
(* The parts side by side.                                                 *)

\* A step of the whole is a step of each part, or leaves it as it is.
LEMMA PartsStep ==
    [OutgoingNext]_outgoingVars =>
      /\ [DispatchNext]_dispatchVars /\ [ReportNext]_reportVars /\ [ScheduleNext]_scheduleVars /\ [RuleNext]_ruleVars
      /\ [FleetNext]_fleetVars /\ [QuarantineNext]_quarantineVars /\ [RhcNext]_rhcVars /\ part' = part
BY DEF OutgoingNext, outgoingVars

\* For every instance: a confirmed fleet move, quarantine or enabling of Rule Hit Count writes to the PCE what was
\* shown and confirmed, each write on record, and little once another PCE was saved (services/fleet_write.py,
\* services/quarantine.py, services/rhc.py).
THEOREM WritesStayAsConfirmed == OutgoingSpec => []WritesAreAsConfirmed
<1>1. OutgoingInit => FleetInv /\ QuarantineInv /\ RhcInv
  BY FleetBegins, QuarantineBegins, RhcBegins DEF OutgoingInit
<1>2. FleetInv /\ QuarantineInv /\ RhcInv /\ [OutgoingNext]_outgoingVars => (FleetInv /\ QuarantineInv /\ RhcInv)'
  BY FleetStep, QuarantineStep, RhcStep, PartsStep
<1>3. FleetInv /\ QuarantineInv /\ RhcInv => WritesAreAsConfirmed
  BY FleetIsSound, QuarantineHolds, EnablingHolds DEF WritesAreAsConfirmed
<1> QED BY <1>1, <1>2, <1>3, PTL DEF OutgoingSpec

\* For every instance: a finished report has its own files, showing the data of the PCE it names, and was mailed at
\* most once, whatever is removed, switched or stopped at the same time; and no run time of a schedule makes two
\* reports or is passed over (services/reports/generate.py, store/reports.py, services/reports/schedules.py).
THEOREM ReportsStayWhole == OutgoingSpec => []ReportsKeepTheirPromise
<1>1. OutgoingInit => ReportInv /\ ScheduleInv
  BY ReportBegins, ScheduleBegins DEF OutgoingInit
<1>2. ReportInv /\ ScheduleInv /\ [OutgoingNext]_outgoingVars => (ReportInv /\ ScheduleInv)'
  BY ReportStep, ScheduleStep, PartsStep
<1>3. ReportInv /\ ScheduleInv => ReportsKeepTheirPromise
  BY ReportsHold, SchedulesHold DEF ReportsKeepTheirPromise
<1> QED BY <1>1, <1>2, <1>3, PTL DEF OutgoingSpec
=============================================================================
