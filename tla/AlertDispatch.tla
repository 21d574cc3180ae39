--------------------------- MODULE AlertDispatch ---------------------------
(***************************************************************************)
(* Sending alerts.  Recording an alert queues one delivery per enabled     *)
(* channel; once a minute a run takes the deliveries that are due, sends   *)
(* one message per channel and records what became of it.                  *)
(*                                                                         *)
(* Times are kept relative to the clock: a delivery's wait is the minutes  *)
(* until its next_attempt_at (negative once it is overdue), a channel's    *)
(* rest the minutes until its cooldown_until.  A channel is a number, so   *)
(* that channels sort as their names do.                                   *)
(***************************************************************************)
EXTENDS Integers, FiniteSets, FiniteSetsExt

CONSTANTS
    NumChannels,     \* channels are 1 .. NumChannels
    DueLimit,        \* DUE_LIMIT
    Attempts,        \* ATTEMPTS
    Backoff,         \* BACKOFF: minutes after the first, second ... failure
    ChannelStrikes,  \* CHANNEL_STRIKES
    ChannelRest,     \* CHANNEL_REST, in minutes
    NumDeliveries,   \* bound: deliveries ever queued
    MaxLate,         \* bound: minutes overdue that are told apart
    MaxMishaps,      \* bound: stops of the service in the middle of a run, and lost answers
    MaxToggles       \* bound: channels switched on or off

ASSUME AlertDispatchAssumption ==
    /\ NumChannels \in Nat \ {0} /\ DueLimit \in Nat \ {0} /\ Attempts \in Nat \ {0}
    /\ Backoff \in [1 .. Attempts - 1 -> Nat \ {0}]
    /\ ChannelStrikes \in Nat \ {0} /\ ChannelRest \in Nat \ {0}
    /\ NumDeliveries \in Nat /\ MaxLate \in Nat /\ MaxMishaps \in Nat /\ MaxToggles \in Nat

Channels == 1 .. NumChannels
Deliveries == 1 .. NumDeliveries
Statuses == {"none", "pending", "sent", "failed", "deleted"}

VARIABLES
    deliveries,  \* alert_deliveries: id -> [channel, status, attempts, wait]
    channelState,\* channel_state: channel -> [strikes (up to ChannelStrikes), rest (0 for none)]
    enabled,     \* the channels the settings have switched on
    dispatch,    \* the run: what it read when it began and where it is; ran: it began in this minute
    mishaps,     \* (bound)
    toggles,     \* (bound)
    everOff,     \* (history) channels that were off at some time
    sends,       \* (history) messages sent that carried the delivery, up to Attempts
    copies       \* (history) of those, how many the receiver took and no lost record excuses

dispatchHistory == <<everOff, sends, copies>>
dispatchVars == <<deliveries, channelState, enabled, dispatch, mishaps, toggles, dispatchHistory>>

NoDelivery == [channel |-> 1, status |-> "none", attempts |-> 0, wait |-> 0]
IdleDispatch == [step |-> "idle", due |-> {}, enabled |-> {}, left |-> {}, channel |-> 0, ok |-> FALSE, todo |-> {}, ran |-> FALSE]

\* One type invariant: the deliveries, the channels and the run stay within their types, and the
\* run works only on deliveries it read when it began.
DispatchTypeOK ==
    /\ deliveries \in [Deliveries -> [channel : Channels, status : Statuses, attempts : 0 .. Attempts,
                                      wait : Int]]
    /\ channelState \in [Channels -> [strikes : 0 .. ChannelStrikes, rest : 0 .. ChannelRest]]
    /\ enabled \subseteq Channels
    /\ dispatch.step \in {"idle", "channel", "answered", "state"}
    /\ dispatch.todo \subseteq dispatch.due /\ dispatch.due \subseteq Deliveries
    /\ dispatch.left \subseteq Channels
    /\ mishaps \in 0 .. MaxMishaps /\ toggles \in 0 .. MaxToggles

DispatchInit ==
    /\ deliveries = [d \in Deliveries |-> NoDelivery]
    /\ channelState = [c \in Channels |-> [strikes |-> 0, rest |-> 0]]
    /\ enabled = Channels /\ dispatch = IdleDispatch
    /\ mishaps = 0 /\ toggles = 0 /\ everOff = {}
    /\ sends = [d \in Deliveries |-> 0] /\ copies = [d \in Deliveries |-> 0]

Mishap == mishaps < MaxMishaps /\ mishaps' = mishaps + 1

-----------------------------------------------------------------------------
(* What happens around the run.                                            *)

\* insert_alert: a pending row for each enabled channel, due at once, with ids above all others.
InsertAlert ==
    LET used == {d \in Deliveries : deliveries[d].status # "none"}
        first == Cardinality(used)
    IN /\ enabled # {} /\ first + Cardinality(enabled) <= NumDeliveries
       /\ deliveries' =
            [d \in Deliveries |->
               IF d \notin first + 1 .. first + Cardinality(enabled) THEN deliveries[d]
               ELSE [NoDelivery EXCEPT !.status = "pending",
                        !.channel = CHOOSE c \in enabled : Cardinality({b \in enabled : b <= c}) = d - first]]
       /\ UNCHANGED <<channelState, enabled, dispatch, mishaps, toggles, dispatchHistory>>

\* The channels page switches a channel on or off.
ToggleChannel(c) ==
    /\ toggles < MaxToggles /\ toggles' = toggles + 1
    /\ enabled' = IF c \in enabled THEN enabled \ {c} ELSE enabled \cup {c}
    /\ everOff' = everOff \cup {c}
    /\ UNCHANGED <<deliveries, channelState, dispatch, mishaps, sends, copies>>

\* delete_alerts_before: an alert whose time is up goes with its deliveries, the
\* pending ones too; a row that is settled is read by nothing here.
DeleteDelivery(d) ==
    /\ deliveries[d].status = "pending" /\ deliveries[d].wait <= -MaxLate
    /\ deliveries' = [deliveries EXCEPT ![d].status = "deleted"]
    /\ UNCHANGED <<channelState, enabled, dispatch, mishaps, toggles, dispatchHistory>>

\* due_deliveries: pending, its time has come, the longest due first.
Before(d, e) ==
    \/ deliveries[d].wait < deliveries[e].wait
    \/ deliveries[d].wait = deliveries[e].wait /\ d < e

\* Mutation of DueDeliveries: the status is not asked for.
DueWhateverStatus ==
    LET due == {d \in Deliveries : deliveries[d].status \in {"pending", "sent"} /\ deliveries[d].wait <= 0}
    IN {d \in due : Cardinality({e \in due : Before(e, d)}) < DueLimit}
DueDeliveries ==
    LET due == {d \in Deliveries : deliveries[d].status = "pending" /\ deliveries[d].wait <= 0}
    IN {d \in due : Cardinality({e \in due : Before(e, d)}) < DueLimit}

\* A minute passes, with a run in it if there is something to send; a run takes less than a minute and
\* reckons from when it began.
DispatchTick ==
    /\ dispatch.step = "idle" /\ (dispatch.ran \/ DueDeliveries = {})
    /\ \/ \E d \in Deliveries : deliveries[d].status = "pending"
       \/ \E c \in Channels : channelState[c].rest > 0
    /\ deliveries' = [d \in Deliveries |->
                        [deliveries[d] EXCEPT !.wait = IF deliveries[d].status = "pending" /\ @ > -MaxLate THEN @ - 1 ELSE @]]
    /\ channelState' = [c \in Channels |->
                          [channelState[c] EXCEPT !.rest = IF @ = 0 THEN 0 ELSE @ - 1]]
    /\ dispatch' = IdleDispatch
    /\ UNCHANGED <<enabled, mishaps, toggles, dispatchHistory>>

-----------------------------------------------------------------------------
(* run_dispatch: settings, due deliveries and channel states are read once, *)
(* then the channels follow in the order of their names.                    *)

RunDispatch ==
    /\ dispatch.step = "idle" /\ ~dispatch.ran /\ DueDeliveries # {}
    /\ dispatch' = [IdleDispatch EXCEPT !.step = "channel", !.ran = TRUE, !.due = DueDeliveries, !.enabled = enabled,
                       !.left = {deliveries[d].channel : d \in DueDeliveries}]
    /\ UNCHANGED <<deliveries, channelState, enabled, mishaps, toggles, dispatchHistory>>

Items(c) == {d \in dispatch.due : deliveries[d].channel = c}
AtChannel(c) == dispatch.step = "channel" /\ dispatch.left # {} /\ c = Min(dispatch.left)
NextChannel(c) == [dispatch EXCEPT !.step = "channel", !.left = @ \ {c}, !.channel = 0, !.todo = {}]

\* mark_deliveries: by id, whatever the row says by now; a deleted row stays deleted.
Marked(these, status, add, wait) ==
    [d \in Deliveries |->
       IF d \notin these \/ deliveries[d].status = "deleted" THEN deliveries[d]
       ELSE [deliveries[d] EXCEPT !.status = status, !.attempts = @ + add, !.wait = wait]]

\* The channel was off when the run began: its deliveries fail without an attempt.
ChannelDisabled(c) ==
    /\ AtChannel(c) /\ c \notin dispatch.enabled
    /\ deliveries' = Marked(Items(c), "failed", 0, 0)
    /\ dispatch' = NextChannel(c)
    /\ UNCHANGED <<channelState, enabled, mishaps, toggles, dispatchHistory>>

\* The channel rests: its deliveries wait, at no cost.
ChannelResting(c) ==
    /\ AtChannel(c) /\ c \in dispatch.enabled /\ channelState[c].rest > 0
    /\ dispatch' = NextChannel(c)
    /\ UNCHANGED <<deliveries, channelState, enabled, mishaps, toggles, dispatchHistory>>

\* send: one message for all the channel's items.  An answer that does not arrive in time, or names
\* one refused recipient, counts as a failure although the message was taken.
Send(c, taken, ok) ==
    /\ AtChannel(c) /\ c \in dispatch.enabled /\ channelState[c].rest = 0
    /\ ok => taken
    /\ IF taken /\ ~ok THEN Mishap ELSE UNCHANGED mishaps
    /\ dispatch' = [dispatch EXCEPT !.step = "answered", !.channel = c, !.ok = ok, !.todo = Items(c)]
    /\ sends' = [d \in Deliveries |-> IF d \in Items(c) /\ sends[d] < Attempts THEN sends[d] + 1 ELSE sends[d]]
    /\ copies' = [d \in Deliveries |-> IF d \in Items(c) /\ ok THEN copies[d] + 1 ELSE copies[d]]
    /\ UNCHANGED <<deliveries, channelState, enabled, toggles, everOff>>

\* _record, the message was taken.
RecordSent ==
    /\ dispatch.step = "answered" /\ dispatch.ok
    /\ deliveries' = Marked(dispatch.todo, "sent", 1, 0)
    /\ dispatch' = [dispatch EXCEPT !.step = "state", !.todo = {}]
    /\ UNCHANGED <<channelState, enabled, mishaps, toggles, dispatchHistory>>

\* Mutation of AfterFailure: the number of attempts made is taken for the number to come.
AfterFailureEarly(these, attempts) ==
    IF attempts >= Attempts - 1 THEN Marked(these, "failed", 1, 0)
    ELSE Marked(these, "pending", 1, Backoff[attempts])
\* Mutation of AfterFailure: the number of attempts is not looked at.
AfterFailureForever(these, attempts) == Marked(these, "pending", 1, 1)
\* Mutation of AfterFailure: the last attempt leaves the delivery pending, with no next attempt.
AfterFailureOpen(these, attempts) ==
    IF attempts >= Attempts THEN Marked(these, "pending", 0, MaxLate + 10)
    ELSE Marked(these, "pending", 1, Backoff[attempts])
\* The outcome of one more failure: another attempt after a pause, or none.
AfterFailure(these, attempts) ==
    IF attempts >= Attempts THEN Marked(these, "failed", 1, 0)
    ELSE Marked(these, "pending", 1, Backoff[attempts])

\* _record, the message was not taken: the deliveries of each number of attempts in a commit of their own.
RecordFailed(attempts) ==
    LET these == {d \in dispatch.todo : deliveries[d].attempts + 1 = attempts}
    IN /\ dispatch.step = "answered" /\ ~dispatch.ok /\ these # {}
       /\ deliveries' = AfterFailure(these, attempts)
       /\ dispatch' = [dispatch EXCEPT !.todo = @ \ these, !.step = IF dispatch.todo = these THEN "state" ELSE @]
       /\ UNCHANGED <<channelState, enabled, mishaps, toggles, dispatchHistory>>

\* save_channel_state, in a commit of its own.
SaveChannelState ==
    LET c == dispatch.channel
        strikes == IF dispatch.ok THEN 0 ELSE Min({channelState[c].strikes + 1, ChannelStrikes})
    IN /\ dispatch.step = "state"
       /\ channelState' = [channelState EXCEPT ![c] =
             [strikes |-> strikes, rest |-> IF strikes >= ChannelStrikes THEN ChannelRest ELSE 0]]
       /\ dispatch' = NextChannel(c)
       /\ UNCHANGED <<deliveries, enabled, mishaps, toggles, dispatchHistory>>

DispatchEnd ==
    /\ dispatch.step = "channel" /\ dispatch.left = {}
    /\ dispatch' = [IdleDispatch EXCEPT !.ran = TRUE]
    /\ UNCHANGED <<deliveries, channelState, enabled, mishaps, toggles, dispatchHistory>>

\* The service stops, or the run fails, after any of its commits.
DispatchStops ==
    /\ dispatch.step # "idle" /\ Mishap
    /\ dispatch' = [IdleDispatch EXCEPT !.ran = TRUE]
    /\ copies' = [d \in Deliveries |-> IF dispatch.step = "answered" /\ d \in dispatch.todo /\ dispatch.ok
                                       THEN copies[d] - 1 ELSE copies[d]]
    /\ UNCHANGED <<deliveries, channelState, enabled, toggles, everOff, sends>>

DispatchRuns ==
    \/ RunDispatch \/ RecordSent \/ SaveChannelState \/ DispatchEnd
    \/ \E c \in Channels : ChannelDisabled(c) \/ ChannelResting(c)
    \/ \E c \in Channels, taken, ok \in BOOLEAN : Send(c, taken, ok)
    \/ \E a \in 1 .. Attempts : RecordFailed(a)

DispatchNext ==
    \/ InsertAlert \/ DispatchTick \/ DispatchStops \/ DispatchRuns
    \/ \E c \in Channels : ToggleChannel(c)
    \/ \E d \in Deliveries : DeleteDelivery(d)

-----------------------------------------------------------------------------
(* Properties.                                                             *)

\* A receiver gets an alert twice only if taking it was not recorded: the answer was lost or refused
\* one recipient, or the service stopped between the answer and its record (dispatch.py: send, then
\* _record).
DuplicateOnlyIfUnrecorded == \A d \in Deliveries : copies[d] <= 1

\* A delivery is given up only after the third message that carried it, or because its channel was
\* switched off; rests and limits cost it nothing ("resting costs no attempt").
GivenUpOnlyAfterAttempts ==
    \A d \in Deliveries : deliveries[d].status = "failed" => sends[d] >= Attempts \/ deliveries[d].channel \in everOff

\* Every queued delivery is settled: sent, failed or deleted with its alert.
AllSettled == \A d \in Deliveries : deliveries[d].status # "pending"
\* Every queued delivery is settled in the end, however its channel and the other channels fail (there are
\* NumDeliveries of them).
EveryDeliverySettles == <>[]AllSettled

DispatchSpec == DispatchInit /\ [][DispatchNext]_dispatchVars /\ WF_dispatchVars(DispatchRuns) /\ WF_dispatchVars(DispatchTick)

\* Every alert is delivered once to each of its channels or given up for a reason, whatever answers are lost
\* (services/alerts/dispatch.py).
DeliveriesAreSound == DispatchTypeOK /\ DuplicateOnlyIfUnrecorded /\ GivenUpOnlyAfterAttempts
=============================================================================
