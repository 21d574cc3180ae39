--------------------------- MODULE BlockedHistory ---------------------------
(***************************************************************************)
(* The blocked-surge detector's history of one source: the most distinct   *)
(* targets it was blocked from in any window of the detector's length, in  *)
(* the seven days before a run.  An hourly step keeps the maximum of every *)
(* hour, thinned; a run takes from it the whole hours that are exact for   *)
(* its own seven days and reads only the two edges from the flow store.    *)
(***************************************************************************)
EXTENDS Integers, FiniteSets, FiniteSetsExt

CONSTANTS
    NoCache,         \* no cache stored
    Hour,         \* units of time in an hour
    History,      \* how far back a run compares
    ExactRecent,  \* how far behind the cache's end its hours are kept whole
    MaxAge,       \* how old a cache may be when it is used
    Windows,      \* the lengths the blocked window may be set to
    BlockedTargets,      \* hosts the source may be blocked from
    Start,        \* when the model begins
    HistoryEnd,      \* the last time of the model
    MaxHits       \* blocked connections the store holds

ASSUME HistoryAssumption ==
    /\ {Hour, History, ExactRecent, MaxAge, Start, HistoryEnd, MaxHits} \subseteq Nat
    /\ Hour > 0 /\ Windows \subseteq 1 .. History /\ Start <= HistoryEnd

VARIABLES
    blockedAt,  \* the source's blocked connections in the store: [last, target]
    hourly,     \* the stored hourly result, and whether a connection was stored behind it since
    width,      \* the setting blocked_window_minutes
    clock

historyVars == <<blockedAt, hourly, width, clock>>

HourOf(t) == t - (t % Hour)
CeilHour(t) == IF HourOf(t) = t THEN t ELSE HourOf(t) + Hour

-----------------------------------------------------------------------------
\* observations, then last <= until: a connection's last sighting is what places it.
SeenIn(start, until) == {b \in blockedAt : b.last \in start .. until}

\* The distinct targets of the window of this length that ends at t, among these connections.
TargetsIn(found, t, w) == {b.target : b \in {x \in found : x.last \in t - w .. t}}
\* max_window_targets
MaxTargets(found, w) == Max({0} \cup {Cardinality(TargetsIn(found, b.last, w)) : b \in found})
\* window_targets_by_hour
ByHour(found, w) ==
    [h \in {HourOf(b.last) : b \in found} |->
        Max({Cardinality(TargetsIn(found, b.last, w)) : b \in {x \in found : HourOf(x.last) = h}})]

\* _thin: recent hours as they are; of the older, those that no later old hour reaches.
Recent(h, through) == h >= HourOf(through) - ExactRecent
Thin(byHour, through) ==
    LET old == {h \in DOMAIN byHour : ~Recent(h, through)}
        kept == {h \in DOMAIN byHour : h \in old => \A later \in old : later > h => byHour[later] < byHour[h]}
    IN [h \in kept |-> byHour[h]]

\* build_blocked_history: up to the traffic watermark, which may be behind the clock.
BuildHistory ==
    /\ hourly # NoCache => hourly.at < clock
    /\ \E through \in {clock - 1, clock} :
          LET found == SeenIn(through - History, through)
          IN hourly' = [through |-> through, at |-> clock, width |-> width, passed |-> FALSE,
                        byHour |-> Thin(ByHour(found, width), through)]
    /\ UNCHANGED <<blockedAt, width, clock>>

-----------------------------------------------------------------------------
\* Mutation of Usable: a cache made for another length of window is used.
UsableAnyWidth(moment) == hourly # NoCache /\ hourly.at >= moment - MaxAge
\* cached_history
Usable(moment) == hourly # NoCache /\ hourly.width = width /\ hourly.at >= moment - MaxAge

\* Mutation of FirstHour: the first hours' windows may begin before the cache's connections do.
FirstHourEarly(lo) == CeilHour(Max({lo - History, hourly.through - History}))
\* _cached_hours: [first, end) of the hours whose windows lie inside both sevens of days.
FirstHour(lo) == CeilHour(Max({lo - History, hourly.through - History}) + width)
EndHour(lo) == HourOf(Min({lo, hourly.through}))
\* Mutation of Exact: a run may end among the hours that were thinned.
ExactAnywhere(lo) == FirstHour(lo) < EndHour(lo)
Exact(lo) == FirstHour(lo) < EndHour(lo) /\ EndHour(lo) >= HourOf(hourly.through) - ExactRecent

LiveHistory(lo) == MaxTargets(SeenIn(lo - History, lo), width)

\* history_for
HistoryFor(lo) ==
    IF Usable(clock) /\ Exact(lo)
    THEN LET mid == {hourly.byHour[h] : h \in {x \in DOMAIN hourly.byHour : x >= FirstHour(lo) /\ x < EndHour(lo)}}
             head == MaxTargets(SeenIn(lo - History, FirstHour(lo)), width)
             tail == MaxTargets(SeenIn(EndHour(lo) - width, lo), width)
         IN Max(mid \cup {head, tail})
    ELSE LiveHistory(lo)

-----------------------------------------------------------------------------
\* A collection cycle or a re-read stores a blocked connection, recent or late.
Blocked ==
    /\ Cardinality(blockedAt) < MaxHits
    /\ \E t \in BlockedTargets, l \in 0 .. clock :
          /\ blockedAt' = blockedAt \cup {[last |-> l, target |-> t]}
          /\ hourly' = IF hourly # NoCache /\ l <= hourly.through THEN [hourly EXCEPT !.passed = TRUE] ELSE hourly
    /\ UNCHANGED <<width, clock>>

ChangeWidth == width' \in Windows \ {width} /\ UNCHANGED <<blockedAt, hourly, clock>>
HourPasses == clock < HistoryEnd /\ clock' = clock + 1 /\ UNCHANGED <<blockedAt, hourly, width>>

HistoryInit == blockedAt = {} /\ hourly = NoCache /\ width \in Windows /\ clock = Start

HistoryNext == Blocked \/ BuildHistory \/ ChangeWidth \/ HourPasses

-----------------------------------------------------------------------------
\* blocked_history.py: "The result equals reading all 7 days", whatever part of it the cache serves: as long
\* as no connection was stored behind the cache's end since it was made, a run that compares a source with its
\* history gets the number that reading the whole history from the flow store gives, for every start of a run
\* (a late pass over an old day too), every age of the cache and every change of the window's length.
CachedAsLive ==
    (hourly = NoCache \/ ~hourly.passed)
        => \A lo \in 0 .. clock : HistoryFor(lo) = LiveHistory(lo)
=============================================================================
