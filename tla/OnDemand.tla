------------------------------ MODULE OnDemand ------------------------------
(***************************************************************************)
(* A period read from the PCE into a throwaway store: a day at a time, in  *)
(* pieces of the size that fit the day before; an answer at the PCE's      *)
(* limit is thrown away and its window halved, and what is still at the    *)
(* limit in the smallest window is kept and recorded as truncated.         *)
(* Reading stops at a total of rows, and the rest of the period is a gap.  *)
(***************************************************************************)
EXTENDS Integers, Sequences, FiniteSetsExt

CONSTANTS
    Nowhere,       \* no fitting window yet, not stopped at the row limit
    Slots,         \* the period: slots 0 .. Slots - 1 of the smallest window
    DaySlots,      \* WINDOW
    SlotRows,      \* how many rows the PCE may hold for a slot
    PerQuery,      \* PER_QUERY
    PullLimit,     \* ONDEMAND_MAX_ROWS
    MaxHalvings    \* MAX_DEPTH

ASSUME OnDemandAssumption ==
    /\ {Slots, DaySlots, PerQuery, PullLimit, MaxHalvings} \subseteq Nat /\ SlotRows \subseteq Nat
    /\ PerQuery > 0 /\ DaySlots > 0

VARIABLES
    held,  \* slot -> rows the PCE holds
    pull   \* the pull: _Pull, its loops and the windows still to walk

pullVars == <<held, pull>>

Window(a, b, depth) == [a |-> a, b |-> b, depth |-> depth]
HeldIn(a, b) == MapThenSumSet(LAMBDA s : held[s], a .. b - 1)

OnDemandInit ==
    /\ held \in [0 .. Slots - 1 -> SlotRows]
    /\ pull = [step |-> "reading", day |-> 0, at |-> 0, piece |-> DaySlots, fit |-> Nowhere, before |-> 0,
               walk |-> <<>>, rows |-> 0, stored |-> [s \in {} |-> 0], truncated |-> {}, unread |-> Nowhere,
               covered |-> {}]

NextDay == Min({pull.day + DaySlots, Slots})

\* The inner loop of open_period: the next piece of the day.
ReadPiece ==
    /\ pull.step = "reading" /\ pull.walk = <<>> /\ pull.unread = Nowhere /\ pull.at < NextDay
    /\ LET q == Min({pull.at + pull.piece, NextDay})
       IN pull' = [pull EXCEPT !.walk = <<Window(pull.at, q, 0)>>, !.at = q]
    /\ UNCHANGED held

\* _next_piece
NextPiece(piece, fit, rows) ==
    IF fit # Nowhere /\ fit < piece THEN fit ELSE IF rows * 2 <= PerQuery THEN Min({piece * 2, DaySlots}) ELSE piece

\* The end of a day of open_period.
EndDay ==
    /\ pull.step = "reading" /\ pull.walk = <<>> /\ pull.day < Slots
    /\ pull.unread # Nowhere \/ pull.at >= NextDay
    /\ pull' = [pull EXCEPT !.piece = NextPiece(pull.piece, pull.fit, pull.rows - pull.before), !.day = NextDay,
                            !.at = NextDay, !.fit = Nowhere, !.before = pull.rows,
                            !.step = IF pull.unread # Nowhere \/ NextDay >= Slots THEN "read" ELSE "reading"]
    /\ UNCHANGED held

\* Mutation of Halves: the second half begins one slot late.
HalvesApart(w) ==
    LET mid == (w.a + w.b) \div 2
    IN <<Window(w.a, mid, w.depth + 1), Window(mid + 1, w.b, w.depth + 1)>>
Halves(w) ==
    LET mid == (w.a + w.b) \div 2
    IN <<Window(w.a, mid, w.depth + 1), Window(mid, w.b, w.depth + 1)>>

\* What the store holds of a window that is kept: everything, or what the limit let through.
Stored(w, n) == [s \in DOMAIN pull.stored \cup (w.a .. w.b - 1) |->
                    IF s \notin w.a .. w.b - 1 THEN pull.stored[s] ELSE IF n < PerQuery THEN held[s] ELSE Min({held[s], PerQuery})]

\* _walk: one window.  The limit of the pull is looked at before a window is read, the limit of a query after.
Walk ==
    /\ pull.step = "reading" /\ pull.walk # <<>>
    /\ LET w == Head(pull.walk)
           n == HeldIn(w.a, w.b)
           capped == n >= PerQuery
           rest == Tail(pull.walk)
       IN IF pull.unread # Nowhere THEN pull' = [pull EXCEPT !.walk = rest]
          ELSE IF pull.rows >= PullLimit THEN pull' = [pull EXCEPT !.walk = rest, !.unread = w.a]
          ELSE IF capped /\ w.depth < MaxHalvings /\ w.b - w.a > 1 THEN pull' = [pull EXCEPT !.walk = Halves(w) \o rest]
          ELSE pull' = [pull EXCEPT !.walk = rest, !.stored = Stored(w, n), !.rows = @ + Min({n, PerQuery}),
                           !.fit = IF capped THEN @ ELSE IF @ = Nowhere THEN w.b - w.a ELSE Min({@, w.b - w.a}),
                           !.truncated = IF capped THEN @ \cup (w.a .. w.b - 1) ELSE @]
    /\ UNCHANGED held

\* OnDemandFailed: the store is closed and deleted.
PullFails ==
    /\ pull.step = "reading" /\ pull.walk # <<>> /\ pull.unread = Nowhere
    /\ pull' = [pull EXCEPT !.step = "failed", !.stored = [s \in {} |-> 0]]
    /\ UNCHANGED held

\* Mutation of ReadTo: the coverage reaches to the end although reading stopped.
ReadToEnd == Slots
ReadTo == IF pull.unread = Nowhere THEN Slots ELSE pull.unread

\* The end of open_period: coverage of what was read, and a gap for the rest.
PullEnds ==
    /\ pull.step = "read"
    /\ pull' = [pull EXCEPT !.step = "done", !.covered = 0 .. ReadTo - 1,
                            !.truncated = IF pull.unread = Nowhere THEN @ ELSE @ \cup (pull.unread .. Slots - 1)]
    /\ UNCHANGED held

OnDemandNext == ReadPiece \/ EndDay \/ Walk \/ PullFails \/ PullEnds

-----------------------------------------------------------------------------
\* A pull that ends accounts for its whole period, however the days were cut and halved: every slot was read to
\* the last row, or is in a recorded gap; what it says it covers it did ask for, and a slot after the one it
\* stopped at was not read.  A pull that fails leaves nothing.
PeriodIsAccountedFor ==
    /\ pull.step = "done" =>
          /\ \A s \in (0 .. Slots - 1) \ pull.truncated : s \in DOMAIN pull.stored /\ pull.stored[s] = held[s]
          /\ pull.covered \subseteq DOMAIN pull.stored
          /\ DOMAIN pull.stored \subseteq pull.covered
    /\ pull.step = "failed" => DOMAIN pull.stored = {}
=============================================================================
