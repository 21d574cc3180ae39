---- MODULE MCFlowStore ----
(* FlowStore for TLC: two addresses of one PCE and one address of another. *)
EXTENDS FlowStore, TLC

CONSTANTS a1, a2, b1

\* a1 and a2 are the same PCE (an address change), b1 is another one.
MCAddrs == {a1, a2, b1}
MCIdent == [a \in MCAddrs |-> IF a = b1 THEN "pceB" ELSE "pceA"]

MCSymmetry == Permutations(Collectors) \cup Permutations(Pages)

\* What an idle or resetting process noted before is never read again: states that differ only
\* there are the same.
Noted(f) == [p \in DOMAIN f |->
    IF pc[p] \in {"idle", "note", "reset", "waiting", "unlinked"} \cup Derived THEN 0 ELSE f[p]]
MCView == <<saved, rev, binding, rows, generation, lock, resetting, conn, view, pc,
            Noted(seen), Noted(old), Noted(new), Noted(gen), Noted(fresh),
            stale, overtaken, interrupted, clears, crashes, busies>>
====
