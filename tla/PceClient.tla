------------------------------ MODULE PceClient ------------------------------
(***************************************************************************)
(* The PCE client: requests under the outbound rate budget and a deadline, *)
(* the asynchronous traffic query (submit, poll, recompute of the draft,   *)
(* download, delete) and the reading of a collection that does not fit a   *)
(* page.  The PCE (external) answers late, refuses, fails, loses answers,  *)
(* and reports a query completed before its file is there.                 *)
(***************************************************************************)
EXTENDS Integers, FiniteSetsExt

CONSTANTS
    Callers,       \* threads that call the PCE, each once
    Rates,         \* rates the settings may name: tokens per unit of time
    Burst,         \* rate -> capacity of the bucket
    BudgetWait,    \* budget_timeout
    QueryTime,     \* the time a caller allows
    EndOfTime,     \* the last time of the model
    LastStart,     \* callers begin no later
    MaxResults,    \* max_results of a query
    MatchCounts,   \* how many connections may match a query
    PageLimit,     \* PAGE_LIMIT
    Totals,        \* how many rows a collection may have
    MaxRateSaves,  \* changes of the rate
    MaxOthers      \* requests of the rest of the service

ASSUME PceClientAssumption ==
    /\ {BudgetWait, QueryTime, EndOfTime, LastStart, MaxResults, PageLimit, MaxRateSaves, MaxOthers} \subseteq Nat
    /\ Rates \subseteq Nat \ {0} /\ Burst \in [Rates -> Nat \ {0}] /\ MatchCounts \subseteq Nat /\ Totals \subseteq Nat

VARIABLES
    limiter,  \* RateLimiter: tokens, when they were last settled, and the rate
    instant,
    granted, earned,  \* tokens given out, and the most the rates allowed so far
    rateSaves, othersSent,
    caller,   \* the callers
    pceJob    \* the PCE's job of each caller, and what it has to tell

clientVars == <<limiter, instant, granted, earned, rateSaves, othersSent, caller, pceJob>>
budgetVars == <<limiter, instant, granted, earned, rateSaves, othersSent>>

Idle == [kind |-> "query", step |-> "idle", stage |-> "none", until |-> 0, deadline |-> 0, sent |-> 0, woken |-> 0,
         rows |-> 0, capped |-> FALSE]
NoJob == [state |-> "none", rules |-> "absent", file |-> FALSE, made |-> 0, matches |-> 0, flows |-> 0, told |-> TRUE]

ClientInit ==
    /\ limiter \in {[tokens |-> Burst[r], last |-> 0, rate |-> r] : r \in Rates}
    /\ instant = 0 /\ granted = 0 /\ earned = limiter.tokens /\ rateSaves = 0 /\ othersSent = 0
    /\ caller = [c \in Callers |-> Idle] /\ pceJob = [c \in Callers |-> NoJob]

-----------------------------------------------------------------------------
(* RateLimiter                                                             *)

\* _refill_locked
Settled == [limiter EXCEPT !.tokens = Min({Burst[limiter.rate], @ + (instant - limiter.last) * limiter.rate}), !.last = instant]
HasToken == Settled.tokens >= 1
\* acquire, when a token is there
TakeToken == limiter' = [Settled EXCEPT !.tokens = @ - 1] /\ granted' = granted + 1

\* Mutation of SetRate: what was earned at the old rate is settled at the new one.
SetRateUnsettled ==
    /\ rateSaves < MaxRateSaves /\ rateSaves' = rateSaves + 1
    /\ \E r \in Rates \ {limiter.rate} : limiter' = [limiter EXCEPT !.rate = r]
    /\ UNCHANGED <<instant, granted, earned, othersSent, caller, pceJob>>
\* set_rate: settled at the old rate first.
SetRate ==
    /\ rateSaves < MaxRateSaves /\ rateSaves' = rateSaves + 1
    /\ \E r \in Rates \ {limiter.rate} : limiter' = [Settled EXCEPT !.rate = r, !.tokens = Min({@, Burst[r]})]
    /\ UNCHANGED <<instant, granted, earned, othersSent, caller, pceJob>>

\* Another request of the service.
OtherRequest ==
    /\ othersSent < MaxOthers /\ HasToken /\ TakeToken /\ othersSent' = othersSent + 1
    /\ UNCHANGED <<instant, earned, rateSaves, caller, pceJob>>

InstantPasses ==
    /\ instant < EndOfTime /\ instant' = instant + 1 /\ earned' = earned + limiter.rate
    /\ UNCHANGED <<limiter, granted, rateSaves, othersSent, caller, pceJob>>

-----------------------------------------------------------------------------
(* PceClient.request: the budget, then the deadline, then the send.        *)

Deadline(c) == IF caller[c].stage = "delete" THEN EndOfTime ELSE caller[c].deadline
\* The caller turns to the next request.
Asks(c, stage) == [caller[c] EXCEPT !.stage = stage, !.step = "budget",
                                    !.until = Min({instant + BudgetWait, IF stage = "delete" THEN EndOfTime ELSE caller[c].deadline})]
Fails(c) == [Idle EXCEPT !.kind = caller[c].kind, !.step = "failed", !.sent = caller[c].sent, !.deadline = caller[c].deadline]
Ends(c, rows, capped) ==
    [Idle EXCEPT !.kind = caller[c].kind, !.step = "ok", !.rows = rows, !.capped = capped, !.sent = caller[c].sent,
                 !.deadline = caller[c].deadline]
\* What follows when a request of the stage raises: a finished query is only not deleted.
Raises(c) == IF caller[c].stage = "delete" THEN Ends(c, caller[c].rows, caller[c].capped) ELSE Fails(c)

GetsToken(c) ==
    /\ caller[c].step \in {"budget", "budget again"} /\ HasToken /\ TakeToken
    /\ caller' = [caller EXCEPT ![c].step = IF @ = "budget" THEN "send" ELSE "resend"]
    /\ UNCHANGED <<instant, earned, rateSaves, othersSent, pceJob>>
\* PceBudgetExhausted; for the second attempt of a POST, the 429 it got is the answer.
NoBudget(c) ==
    /\ caller[c].step \in {"budget", "budget again"} /\ ~HasToken /\ instant >= caller[c].until
    /\ caller' = [caller EXCEPT ![c] = Raises(c)]
    /\ UNCHANGED <<budgetVars, pceJob>>

\* Mutation of TooLate: the time the budget took is not looked at.
NeverTooLate(c) == FALSE
\* The deadline may have passed while the budget was waited for.
TooLate(c) == instant >= Deadline(c)
SendsTooLate(c) ==
    /\ caller[c].step = "send" /\ TooLate(c)
    /\ caller' = [caller EXCEPT ![c] = Raises(c)]
    /\ UNCHANGED <<budgetVars, pceJob>>
\* A request goes out; nobody looks at the deadline before it is repeated.
GoesOut(c) == (caller[c].step = "send" /\ ~TooLate(c)) \/ caller[c].step = "resend"
\* A request of a stage is sent and answered, or lost (PceTransportError).
Sends(c, stage) == caller[c].stage = stage /\ GoesOut(c)
\* sent: when the last request was sent for the first time.
Then(c, next) ==
    caller' = [caller EXCEPT ![c] =
                 [next EXCEPT !.sent = IF caller[c].stage = "delete" \/ caller[c].step = "resend" THEN @ ELSE instant]]
\* Refused with a status the stage does not know, or the answer was lost.
SendFails(c) ==
    /\ caller[c].stage # "submit" /\ GoesOut(c)
    /\ Then(c, Raises(c)) /\ UNCHANGED <<budgetVars, pceJob>>
\* The session repeats a request other than a POST that was throttled, refused by a gateway or lost, after the pause
\* the PCE asks for and without another token.
SessionRepeats(c) ==
    /\ caller[c].step = "send" /\ ~TooLate(c) /\ caller[c].stage # "submit"
    /\ Then(c, [caller[c] EXCEPT !.step = "resend"]) /\ UNCHANGED <<budgetVars, pceJob>>

-----------------------------------------------------------------------------
(* run_traffic_query                                                       *)

\* How long the first request waits for the budget, worked out when the caller asks.
BudgetTimeout == Min({BudgetWait, QueryTime})
QueryBegins(c) ==
    /\ caller[c].step = "idle" /\ instant <= LastStart
    /\ \E kind \in {"query", "draft"} :
          caller' = [caller EXCEPT ![c] = [Idle EXCEPT !.kind = kind, !.deadline = instant + QueryTime, !.stage = "submit",
                                                       !.step = "budget", !.until = instant + BudgetTimeout]]
    /\ UNCHANGED <<budgetVars, pceJob>>

\* The PCE takes a query (external): what matches, how many rows its file will hold, and whether it tells.
Taken(c) ==
    \E m \in MatchCounts, told \in BOOLEAN : \E f \in 0 .. Min({m, MaxResults}) :
        /\ (m = 0) = (f = 0)
        /\ pceJob' = [pceJob EXCEPT ![c] = [@ EXCEPT !.state = "hidden", !.made = @ + 1, !.matches = m, !.flows = f, !.told = told]]
\* Mutation of SubmitLost: sent again, as the other methods are.
SubmitLostRetried(c) ==
    /\ Sends(c, "submit") /\ (Taken(c) \/ UNCHANGED pceJob)
    /\ Then(c, Asks(c, "submit")) /\ UNCHANGED budgetVars
\* The answer of the POST is lost; the PCE may have acted.  A POST is never sent again after that.
SubmitLost(c) ==
    /\ Sends(c, "submit") /\ (Taken(c) \/ UNCHANGED pceJob)
    /\ Then(c, Fails(c)) /\ UNCHANGED budgetVars
SubmitTaken(c) ==
    /\ Sends(c, "submit") /\ Taken(c)
    /\ Then(c, IF instant < caller[c].deadline THEN Asks(c, "poll") ELSE Fails(c)) /\ UNCHANGED budgetVars
\* A 429 was not processed: slept on as long as it says, at most POST_429_MAX_WAIT, unless it answers the second attempt.
SubmitThrottled(c) ==
    /\ Sends(c, "submit")
    /\ Then(c, IF caller[c].step = "send" THEN [caller[c] EXCEPT !.step = "throttled"] ELSE Fails(c))
    /\ UNCHANGED <<budgetVars, pceJob>>
\* Then sent once more, with a fresh token that is waited for as long as the first one could be; the time the caller
\* allows may be over by then.
SubmitsAgain(c) ==
    /\ caller[c].step = "throttled"
    /\ caller' = [caller EXCEPT ![c].step = "budget again", ![c].until = instant + BudgetTimeout]
    /\ UNCHANGED <<budgetVars, pceJob>>

Finished(c) == pceJob[c].state = "completed"
RulesFinished(c) == Finished(c) /\ pceJob[c].rules \in {"absent", "completed"}
\* What follows a query that is completed: the draft is computed first if it was asked for.
AfterPoll(c) == IF caller[c].kind = "draft" /\ caller[c].stage = "poll" THEN "update_rules" ELSE "download"
\* _poll: not visible yet or not finished is waited for, a failed state ends the query.
PollAnswers(c) ==
    /\ Sends(c, "poll") \/ Sends(c, "poll_rules")
    /\ LET done == IF caller[c].stage = "poll" THEN Finished(c) ELSE RulesFinished(c)
       IN Then(c, IF pceJob[c].state = "failed" \/ (caller[c].stage = "poll_rules" /\ pceJob[c].rules = "failed") THEN Fails(c)
                  ELSE IF done THEN Asks(c, AfterPoll(c))
                  ELSE [caller[c] EXCEPT !.step = "asleep", !.woken = instant + 1])
    /\ UNCHANGED <<budgetVars, pceJob>>
\* _sleep, then the deadline is looked at again.
Wakes(c) ==
    /\ caller[c].step = "asleep" /\ instant >= Min({caller[c].woken, caller[c].deadline})
    /\ caller' = [caller EXCEPT ![c] = IF instant >= caller[c].deadline THEN Fails(c) ELSE Asks(c, caller[c].stage)]
    /\ UNCHANGED <<budgetVars, pceJob>>

\* update_rules: by its answer the PCE has marked the rules as being computed (external).
UpdateRules(c) ==
    /\ Sends(c, "update_rules")
    /\ pceJob' = [pceJob EXCEPT ![c].rules = "queued"] /\ Then(c, Asks(c, "poll_rules"))
    /\ UNCHANGED budgetVars

Rows(c) == IF pceJob[c].file THEN pceJob[c].flows ELSE 0
\* Mutation of Short: an empty answer is an answer.
ShortNever(c, rows) == FALSE
\* _short: fewer rows than the PCE said, or none where it said that some match.
Short(c, rows) == IF pceJob[c].told THEN rows < pceJob[c].flows ELSE rows = 0 /\ pceJob[c].matches > 0
\* Mutation of Capped: only a full answer is at the limit.
CappedByRows(c, rows) == rows >= MaxResults
\* A truncated answer can hold fewer rows than the limit; the match count says so.
Capped(c, rows) == rows >= MaxResults \/ pceJob[c].matches >= MaxResults
\* _download, a second time if the first one was short.
Download(c) ==
    /\ Sends(c, "download") \/ Sends(c, "download_again")
    /\ LET rows == Rows(c)
       IN Then(c, IF ~Short(c, rows) THEN [Asks(c, "delete") EXCEPT !.rows = rows, !.capped = Capped(c, rows)]
                  ELSE IF caller[c].stage = "download" THEN Asks(c, "download_again") ELSE Fails(c))
    /\ UNCHANGED <<budgetVars, pceJob>>
\* The query is deleted; what becomes of that does not matter.
Delete(c) ==
    /\ Sends(c, "delete") /\ Then(c, Ends(c, caller[c].rows, caller[c].capped))
    /\ UNCHANGED <<budgetVars, pceJob>>

-----------------------------------------------------------------------------
(* get_all                                                                 *)

CollectionBegins(c) ==
    /\ caller[c].step = "idle" /\ instant <= LastStart
    /\ caller' = [caller EXCEPT ![c] = [Idle EXCEPT !.kind = "collection", !.deadline = instant + QueryTime, !.stage = "page",
                                                    !.step = "budget", !.until = instant + BudgetTimeout]]
    /\ \E n \in Totals : pceJob' = [pceJob EXCEPT ![c].flows = n]
    /\ UNCHANGED budgetVars
\* Mutation of PageIsWhole: a full page is taken for the whole.
PageIsWholeAtLimit(rows) == rows <= PageLimit
PageIsWhole(rows) == rows < PageLimit
\* The first page: exactly the limit may not be all.
Page(c) ==
    /\ Sends(c, "page")
    /\ LET rows == Min({pceJob[c].flows, PageLimit})
       IN Then(c, IF PageIsWhole(rows) THEN Ends(c, rows, FALSE) ELSE Asks(c, "start"))
    /\ UNCHANGED <<budgetVars, pceJob>>
StartCollection(c) ==
    /\ Sends(c, "start") /\ pceJob' = [pceJob EXCEPT ![c].state = "hidden"] /\ Then(c, Asks(c, "poll_job"))
    /\ UNCHANGED budgetVars
\* Whatever is not "done" or a failure is waited for, until the deadline.
PollJob(c) ==
    /\ Sends(c, "poll_job")
    /\ Then(c, IF pceJob[c].state = "failed" THEN Fails(c) ELSE IF Finished(c) THEN Asks(c, "fetch")
               ELSE [caller[c] EXCEPT !.step = "asleep", !.woken = instant + 1])
    /\ UNCHANGED <<budgetVars, pceJob>>
FetchCollection(c) ==
    /\ Sends(c, "fetch") /\ Then(c, Ends(c, pceJob[c].flows, FALSE))
    /\ UNCHANGED <<budgetVars, pceJob>>

-----------------------------------------------------------------------------
(* The PCE (external).                                                     *)

Becomes(c, job) == pceJob' = [pceJob EXCEPT ![c] = job] /\ UNCHANGED <<budgetVars, caller>>
\* A job that nobody asks for any more is left as it is.
JobRuns(c) ==
    /\ caller[c].step \notin {"ok", "failed"}
    /\ \/ pceJob[c].state = "hidden" /\ Becomes(c, [pceJob[c] EXCEPT !.state = "queued"])
       \/ pceJob[c].state = "queued" /\ \E s \in {"completed", "failed"} : Becomes(c, [pceJob[c] EXCEPT !.state = s])
       \/ pceJob[c].rules = "queued" /\ \E s \in {"completed", "failed"} : Becomes(c, [pceJob[c] EXCEPT !.rules = s])
       \/ Finished(c) /\ ~pceJob[c].file /\ Becomes(c, [pceJob[c] EXCEPT !.file = TRUE])

CallerSteps(c) ==
    \/ GetsToken(c) \/ NoBudget(c) \/ SendsTooLate(c) \/ SendFails(c) \/ SessionRepeats(c)
    \/ SubmitLost(c) \/ SubmitTaken(c) \/ SubmitThrottled(c) \/ SubmitsAgain(c) \/ PollAnswers(c) \/ Wakes(c) \/ UpdateRules(c)
    \/ Download(c) \/ Delete(c) \/ Page(c) \/ StartCollection(c) \/ PollJob(c) \/ FetchCollection(c)

ClientNext ==
    \/ \E c \in Callers : QueryBegins(c) \/ CollectionBegins(c) \/ CallerSteps(c) \/ JobRuns(c)
    \/ SetRate \/ OtherRequest \/ InstantPasses

-----------------------------------------------------------------------------
\* A read of the PCE gives all of it or fails: a query's rows are all its file holds, said to be capped if more
\* matched than it may return, with the draft computed if it was asked for; a collection is never its first page.
WholeOrNothing ==
    \A c \in Callers : caller[c].step = "ok" =>
        /\ caller[c].rows = pceJob[c].flows
        /\ caller[c].kind # "collection" => caller[c].capped = (pceJob[c].matches >= MaxResults)
        /\ caller[c].kind = "draft" => pceJob[c].rules = "completed"

\* A query is submitted at most once, whatever is throttled or lost: a POST after a lost answer would run twice.
SubmittedOnce == \A c \in Callers : pceJob[c].made <= 1

\* The tokens given out never exceed what the rates in force so far allow, also when the rate changes.
BudgetIsKept == granted <= earned /\ limiter.tokens <= Burst[limiter.rate]

\* No request of a query but its deletion is sent for the first time at its deadline or later, however long the
\* budget was waited for, and none follows one that was repeated too late.  The repeats themselves, of a throttled
\* POST and those of the session, may be later.
DeadlineIsKept == \A c \in Callers : caller[c].step # "idle" => caller[c].sent < caller[c].deadline

\* What the PCE client hands back is whole, and was asked for once, within the budget and the deadline
\* (async_query, RateLimiter, paging).
PceIsReadWhole == WholeOrNothing /\ SubmittedOnce /\ BudgetIsKept /\ DeadlineIsKept
=============================================================================
