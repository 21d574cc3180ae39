------------------------------- MODULE SignIn -------------------------------
(***************************************************************************)
(* Signing in to the web UI: the server-side list of live sessions, the    *)
(* signed cookie, password and name changes that end every other session,  *)
(* the attempt counter that outlives a restart, and the address list.      *)
(* Requests run on threads of their own: checking a password and hashing a *)
(* new one take long, so others run in between.                            *)
(***************************************************************************)
EXTENDS Integers, FiniteSets

CONSTANTS
    Browsers,     \* browsers that are used at once
    AddressOf,    \* browser -> the address its requests come from
    Lists,        \* address lists that may be saved: sets of entries, each a set of addresses
    Attempts,     \* "5 per minute": sign-ins and changes let through in one window
    MaxLogins,    \* bound: sign-ins
    MaxChanges,   \* bound: changes of the password or the name
    MaxListSaves, \* bound: saves of the address list
    MaxRestarts   \* bound: restarts and windows of the limiter

ASSUME SignInAssumption == Browsers # {} /\ AddressOf \in [Browsers -> UNION (UNION Lists)] /\ Attempts \in Nat

VARIABLES
    account,    \* the settings: [rev, password, name, key]: versions of each
    appKey,     \* app.secret_key
    sessions,   \* _active: the live session ids
    cookie,     \* browser -> its cookie: [sid, key, name]
    request,    \* browser -> the sign-in or change in progress
    proof,      \* history: session id -> the password version its holder proved
    late,       \* history: sessions whose sign-in was being checked while the password changed
    ended,      \* history: sessions that were signed out
    hits,       \* the limiter's counter in memory, for one route and address (app.py:103)
    snapshot,   \* rate_limits.json
    let,        \* history: attempts let through in this window
    allowed,    \* web.allowed_ips
    cutOff,     \* history: a save left out its own sender without being told to
    tally       \* [logins, changes, lists, restarts]

signInVars == <<account, appKey, sessions, cookie, request, proof, late, ended, hits, snapshot, let, allowed, cutOff, tally>>
limiterVars == <<hits, snapshot, let>>

NoSession == 0
NoCookie == [sid |-> NoSession, key |-> -1, name |-> -1]
NoRequest == [step |-> "none", kind |-> "login", account |-> [rev |-> 0, password |-> 0, name |-> 0, key |-> 0]]

\* is_allowed: an empty list lets every address in; an entry is an address, a network, or nothing that parses.
IsAllowed(list, address) == list = {} \/ \E entry \in list : address \in entry

\* ip_allowlist_gate, require_login and the user loader: the cookie is signed with the key in use, its session is
\* live and it names the present admin.
Serves(b) ==
    /\ IsAllowed(allowed, AddressOf[b]) /\ cookie[b].key = appKey
    /\ cookie[b].sid \in sessions /\ cookie[b].name = account.name

SignInInit ==
    /\ account = [rev |-> 0, password |-> 0, name |-> 0, key |-> 0] /\ appKey = 0 /\ sessions = {}
    /\ cookie = [b \in Browsers |-> NoCookie] /\ request = [b \in Browsers |-> NoRequest] /\ proof = <<>> /\ late = {} /\ ended = {}
    /\ hits = 0 /\ snapshot = 0 /\ let = 0 /\ allowed = {} /\ cutOff = FALSE
    /\ tally = [logins |-> 0, changes |-> 0, lists |-> 0, restarts |-> 0]

\* JsonFileStorage.incr: counted and written down before the request is looked at.
\* Mutation of Counted: the counter is kept in memory only.
CountedInMemory == /\ hits < Attempts /\ hits' = hits + 1 /\ UNCHANGED snapshot /\ let' = let + 1
Counted == /\ hits < Attempts /\ hits' = hits + 1 /\ snapshot' = hits' /\ let' = let + 1

-----------------------------------------------------------------------------
\* login: the password typed is the present one (a wrong one changes nothing but the counter).
LoginChecks(b) ==
    /\ request[b].step = "none" /\ tally.logins < MaxLogins /\ IsAllowed(allowed, AddressOf[b]) /\ Counted
    /\ request' = [request EXCEPT ![b] = [step |-> "checked", kind |-> "login", account |-> account]]
    /\ tally' = [tally EXCEPT !.logins = @ + 1]
    /\ UNCHANGED <<account, appKey, sessions, cookie, proof, late, ended, allowed, cutOff>>
\* Mutation of WithoutReplaced: a sign-in leaves the session it replaces alive.
WithoutReplacedNever(b) == sessions
WithoutReplaced(b) == sessions \ {cookie[b].sid}
LoginEnds(b) ==
    /\ request[b].step = "checked" /\ request[b].kind = "login"
    /\ LET sid == tally.logins * 10 + Cardinality(DOMAIN proof) + 1
       IN /\ sessions' = WithoutReplaced(b) \cup {sid} /\ ended' = ended \cup {cookie[b].sid}
          /\ cookie' = [cookie EXCEPT ![b] = [sid |-> sid, key |-> appKey, name |-> request[b].account.name]]
          /\ late' = IF request[b].account.password = account.password THEN late ELSE late \cup {sid}
          /\ proof' = [s \in DOMAIN proof \cup {sid} |-> IF s = sid THEN request[b].account.password ELSE proof[s]]
    /\ request' = [request EXCEPT ![b] = NoRequest]
    /\ UNCHANGED <<account, appKey, limiterVars, allowed, cutOff, tally>>
Logout(b) ==
    /\ request[b].step = "none" /\ Serves(b)
    /\ sessions' = sessions \ {cookie[b].sid} /\ ended' = ended \cup {cookie[b].sid}
    /\ UNCHANGED <<late, account, appKey, cookie, request, proof, limiterVars, allowed, cutOff, tally>>

\* change_password, change_username: the settings as they are now, the old password checked against them.
ChangeBegins(b, kind) ==
    /\ request[b].step = "none" /\ tally.changes < MaxChanges /\ Serves(b) /\ Counted
    /\ request' = [request EXCEPT ![b] = [step |-> "checked", kind |-> kind, account |-> account]]
    /\ tally' = [tally EXCEPT !.changes = @ + 1]
    /\ UNCHANGED <<account, appKey, sessions, cookie, proof, late, ended, allowed, cutOff>>
\* settings.update: refused if the settings were saved meanwhile.
SavedMeanwhile(b) == account.rev # request[b].account.rev
ChangeSaves(b) ==
    /\ request[b].step = "checked" /\ request[b].kind # "login"
    /\ IF SavedMeanwhile(b) THEN request' = [request EXCEPT ![b] = NoRequest] /\ UNCHANGED <<account, proof>>
       ELSE LET next == [account EXCEPT !.rev = @ + 1, !.key = account.rev + 1,
                                        !.password = IF request[b].kind = "password" THEN account.rev + 1 ELSE @,
                                        !.name = IF request[b].kind = "name" THEN account.rev + 1 ELSE @]
            IN /\ account' = next /\ request' = [request EXCEPT ![b] = [@ EXCEPT !.step = "saved", !.account = next]]
               /\ proof' = [s \in DOMAIN proof |-> IF s = cookie[b].sid THEN next.password ELSE proof[s]]
    /\ UNCHANGED <<appKey, sessions, cookie, late, ended, limiterVars, allowed, cutOff, tally>>
\* _only_this_session
\* Mutation of OnlyMine: the others stay signed in.
OnlyMineWithOthers(b) == sessions
OnlyMine(b) == sessions \cap {cookie[b].sid}
ChangeEnds(b) ==
    /\ request[b].step = "saved"
    /\ sessions' = OnlyMine(b) /\ appKey' = request[b].account.key
    /\ cookie' = [cookie EXCEPT ![b] = [@ EXCEPT !.key = request[b].account.key,
                                                 !.name = IF request[b].kind = "name" THEN request[b].account.name ELSE @]]
    /\ request' = [request EXCEPT ![b] = NoRequest]
    /\ UNCHANGED <<account, proof, late, ended, limiterVars, allowed, cutOff, tally>>

-----------------------------------------------------------------------------
\* update_security: a list that leaves out its sender is refused unless the sender confirms it.
\* Mutation of WouldLockOut: asked of the list in force.
WouldLockOutNow(list, b) == ~IsAllowed(allowed, AddressOf[b])
WouldLockOut(list, b) == ~IsAllowed(list, AddressOf[b])
SaveList(b) ==
    \E list \in Lists, confirmed \in BOOLEAN :
       /\ Serves(b) /\ tally.lists < MaxListSaves /\ list # allowed /\ (WouldLockOut(list, b) => confirmed)
       /\ allowed' = list /\ account' = [account EXCEPT !.rev = @ + 1]
       /\ cutOff' = (cutOff \/ (~confirmed /\ list # {} /\ AddressOf[b] \notin UNION list))
       /\ tally' = [tally EXCEPT !.lists = @ + 1]
       /\ UNCHANGED <<appKey, sessions, cookie, request, proof, late, ended, limiterVars>>

\* A restart signs everyone out (sessions are in memory); the counter is read back.
Restart ==
    /\ tally.restarts < MaxRestarts /\ tally' = [tally EXCEPT !.restarts = @ + 1]
    /\ sessions' = {} /\ appKey' = account.key /\ hits' = snapshot
    /\ request' = [b \in Browsers |-> NoRequest] /\ ended' = ended \cup DOMAIN proof
    /\ UNCHANGED <<late, account, cookie, proof, snapshot, let, allowed, cutOff>>
\* The limiter's window passes.
WindowPasses ==
    /\ hits > 0 /\ hits' = 0 /\ snapshot' = 0 /\ let' = 0 /\ tally.restarts < MaxRestarts /\ tally' = [tally EXCEPT !.restarts = @ + 1]
    /\ UNCHANGED <<account, appKey, sessions, cookie, request, proof, late, ended, allowed, cutOff>>
\* _prune_expired, and the cookie's own lifetime: a session runs out.
SessionExpires ==
    /\ \E s \in sessions : sessions' = sessions \ {s} /\ ended' = ended \cup {s}
    /\ UNCHANGED <<late, account, appKey, cookie, request, proof, limiterVars, allowed, cutOff, tally>>

SignInNext ==
    \/ \E b \in Browsers :
          LoginChecks(b) \/ LoginEnds(b) \/ Logout(b) \/ ChangeBegins(b, "password") \/ ChangeBegins(b, "name")
          \/ ChangeSaves(b) \/ ChangeEnds(b) \/ SaveList(b)
    \/ Restart \/ WindowPasses \/ SessionExpires

-----------------------------------------------------------------------------
Changing == \E b \in Browsers : request[b].step = "saved"
\* Once a change is through, every session that is served proved the present password, at sign-in or by making the
\* change; a sign-in that was being checked while the password changed is the only other one.
EveryOtherSessionEnds ==
    ~Changing => \A b \in Browsers : Serves(b) => proof[cookie[b].sid] = account.password \/ cookie[b].sid \in late

\* A session that was signed out, replaced, expired or lost in a restart is never live again.
EndedStaysEnded == sessions \cap ended = {}

\* The limiter lets through no more than its limit in a window, across restarts.
AttemptsAreCounted == let <= Attempts

\* Nobody cuts off their own address without having said so.
NoUnwantedLockout == ~cutOff

\* Who is let in is who proved the present password, as often as is allowed, from where it is allowed
\* (web/auth.py, web/security.py, system_security.py).
SignInIsSound == EveryOtherSessionEnds /\ EndedStaysEnded /\ AttemptsAreCounted /\ NoUnwantedLockout
=============================================================================
