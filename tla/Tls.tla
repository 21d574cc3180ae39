-------------------------------- MODULE Tls --------------------------------
(***************************************************************************)
(* The web UI's certificate: the self-signed pair and its renewal, the     *)
(* request to a CA and its import, the settings that choose between them,  *)
(* and the start that loads the pair.  Pages and the daily renewal run at  *)
(* once and share no lock; a pair is two files, written one after the      *)
(* other.  A key is a number; a certificate is the number of its key.      *)
(***************************************************************************)
EXTENDS Integers, FiniteSets

CONSTANTS
    Workers,        \* requests and jobs that run at once
    MaxKeys,        \* bound: keys generated
    MaxTlsSaves,    \* bound: saves of the certificate page
    MaxTlsStops     \* bound: stops of the service

ASSUME TlsAssumption == Workers # {} /\ "start" \notin Workers /\ MaxKeys \in Nat

VARIABLES
    pem,        \* the files of config/tls: [selfKey, selfCert, csrKey, tmp, caKey, caCert]
    due,        \* the self-signed certificate is due for renewal
    chosen,     \* settings.web.tls: [enabled, mode, pair]: pair: which files "provided" names
    running,    \* down, starting, up
    work,       \* worker -> the operation it is in
    keysMade,   \* the number of the last key generated
    asked,      \* history: keys a request to the CA was made for
    overlapped, \* history: two writers of one pair met
    cutShort,   \* history: a writer was cut off by a stop
    startFailed,\* history: a start found the pair unusable
    tlsCount    \* [saves, stops]

tlsVars == <<pem, due, chosen, running, work, keysMade, asked, overlapped, cutShort, startFailed, tlsCount>>

Missing == 0
Torn == -1
Resting == [op |-> "none", step |-> "none", key |-> 0, enabled |-> TRUE, mode |-> "self_signed", pair |-> "own"]
Everyone == Workers \cup {"start"}

\* load_cert_chain: the certificate and the key are there and belong together; "own" is the operator's own pair.
Loads(cert, key) == cert > 0 /\ cert = key
InUseLoads(files, choice) ==
    CASE choice.mode = "self_signed" -> Loads(files.selfCert, files.selfKey)
      [] choice.pair = "ca" -> Loads(files.caCert, files.caKey)
      [] OTHER -> TRUE

\* ensure_self_signed: missing, unreadable (cert_has_san) or due.  The key itself is not read.
ToRenew == pem.selfCert = Missing \/ pem.selfKey = Missing \/ pem.selfCert = Torn \/ due

AtRest(w) == work[w].op = "none"
NewKey == keysMade < MaxKeys /\ keysMade' = keysMade + 1

TlsInit ==
    /\ pem = [selfKey |-> Missing, selfCert |-> Missing, csrKey |-> Missing, tmp |-> Missing, caKey |-> Missing, caCert |-> Missing]
    /\ due = FALSE /\ chosen = [enabled |-> TRUE, mode |-> "self_signed", pair |-> "own"] /\ running = "down"
    /\ work = [w \in Everyone |-> Resting] /\ keysMade = 0 /\ asked = {} /\ overlapped = FALSE /\ cutShort = FALSE
    /\ startFailed = FALSE /\ tlsCount = [saves |-> 0, stops |-> 0]

-----------------------------------------------------------------------------
(* generate_self_signed, from the page, the renewal job and the start.     *)

Generate(w) ==
    /\ NewKey
    /\ work' = [work EXCEPT ![w] = [Resting EXCEPT !.op = "generate", !.step = "key", !.key = keysMade + 1]]
    /\ overlapped' = (overlapped \/ \E x \in Everyone \ {w} : work[x].op = "generate")

Renew(w) ==
    /\ running = "up" /\ AtRest(w) /\ chosen.mode = "self_signed" /\ Generate(w)
    /\ UNCHANGED <<pem, due, chosen, running, asked, cutShort, startFailed, tlsCount>>
\* _tls_renew_job (auto_renew is on)
RenewJob(w) ==
    /\ running = "up" /\ AtRest(w) /\ chosen.enabled /\ chosen.mode = "self_signed" /\ ToRenew /\ Generate(w)
    /\ UNCHANGED <<pem, due, chosen, running, asked, cutShort, startFailed, tlsCount>>
WriteSelfKey(w) ==
    /\ work[w].op = "generate" /\ work[w].step = "key"
    /\ pem' = [pem EXCEPT !.selfKey = work[w].key] /\ work' = [work EXCEPT ![w].step = "cert"]
    /\ UNCHANGED <<due, chosen, running, keysMade, asked, overlapped, cutShort, startFailed, tlsCount>>
WriteSelfCert(w) ==
    /\ work[w].op = "generate" /\ work[w].step = "cert"
    /\ pem' = [pem EXCEPT !.selfCert = work[w].key] /\ due' = FALSE /\ work' = [work EXCEPT ![w] = Resting]
    /\ UNCHANGED <<chosen, running, keysMade, asked, overlapped, cutShort, startFailed, tlsCount>>
GrowsOld ==
    /\ pem.selfCert > 0 /\ ~due /\ due' = TRUE
    /\ UNCHANGED <<pem, chosen, running, work, keysMade, asked, overlapped, cutShort, startFailed, tlsCount>>

-----------------------------------------------------------------------------
(* generate_csr and import_signed_cert.                                    *)

\* The pending key is kept apart from the key in use.
\* Mutation of CsrFiles: written in place of the key in use, as 5.x did.
CsrFilesInPlace(key) == [pem EXCEPT !.csrKey = key, !.caKey = key]
CsrFiles(key) == [pem EXCEPT !.csrKey = key]
Csr(w) ==
    /\ running = "up" /\ AtRest(w) /\ NewKey /\ pem' = CsrFiles(keysMade + 1) /\ asked' = asked \cup {keysMade + 1}
    /\ overlapped' = (overlapped \/ \E x \in Everyone : work[x].op = "import" /\ work[x].step = "move")
    /\ UNCHANGED <<due, chosen, running, work, cutShort, startFailed, tlsCount>>

\* Mutation of Matches: any certificate is taken while a request is pending.
MatchesAny(key) == pem.csrKey > 0
Matches(key) == pem.csrKey = key
\* A certificate made for the request of key is pasted; one for another request is refused.
ImportChecks(w) ==
    /\ running = "up" /\ AtRest(w)
    /\ \E key \in asked : Matches(key) /\ pem' = [pem EXCEPT !.tmp = key]
                          /\ work' = [work EXCEPT ![w] = [Resting EXCEPT !.op = "import", !.step = "move", !.key = key]]
    /\ UNCHANGED <<due, chosen, running, keysMade, asked, overlapped, cutShort, startFailed, tlsCount>>
\* os.replace of the key, then of the certificate; either is gone if another import took it.
ImportMovesKey(w) ==
    /\ work[w].op = "import" /\ work[w].step = "move"
    /\ IF pem.csrKey = Missing THEN work' = [work EXCEPT ![w] = Resting] /\ UNCHANGED pem
       ELSE work' = [work EXCEPT ![w].step = "cert"] /\ pem' = [pem EXCEPT !.caKey = pem.csrKey, !.csrKey = Missing]
    /\ UNCHANGED <<due, chosen, running, keysMade, asked, overlapped, cutShort, startFailed, tlsCount>>
ImportMovesCert(w) ==
    /\ work[w].op = "import" /\ work[w].step = "cert"
    /\ IF pem.tmp = Missing THEN work' = [work EXCEPT ![w] = Resting] /\ UNCHANGED pem
       ELSE work' = [work EXCEPT ![w].step = "save"] /\ pem' = [pem EXCEPT !.caCert = pem.tmp, !.tmp = Missing]
    /\ UNCHANGED <<due, chosen, running, keysMade, asked, overlapped, cutShort, startFailed, tlsCount>>
\* The settings follow, or are refused because someone saved in between: then the pair only lies there.
ImportSaves(w) ==
    /\ work[w].op = "import" /\ work[w].step = "save" /\ work' = [work EXCEPT ![w] = Resting]
    /\ chosen' \in {chosen, [chosen EXCEPT !.mode = "provided", !.pair = "ca"]}
    /\ UNCHANGED <<pem, due, running, keysMade, asked, overlapped, cutShort, startFailed, tlsCount>>

-----------------------------------------------------------------------------
(* update: a provided pair is tried before it is saved, if TLS is on.      *)

PairAccepted(enabled, mode, pair) == ~enabled \/ mode = "self_signed" \/ pair = "own" \/ Loads(pem.caCert, pem.caKey)
UpdateChecks(w) ==
    /\ running = "up" /\ AtRest(w) /\ tlsCount.saves < MaxTlsSaves /\ tlsCount' = [tlsCount EXCEPT !.saves = @ + 1]
    /\ \E enabled \in BOOLEAN, mode \in {"self_signed", "provided"}, pair \in {"own", "ca"} :
          /\ PairAccepted(enabled, mode, pair)
          /\ work' = [work EXCEPT ![w] = [Resting EXCEPT !.op = "update", !.step = "save", !.enabled = enabled,
                                                          !.mode = mode, !.pair = pair]]
    /\ UNCHANGED <<pem, due, chosen, running, keysMade, asked, overlapped, cutShort, startFailed>>
UpdateSaves(w) ==
    /\ work[w].op = "update" /\ work' = [work EXCEPT ![w] = Resting]
    /\ chosen' \in {chosen, [enabled |-> work[w].enabled, mode |-> work[w].mode, pair |-> work[w].pair]}
    /\ UNCHANGED <<pem, due, running, keysMade, asked, overlapped, cutShort, startFailed, tlsCount>>

-----------------------------------------------------------------------------
(* _tls_material, stops, and rescue reset-tls.                             *)

StartRenews ==
    /\ running = "down" /\ chosen.enabled /\ chosen.mode = "self_signed" /\ ToRenew /\ running' = "starting" /\ Generate("start")
    /\ UNCHANGED <<pem, due, chosen, asked, cutShort, startFailed, tlsCount>>
StartLoadsTls ==
    /\ running \in {"down", "starting"} /\ AtRest("start")
    /\ running = "down" => ~(chosen.enabled /\ chosen.mode = "self_signed" /\ ToRenew)
    /\ IF chosen.enabled => InUseLoads(pem, chosen) THEN running' = "up" /\ UNCHANGED startFailed
       ELSE running' = "down" /\ startFailed' = TRUE
    /\ UNCHANGED <<pem, due, chosen, work, keysMade, asked, overlapped, cutShort, tlsCount>>
\* A stop: files being written are written, torn or untouched; os.replace is all or nothing.
Leaves(value, writing) == {value} \cup (IF writing THEN {Torn} ELSE {})
StopNow ==
    /\ running # "down" /\ tlsCount.stops < MaxTlsStops /\ tlsCount' = [tlsCount EXCEPT !.stops = @ + 1] /\ running' = "down"
    /\ LET At(step) == \E w \in Everyone : work[w].op = "generate" /\ work[w].step = step
       IN \E key \in Leaves(pem.selfKey, At("key")), cert \in Leaves(pem.selfCert, At("cert")) :
             pem' = [pem EXCEPT !.selfKey = key, !.selfCert = cert]
    /\ cutShort' = (cutShort \/ \E w \in Everyone : work[w].op \in {"generate", "import"}) /\ work' = [w \in Everyone |-> Resting]
    /\ UNCHANGED <<due, chosen, keysMade, asked, overlapped, startFailed>>
ResetTls ==
    /\ running = "down" /\ (chosen.mode = "provided" \/ ~chosen.enabled)
    /\ tlsCount.saves < MaxTlsSaves /\ tlsCount' = [tlsCount EXCEPT !.saves = @ + 1]
    /\ chosen' = [enabled |-> TRUE, mode |-> "self_signed", pair |-> "own"]
    /\ UNCHANGED <<pem, due, running, work, keysMade, asked, overlapped, cutShort, startFailed>>

TlsNext ==
    \/ \E w \in Workers : Renew(w) \/ RenewJob(w) \/ Csr(w) \/ ImportChecks(w) \/ ImportMovesKey(w) \/ ImportMovesCert(w)
                          \/ ImportSaves(w) \/ UpdateChecks(w) \/ UpdateSaves(w)
    \/ \E w \in Everyone : WriteSelfKey(w) \/ WriteSelfCert(w)
    \/ GrowsOld \/ StartRenews \/ StartLoadsTls \/ StopNow \/ ResetTls

-----------------------------------------------------------------------------
Writing == \E w \in Everyone : work[w].op \in {"generate", "import"}
\* "preparing a renewal must not break the running certificate" (CSR_KEY): between operations the chosen pair loads,
\* or the next start makes a self-signed one; so a start fails only after a writer was cut off between its two files,
\* or two writers of one pair met.
StartsAgain ==
    /\ startFailed => cutShort \/ overlapped
    /\ ~Writing /\ ~cutShort /\ ~overlapped /\ chosen.enabled =>
          InUseLoads(pem, chosen) \/ (chosen.mode = "self_signed" /\ ToRenew)

\* A certificate is only ever put beside the key it was asked for with, also when several requests were made.
ImportedWasAsked == ~Writing /\ ~cutShort /\ ~overlapped => pem.caCert = pem.caKey /\ pem.caCert \in asked \cup {Missing}

\* The web UI's certificate can be used (web/tls.py, system_tls.py, runtime._tls_material).
CertificateIsUsable == StartsAgain /\ ImportedWasAsked
=============================================================================
