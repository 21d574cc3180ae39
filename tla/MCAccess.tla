------------------------------- MODULE MCAccess -------------------------------
(***************************************************************************)
(* What the rest of the service stands on, checked side by side: the PCE   *)
(* client, the settings file and its upgrades, signing in, certificates,   *)
(* the upgrade from 5.x, and the cache of blocked history.  They share no  *)
(* state, so a behaviour is one of one of them.                            *)
(***************************************************************************)
EXTENDS PceClient, SettingsFile, SignIn, Tls, Migration, Handover, BlockedHistory

VARIABLE part

OneToOne == [r \in Rates |-> r]
TwoAddresses == [b \in Browsers |-> IF b = "b1" THEN 1 ELSE 2]
SomeLists == {{}, {{1}}, {{1, 2}}, {{2}, {}}, {{}}}

accessVars == <<clientVars, settingsVars, upgradeCase, signInVars, tlsVars, migrationVars, handoverVars, historyVars, part>>

\* A 5.x that had collected nothing yet.
NothingLeft == v5.order = <<>> /\ v5.cacheOn /\ v5.cursor = 0 /\ v5.late = NoTime /\ ~v5.twice

\* Only the part that runs begins in every way it can.
AccessInit ==
    /\ part \in {"client", "settings", "upgrade", "signin", "tls", "migration", "handover", "blocked"}
    /\ ClientInit /\ (part = "client" \/ limiter.rate = 1)
    /\ HistoryInit /\ (part = "blocked" \/ width = 1)
    /\ MigrationInit /\ (part = "migration" \/ userVersion = 0)
    /\ SettingsInit /\ SignInInit /\ UpgradeInit /\ TlsInit
    /\ HandoverInit /\ (part = "handover" \/ NothingLeft)

AccessNext ==
    \/ part = "client" /\ ClientNext
       /\ UNCHANGED <<settingsVars, upgradeCase, signInVars, tlsVars, migrationVars, handoverVars, historyVars, part>>
    \/ part = "settings" /\ SettingsNext
       /\ UNCHANGED <<clientVars, upgradeCase, signInVars, tlsVars, migrationVars, handoverVars, historyVars, part>>
    \/ part = "upgrade" /\ AskUpgrade
       /\ UNCHANGED <<clientVars, settingsVars, signInVars, tlsVars, migrationVars, handoverVars, historyVars, part>>
    \/ part = "signin" /\ SignInNext
       /\ UNCHANGED <<clientVars, settingsVars, upgradeCase, tlsVars, migrationVars, handoverVars, historyVars, part>>
    \/ part = "tls" /\ TlsNext
       /\ UNCHANGED <<clientVars, settingsVars, upgradeCase, signInVars, migrationVars, handoverVars, historyVars, part>>
    \/ part = "migration" /\ MigrationNext
       /\ UNCHANGED <<clientVars, settingsVars, upgradeCase, signInVars, tlsVars, handoverVars, historyVars, part>>
    \/ part = "handover" /\ HandoverNext
       /\ UNCHANGED <<clientVars, settingsVars, upgradeCase, signInVars, tlsVars, migrationVars, historyVars, part>>
    \/ part = "blocked" /\ HistoryNext
       /\ UNCHANGED <<clientVars, settingsVars, upgradeCase, signInVars, tlsVars, migrationVars, handoverVars, part>>

\* What is read, from the PCE or from the cache of blocked history, is what the PCE and the store hold (pce/,
\* services/analysis/blocked_history.py).
WhatIsReadIsWhole == (part = "client" => PceIsReadWhole) /\ (part = "blocked" => CachedAsLive)

\* Sign-in state and certificates each keep their promise (web/auth.py, web/security.py, web/tls.py).
DoorIsSound == (part = "signin" => SignInIsSound) /\ (part = "tls" => CertificateIsUsable)

\* An upgrade, of the settings file and from 5.x, loses and repeats nothing (settings/upgrade.py, migrate/).
UpgradesAreFaithful ==
    /\ part = "upgrade" => UpgradeKeepsWhatWasChosen
    /\ part = "migration" => UpgradeIsFaithful
    /\ part = "handover" => HandoverIsSeamless

AccessSpec == AccessInit /\ [][AccessNext]_accessVars
=============================================================================
