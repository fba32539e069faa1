------------------------------ MODULE MCServer ------------------------------
(* The parts of the server, and of the client's side of its doors, that    *)
(* share no state: the replay guard, the three limiters, the pool of       *)
(* connections to a masquerade origin, the TURN credentials, the life of a *)
(* connection, the relays of its streams, their peaks and the upgrade of   *)
(* the user database.  One of them runs, the others stand still.           *)
EXTENDS Gates, Prewarm, TurnCreds,
        ServerConn, StreamRelay, StreamPeaks, SchemaMigration

VARIABLE part

limiterVars == <<replayVars, shortIDVars, masqueradeVars, handshakeVars>>
gateVars == <<limiterVars, prewarmVars, credsVars>>
handlerVars == <<connVars, relayVars, peakVars, schemaVars>>
allVars == <<gateVars, handlerVars, part>>

\* Which of the good values a setting has at the start makes no difference.
FirstSettings == {Bad, CHOOSE s \in Settings : s # Bad}

MCInit ==
    /\ ReplayInit /\ ShortIDInit /\ MasqueradeInit /\ HandshakeInit /\ PrewarmInit /\ CredsInit
    /\ ConnInit /\ RelayInit /\ PeaksInit /\ SchemaInit
    /\ part \in {"replay", "shortid", "masquerade", "handshake", "prewarm", "creds",
                 "conn", "relay", "peaks", "schema"}
    /\ part # "creds" => hash = Bad /\ cfg = Bad /\ ~enabled
    /\ {hash, cfg} \subseteq FirstSettings
    /\ part # "conn" => ~bundle
    /\ part # "peaks" => ~queued
    /\ part # "schema" => storedDb = CHOOSE d \in Existing : TRUE

ReplayPart ==
    /\ part = "replay" /\ ReplayNext
    /\ UNCHANGED <<shortIDVars, masqueradeVars, handshakeVars, prewarmVars, credsVars, handlerVars,
                   part>>
ShortIDPart ==
    /\ part = "shortid" /\ ShortIDNext
    /\ UNCHANGED <<replayVars, masqueradeVars, handshakeVars, prewarmVars, credsVars, handlerVars,
                   part>>
MasqueradePart ==
    /\ part = "masquerade" /\ MasqueradeNext
    /\ UNCHANGED <<replayVars, shortIDVars, handshakeVars, prewarmVars, credsVars, handlerVars,
                   part>>
HandshakePart ==
    /\ part = "handshake" /\ HandshakeNext
    /\ UNCHANGED <<replayVars, shortIDVars, masqueradeVars, prewarmVars, credsVars, handlerVars,
                   part>>
PrewarmPart ==
    part = "prewarm" /\ PrewarmNext /\ UNCHANGED <<limiterVars, credsVars, handlerVars, part>>
CredsPart ==
    part = "creds" /\ CredsNext /\ UNCHANGED <<limiterVars, prewarmVars, handlerVars, part>>
ConnPart ==
    part = "conn" /\ ConnNext /\ UNCHANGED <<gateVars, relayVars, peakVars, schemaVars, part>>
RelayPart ==
    part = "relay" /\ RelayNext /\ UNCHANGED <<gateVars, connVars, peakVars, schemaVars, part>>
PeaksPart ==
    part = "peaks" /\ PeaksNext /\ UNCHANGED <<gateVars, connVars, relayVars, schemaVars, part>>
SchemaPart ==
    part = "schema" /\ SchemaNext /\ UNCHANGED <<gateVars, connVars, relayVars, peakVars, part>>

MCNext ==
    \/ ReplayPart \/ ShortIDPart \/ MasqueradePart \/ HandshakePart \/ PrewarmPart \/ CredsPart
    \/ ConnPart \/ RelayPart \/ PeaksPart \/ SchemaPart

\* Dialers run and time passes.
HandshakeFairness ==
    /\ WF_handshakeVars(part = "handshake" /\ HandshakeTick)
    /\ \A d \in Dialers : WF_handshakeVars(part = "handshake" /\ WaitStep(d))

\* The loop and Reload of the credentials run, a fetch ends by its timeout, and time
\* passes; a fetch that is tried again and again does not fail every time.
CredsFairness ==
    /\ WF_credsVars(part = "creds" /\ Loop)
    /\ WF_credsVars(part = "creds" /\ Reloading)
    /\ WF_credsVars(part = "creds" /\ CredsTick)
    /\ SF_credsVars(part = "creds" /\ FetchSucceeds)

MCSpec ==
    /\ MCInit /\ [][MCNext]_allVars
    /\ HandshakeFairness /\ CredsFairness /\ ConnFairness /\ RelayFairness

\* What the doors keep: no handshake passes twice, no identifier and no server is let
\* through more often than its rate, and a closed pool of prewarmed connections leaves
\* none open.
GatesHold == NoReplay /\ IDRateKept /\ HandshakeRateKept /\ NoneLeft

\* What the database keeps: no peak of a user's streams is lost on its way to the row,
\* no user or byte is lost by an upgrade, and the server finds the schema it needs.
RecordsKept == PeakArrives /\ UsersKept /\ SessionsStart
=============================================================================
