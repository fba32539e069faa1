---------------------------- MODULE ConfigBroker ----------------------------
(***************************************************************************)
(* Electing the worker that carries the password (internal/wgturnclient:   *)
(* configBroker in group.go, the BIND exchange in protocol.go and the part *)
(* of RunSession before the worker registers).                             *)
(*                                                                         *)
(* Every worker of a runner opens sessions in a loop.  One of them at a    *)
(* time may ask for the configuration and so present the password; the     *)
(* others join the server's Bond with the runner's token and wait while    *)
(* there is none.  The server may restart and forget the Bond while the    *)
(* sessions, which run over UDP, notice nothing.                           *)
(***************************************************************************)
EXTENDS Naturals, FiniteSets

CONSTANTS
    Workers,       \* workers of one runner, over all its rooms
    BindAttempts,  \* bondBindMaxAttempts
    MaxForgets    \* bound: server restarts

ASSUME BrokerAssumption ==
    /\ IsFiniteSet(Workers) /\ BindAttempts \in Nat \ {0} /\ MaxForgets \in Nat

VARIABLES
    sent, inFlight, recoveryNeeded,  \* the three atomics of configBroker
    wpc,        \* where each worker is in its loop
    getConf,    \* the worker holds the claim
    gotConfig,  \* configDelivered of the worker's session
    waits,      \* BIND_WAIT answers the session has had
    bond,       \* the server has a Bond of this run
    configCh,   \* a configuration is in the channel
    config,     \* OnConfig has been called
    restarts

flags == <<sent, inFlight, recoveryNeeded>>
server == <<bond, restarts>>
brokerVars == <<flags, wpc, getConf, gotConfig, waits, server, configCh, config>>

BrokerInit ==
    /\ sent = FALSE /\ inFlight = FALSE /\ recoveryNeeded = FALSE
    /\ wpc = [w \in Workers |-> "loop"]
    /\ getConf = [w \in Workers |-> FALSE] /\ gotConfig = [w \in Workers |-> FALSE]
    /\ waits = [w \in Workers |-> 0]
    /\ bond = FALSE /\ restarts = 0
    /\ configCh = FALSE /\ config = FALSE

BrokerAt(w, from, to) == wpc[w] = from /\ wpc' = [wpc EXCEPT ![w] = to]

-----------------------------------------------------------------------------
(* claim, one atomic load or compare-and-swap at a time. *)

LoadSent(w) ==
    /\ BrokerAt(w, "loop", IF sent THEN "loadRecovery" ELSE "casFirst")
    /\ UNCHANGED <<flags, getConf, gotConfig, waits, server, configCh, config>>

\* The first configuration: whoever sets inFlight.
CasFirst(w) ==
    /\ BrokerAt(w, "casFirst", "session")
    /\ inFlight' = TRUE /\ getConf' = [getConf EXCEPT ![w] = ~inFlight]
    /\ UNCHANGED <<sent, recoveryNeeded, gotConfig, waits, server, configCh, config>>

LoadRecovery(w) ==
    /\ BrokerAt(w, "loadRecovery", IF recoveryNeeded THEN "casAgain" ELSE "session")
    /\ UNCHANGED <<flags, getConf, gotConfig, waits, server, configCh, config>>

CasAgain(w) ==
    /\ BrokerAt(w, "casAgain", IF inFlight THEN "session" ELSE "casRecovery")
    /\ inFlight' = TRUE
    /\ UNCHANGED <<sent, recoveryNeeded, getConf, gotConfig, waits, server, configCh, config>>

\* The request may have been served meanwhile: inFlight is given back.
CasRecovery(w) ==
    /\ BrokerAt(w, "casRecovery", "session")
    /\ recoveryNeeded' = FALSE /\ inFlight' = recoveryNeeded
    /\ getConf' = [getConf EXCEPT ![w] = recoveryNeeded]
    /\ UNCHANGED <<sent, gotConfig, waits, server, configCh, config>>

Claim(w) == LoadSent(w) \/ CasFirst(w) \/ LoadRecovery(w) \/ CasAgain(w) \/ CasRecovery(w)

-----------------------------------------------------------------------------
(* The session up to the worker's registration. *)

\* Choosing the TURN server, the allocation or the DTLS handshake fails, or the
\* BIND exchange breaks for any reason but the wait.
SessionFails(w) ==
    /\ BrokerAt(w, "session", "complete")
    /\ UNCHANGED <<flags, getConf, gotConfig, waits, server, configCh, config>>

\* BIND with the password: the server makes the Bond, or has it already, and
\* answers with the configuration; a full channel counts as delivered.
BindConfig(w) ==
    /\ getConf[w] /\ BrokerAt(w, "session", "up")
    /\ bond' = TRUE /\ configCh' = TRUE
    /\ gotConfig' = [gotConfig EXCEPT ![w] = TRUE]
    /\ UNCHANGED <<flags, getConf, waits, restarts, config>>

\* The token alone joins a Bond there is.
BindOK(w) ==
    /\ ~getConf[w] /\ bond /\ BrokerAt(w, "session", "up")
    /\ UNCHANGED <<flags, getConf, gotConfig, waits, server, configCh, config>>

\* BIND_WAIT and the back-off before the next attempt: there is no Bond to join,
\* or the one with the password meets one that is still closing.
BindWait(w) ==
    /\ wpc[w] = "session" /\ (getConf[w] \/ ~bond)
    /\ waits[w] < BindAttempts
    /\ waits' = [waits EXCEPT ![w] = @ + 1]
    /\ UNCHANGED <<flags, wpc, getConf, gotConfig, server, configCh, config>>

\* "bind wait retries exhausted", which the count remembers.
BindExhausted(w) ==
    /\ waits[w] = BindAttempts /\ BrokerAt(w, "session", "complete")
    /\ waits' = [waits EXCEPT ![w] = @ + 1]
    /\ UNCHANGED <<flags, getConf, gotConfig, server, configCh, config>>

\* The session ends: its batch is rotated away, or its connection breaks.  Nothing
\* makes it: its reader passes over every timeout, so that a session whose server
\* has gone stays up until a rotation, which needs new credentials first.
SessionEnds(w) ==
    /\ BrokerAt(w, "up", "complete")
    /\ UNCHANGED <<flags, getConf, gotConfig, waits, server, configCh, config>>

-----------------------------------------------------------------------------
(* complete, one store at a time, and requestRecovery. *)

NextAttempt(w) ==
    /\ wpc' = [wpc EXCEPT ![w] = "loop"] /\ getConf' = [getConf EXCEPT ![w] = FALSE]
    /\ gotConfig' = [gotConfig EXCEPT ![w] = FALSE] /\ waits' = [waits EXCEPT ![w] = 0]

\* The claim is settled; an exhausted worker asks for a recovery first.
Settled(w) ==
    IF waits[w] > BindAttempts
      THEN /\ wpc' = [wpc EXCEPT ![w] = "loadSent"] /\ getConf' = [getConf EXCEPT ![w] = FALSE]
           /\ UNCHANGED <<gotConfig, waits>>
      ELSE NextAttempt(w)

\* Fault: every worker completes, whether it claimed or not.
CompleteAlways(w) ==
    /\ wpc[w] = "complete" /\ sent' = (sent \/ gotConfig[w])
    /\ wpc' = [wpc EXCEPT ![w] = IF gotConfig[w] THEN "clearRecovery" ELSE "release"]
    /\ UNCHANGED <<inFlight, recoveryNeeded, getConf, gotConfig, waits, server, configCh, config>>

Complete(w) ==
    /\ wpc[w] = "complete"
    /\ IF getConf[w]
         THEN /\ sent' = (sent \/ gotConfig[w])
              /\ wpc' = [wpc EXCEPT ![w] = IF gotConfig[w] THEN "clearRecovery" ELSE "release"]
              /\ UNCHANGED <<getConf, gotConfig, waits>>
         ELSE UNCHANGED sent /\ Settled(w)
    /\ UNCHANGED <<inFlight, recoveryNeeded, server, configCh, config>>

ClearRecovery(w) ==
    /\ BrokerAt(w, "clearRecovery", "release") /\ recoveryNeeded' = FALSE
    /\ UNCHANGED <<sent, inFlight, getConf, gotConfig, waits, server, configCh, config>>

ReleaseClaim(w) ==
    /\ wpc[w] = "release" /\ inFlight' = FALSE /\ Settled(w)
    /\ UNCHANGED <<sent, recoveryNeeded, server, configCh, config>>

\* Fault: an exhausted worker only tries again.
RequestRecoveryNever(w) ==
    /\ wpc[w] = "loadSent" /\ NextAttempt(w)
    /\ UNCHANGED <<flags, server, configCh, config>>

\* requestRecovery does nothing before the first configuration is complete.
RequestRecovery(w) ==
    /\ wpc[w] = "loadSent"
    /\ IF sent THEN BrokerAt(w, "loadSent", "storeRecovery") /\ UNCHANGED <<getConf, gotConfig, waits>>
               ELSE NextAttempt(w)
    /\ UNCHANGED <<flags, server, configCh, config>>

StoreRecovery(w) ==
    /\ wpc[w] = "storeRecovery" /\ recoveryNeeded' = TRUE /\ NextAttempt(w)
    /\ UNCHANGED <<sent, inFlight, server, configCh, config>>

-----------------------------------------------------------------------------

\* The goroutine in Start that hands on the first configuration and ends.
Consume ==
    /\ configCh /\ ~config /\ configCh' = FALSE /\ config' = TRUE
    /\ UNCHANGED <<flags, wpc, getConf, gotConfig, waits, server>>

\* The server restarts, or drops the Bond when nobody is joined to it.
ServerForgets ==
    /\ bond /\ restarts < MaxForgets
    /\ bond' = FALSE /\ restarts' = restarts + 1
    /\ UNCHANGED <<flags, wpc, getConf, gotConfig, waits, configCh, config>>

\* What a worker does by itself.
Attempt(w) ==
    \/ Claim(w) \/ BindConfig(w) \/ BindOK(w) \/ BindWait(w) \/ BindExhausted(w)
    \/ Complete(w) \/ ClearRecovery(w) \/ ReleaseClaim(w)
    \/ RequestRecovery(w) \/ StoreRecovery(w)

BrokerNext ==
    \/ \E w \in Workers : Attempt(w) \/ SessionFails(w) \/ SessionEnds(w)
    \/ Consume \/ ServerForgets

BrokerSpec == BrokerInit /\ [][BrokerNext]_brokerVars

-----------------------------------------------------------------------------
(* Properties. *)

Holding(w) ==
    \/ getConf[w] /\ wpc[w] \in {"session", "up", "complete", "clearRecovery", "release"}
    \/ wpc[w] = "casRecovery"

\* "Re-elect exactly one password-bearing owner": whatever loads and swaps of
\* claim and complete interleave, never two workers hold the claim, and inFlight
\* says whether one does.
OneOwner ==
    /\ \A v, w \in Workers : Holding(v) /\ Holding(w) => v = w
    /\ inFlight <=> \E w \in Workers : Holding(w)

\* The server has a Bond of this run, or nobody is there to make one: every worker
\* is in a session that has not ended, or the one with the claim is, whose end the
\* others wait for.
BondOrUp ==
    \/ bond
    \/ \A w \in Workers : wpc[w] = "up"
    \/ \E w \in Workers : wpc[w] = "up" /\ getConf[w]
=============================================================================
