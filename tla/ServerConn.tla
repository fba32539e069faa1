----------------------------- MODULE ServerConn -----------------------------
(***************************************************************************)
(* The server's connections, from Accept to the end of their handler, with *)
(* what they share: the wait group and activeConns, the replay guard, the  *)
(* rows of user_sessions, the tracker KillUser closes connections by, and  *)
(* Close.  A handler that waits for its peer is in a state of its own;     *)
(* what the peer sends is a nondeterministic choice.  There is one         *)
(* account, a row of the user database; FragPoCSamePort is off.            *)
(***************************************************************************)
EXTENDS Naturals, FiniteSets

CONSTANTS
    ServerConns,
    Keys        \* (SessionID, ephemeral key) pairs of authentic handshakes

VARIABLES
    at,         \* where the handler of each connection is
    open,       \* whether its socket is open
    key,        \* the key its handshake carried
    active,     \* activeConns
    seenHellos,       \* keys in the replay window
    sessionRows,       \* connections with a user_sessions row
    trackedConns,    \* connections in the user's tracker slot
    doomed,     \* connections KillUser has taken from the slot and not closed yet
    bundle,     \* config.BundleEnabled
    account,    \* "ok" or "suspended": over quota or expired
    connPhase,      \* of Close
    connPassed      \* connections past the replay check, by key (history)

connVars == <<at, open, key, active, seenHellos, sessionRows, trackedConns, doomed, account, bundle, connPhase, connPassed>>

NoKey == "none"
Listening == connPhase \in {"running", "cancelled"}
CtxDone == connPhase # "running"
DBOpen == connPhase # "closed"

Waiting == {"hello", "jitter", "proxy", "reject", "tls", "serve"}  \* for peer or timer
Handlers == Waiting \cup {"spawned", "lookup", "replay", "start", "track", "ending", "return"}
Authenticated == {"track", "tls", "serve", "ending"}

ConnInit ==
    /\ at = [c \in ServerConns |-> "none"] /\ open = [c \in ServerConns |-> FALSE]
    /\ key = [c \in ServerConns |-> NoKey]
    /\ active = {} /\ seenHellos = {} /\ sessionRows = {} /\ trackedConns = {} /\ doomed = {}
    /\ account = "ok" /\ bundle \in BOOLEAN /\ connPhase = "running"
    /\ connPassed = [k \in Keys |-> 0]

Go(c, where) == at' = [at EXCEPT ![c] = where]
shared == <<active, seenHellos, sessionRows, trackedConns, doomed, account, bundle, connPhase, connPassed>>

-----------------------------------------------------------------------------
(* Serve *)

AcceptConn(c) ==
    /\ at[c] = "none" /\ Listening
    /\ Go(c, "accepted") /\ open' = [open EXCEPT ![c] = TRUE]
    /\ UNCHANGED <<key, shared>>

\* wg.Add and go
Spawn(c) ==
    /\ at[c] = "accepted"
    /\ Go(c, "spawned")
    /\ UNCHANGED <<open, key, shared>>

-----------------------------------------------------------------------------
(* handleConnection *)

Register(c) ==
    /\ at[c] = "spawned"
    /\ Go(c, "hello") /\ active' = active \cup {c}
    /\ UNCHANGED <<open, key, seenHellos, sessionRows, trackedConns, doomed, account, bundle, connPhase, connPassed>>

\* No PROXY header, no ClientHello, or none in time.
HelloFails(c) ==
    /\ at[c] = "hello"
    /\ Go(c, "return")
    /\ UNCHANGED <<open, key, shared>>

\* doMasquerade: it returns without an origin; the limiter drops or forwards.
Masquerade(c) == \E where \in {"return", "jitter", "proxy"} : Go(c, where)

\* Not one of ours, or an unknown short id.
HelloForeign(c) ==
    /\ at[c] = "hello" /\ open[c]
    /\ Masquerade(c)
    /\ UNCHANGED <<open, key, shared>>

\* The short id is over its rate: handleReplayRejected.
HelloLimited(c) ==
    /\ at[c] = "hello" /\ open[c]
    /\ Go(c, "reject")
    /\ UNCHANGED <<open, key, shared>>

HelloAuthentic(c, k) ==
    /\ at[c] = "hello" /\ open[c]
    /\ Go(c, "lookup") /\ key' = [key EXCEPT ![c] = k]
    /\ UNCHANGED <<open, shared>>

\* The registry: a suspended account goes on to the config bundle, CONNECT being
\* refused to it, or without the bundle to the masquerade.
Lookup(c) ==
    /\ at[c] = "lookup"
    /\ IF account = "suspended" /\ ~bundle
         THEN Masquerade(c)
         ELSE Go(c, "replay")
    /\ UNCHANGED <<open, key, shared>>

\* Fault: the key is looked up and not marked.
ReplayUnmarked(c) ==
    /\ at[c] = "replay"
    /\ IF key[c] \in seenHellos
         THEN Go(c, "reject") /\ UNCHANGED connPassed
         ELSE Go(c, "start") /\ connPassed' = [connPassed EXCEPT ![key[c]] = @ + 1]
    /\ UNCHANGED <<open, key, active, seenHellos, sessionRows, trackedConns, doomed, account, bundle, connPhase>>

\* replayGuard.checkV1
Replay(c) ==
    /\ at[c] = "replay"
    /\ IF key[c] \in seenHellos
         THEN Go(c, "reject") /\ UNCHANGED <<seenHellos, connPassed>>
         ELSE /\ Go(c, "start") /\ seenHellos' = seenHellos \cup {key[c]}
              /\ connPassed' = [connPassed EXCEPT ![key[c]] = @ + 1]
    /\ UNCHANGED <<open, key, active, sessionRows, trackedConns, doomed, account, bundle, connPhase>>

\* The window has passed.
Forget(k) ==
    /\ k \in seenHellos
    /\ seenHellos' = seenHellos \ {k} /\ connPassed' = [connPassed EXCEPT ![k] = 0]
    /\ UNCHANGED <<at, open, key, active, sessionRows, trackedConns, doomed, account, bundle, connPhase>>

\* userdb.StartSession; its error is logged only.
StartUserSession(c) ==
    /\ at[c] = "start"
    /\ Go(c, "track")
    /\ sessionRows' = IF DBOpen THEN sessionRows \cup {c} ELSE sessionRows
    /\ UNCHANGED <<open, key, active, seenHellos, trackedConns, doomed, account, bundle, connPhase, connPassed>>

-----------------------------------------------------------------------------
(* handleAuthenticated and serveH2 *)

TrackConn(c) ==
    /\ at[c] = "track"
    /\ Go(c, "tls") /\ trackedConns' = trackedConns \cup {c}
    /\ UNCHANGED <<open, key, active, seenHellos, sessionRows, doomed, account, bundle, connPhase, connPassed>>

\* The handshake: interrupted when the server's context ends.
TLSSucceeds(c) ==
    /\ at[c] = "tls" /\ open[c] /\ ~CtxDone
    /\ Go(c, "serve")
    /\ UNCHANGED <<open, key, shared>>

TLSFails(c) ==
    /\ at[c] = "tls"
    /\ Go(c, "ending") /\ open' = [open EXCEPT ![c] = FALSE]
    /\ UNCHANGED <<key, shared>>

\* ServeConn returns once the connection is gone.
ServeEnds(c) ==
    /\ at[c] = "serve" /\ ~open[c]
    /\ Go(c, "ending")
    /\ UNCHANGED <<open, key, shared>>

\* The deferred untrack and EndSession.
Ending(c) ==
    /\ at[c] = "ending"
    /\ Go(c, "return") /\ trackedConns' = trackedConns \ {c}
    /\ sessionRows' = IF DBOpen THEN sessionRows \ {c} ELSE sessionRows
    /\ UNCHANGED <<open, key, active, seenHellos, doomed, account, bundle, connPhase, connPassed>>

-----------------------------------------------------------------------------
(* The other ways a handler ends *)

\* handleReplayRejected: the handshake fails, or is interrupted.
RejectEnds(c) ==
    /\ at[c] = "reject"
    /\ Go(c, "return") /\ open' = [open EXCEPT ![c] = FALSE]
    /\ UNCHANGED <<key, shared>>

\* The jitter has passed, or the context has ended.
JitterEnds(c) ==
    /\ at[c] = "jitter"
    /\ Go(c, "return")
    /\ UNCHANGED <<open, key, shared>>

\* proxyTo ends with its peers, or at MaxDuration.
ProxyEnds(c) ==
    /\ at[c] = "proxy"
    /\ Go(c, "return")
    /\ UNCHANGED <<open, key, shared>>

\* The deferred Close, activeConns.Delete and wg.Done.
Return(c) ==
    /\ at[c] = "return"
    /\ Go(c, "gone") /\ open' = [open EXCEPT ![c] = FALSE] /\ active' = active \ {c}
    /\ UNCHANGED <<key, seenHellos, sessionRows, trackedConns, doomed, account, bundle, connPhase, connPassed>>

PeerCloses(c) ==
    /\ open[c]
    /\ open' = [open EXCEPT ![c] = FALSE]
    /\ UNCHANGED <<at, key, shared>>

\* The account goes over its quota or expires: the registry says so from now on.
Suspend ==
    /\ account = "ok"
    /\ account' = "suspended"
    /\ UNCHANGED <<at, open, key, active, seenHellos, sessionRows, trackedConns, doomed, connPhase, connPassed, bundle>>

\* Fault: of the connections in the slot only one is taken.
KillUserOne ==
    /\ account = "suspended" /\ trackedConns # {}
    /\ doomed' = doomed \cup {CHOOSE c \in trackedConns : TRUE} /\ trackedConns' = {}
    /\ UNCHANGED <<at, open, key, active, seenHellos, sessionRows, account, bundle, connPhase, connPassed>>

\* KillUser, called by the accounting hooks, empties the slot under its lock ...
KillUser ==
    /\ account = "suspended" /\ trackedConns # {}
    /\ doomed' = doomed \cup trackedConns /\ trackedConns' = {}
    /\ UNCHANGED <<at, open, key, active, seenHellos, sessionRows, account, bundle, connPhase, connPassed>>

\* ... and closes what it held after that.
KillCloses(c) ==
    /\ c \in doomed
    /\ doomed' = doomed \ {c} /\ open' = [open EXCEPT ![c] = FALSE]
    /\ UNCHANGED <<at, key, active, seenHellos, sessionRows, trackedConns, account, bundle, connPhase, connPassed>>

-----------------------------------------------------------------------------
(* Close *)

CancelDeadline ==
    /\ connPhase = "running" /\ connPhase' = "cancelled"
    /\ UNCHANGED <<at, open, key, active, seenHellos, sessionRows, trackedConns, doomed, account, bundle, connPassed>>

CloseListener ==
    /\ connPhase = "cancelled" /\ connPhase' = "ranging"
    /\ UNCHANGED <<at, open, key, active, seenHellos, sessionRows, trackedConns, doomed, account, bundle, connPassed>>

\* Fault: the connections are left to their peers.
CloseActiveNone ==
    /\ connPhase = "ranging" /\ connPhase' = "waiting"
    /\ UNCHANGED <<at, open, key, active, seenHellos, sessionRows, trackedConns, doomed, account, bundle, connPassed>>

CloseActive ==
    /\ connPhase = "ranging" /\ connPhase' = "waiting"
    /\ open' = [c \in ServerConns |-> open[c] /\ c \notin active]
    /\ UNCHANGED <<at, key, active, seenHellos, sessionRows, trackedConns, doomed, account, bundle, connPassed>>

\* wg.Wait, then the database is closed.
ConnsWaited ==
    /\ connPhase = "waiting" /\ \A c \in ServerConns : at[c] \notin Handlers
    /\ connPhase' = "closed"
    /\ UNCHANGED <<at, open, key, active, seenHellos, sessionRows, trackedConns, doomed, account, bundle, connPassed>>

CloseServer == CancelDeadline \/ CloseListener \/ CloseActive \/ ConnsWaited

\* What a handler does without its peer.
Step(c) ==
    \/ Spawn(c) \/ Register(c) \/ HelloFails(c) \/ Lookup(c) \/ Replay(c)
    \/ StartUserSession(c) \/ TrackConn(c) \/ TLSFails(c) \/ ServeEnds(c) \/ Ending(c)
    \/ RejectEnds(c) \/ JitterEnds(c) \/ ProxyEnds(c) \/ Return(c)

ConnNext ==
    \/ \E c \in ServerConns : AcceptConn(c) \/ Step(c) \/ HelloForeign(c) \/ HelloLimited(c)
                        \/ TLSSucceeds(c) \/ PeerCloses(c) \/ KillCloses(c)
                        \/ \E k \in Keys : HelloAuthentic(c, k)
    \/ \E k \in Keys : Forget(k)
    \/ Suspend \/ KillUser \/ CloseServer

ConnSpec == ConnInit /\ [][ConnNext]_connVars

\* A handshake has no deadline: it ends with the socket or the server's context.
Stalled(c) == at[c] \in {"tls", "reject"} /\ open[c] /\ ~CtxDone

\* Handlers, KillUser and Close run.  The read deadline ends the wait for a
\* hello, the timer the jitter, IdleTimeout and MaxDuration the proxying.
ConnFairness ==
    WF_connVars(\/ \E c \in ServerConns : (~Stalled(c) /\ Step(c)) \/ KillCloses(c)
                \/ CloseListener \/ CloseActive \/ ConnsWaited)

-----------------------------------------------------------------------------
\* No two connections get past the replay check with the same handshake within
\* the window.
HandshakeUsedOnce == \A k \in Keys : connPassed[k] <= 1

\* The tracker and user_sessions follow the connections in service.  KillUser
\* reaches every one: a connection in neither the tracker nor the hands of a
\* KillUser is closed already.  Nothing is kept of connections that ended, but
\* for rows left when the database was closed first.
SessionsMatch ==
    /\ \A c \in ServerConns : at[c] \in {"tls", "serve"} /\ open[c] => c \in trackedConns \cup doomed
    /\ trackedConns \subseteq {c \in ServerConns : at[c] \in {"tls", "serve", "ending"}}
    /\ \A c \in sessionRows : at[c] \in Authenticated \/ ~DBOpen

\* What a connection's handler keeps: a handshake is used once, and the rows of
\* user_sessions are those of the connections served.
ConnSafe == HandshakeUsedOnce /\ SessionsMatch

\* Close returns, though no peer ever closes.
ServerCloseReturns == []<>(connPhase \in {"running", "closed"})
=============================================================================
