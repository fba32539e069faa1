------------------------------ MODULE VkClient ------------------------------
(***************************************************************************)
(* The relay sessions and the VK credentials of a VK TURN client           *)
(* (internal/transport/vkturn: client.go, credstore.go, and serveConn of   *)
(* server.go for the HELLO exchange).  Every dial first fills up the       *)
(* sessions to the number of workers, each over a TURN allocation made     *)
(* with shared credentials; then it opens its stream on one of them (see   *)
(* VkMux).  One acquisition of credentials at a time talks to VK.          *)
(*                                                                         *)
(* Abstractions.  Credentials, in memory and in the cache file, are absent,*)
(* fresh or past their expiry; the backoff window ends some time after it  *)
(* began, whatever credBackoffDuration made it.  Which of the live         *)
(* sessions the round robin takes is left open.  A restart loses what was  *)
(* in memory; savePersistentCreds renames a finished file over the old     *)
(* one, so the file is the old one or the new one.                         *)
(***************************************************************************)
EXTENDS Naturals, FiniteSets, FiniteSetsExt

CONSTANTS
    VkDialers,   \* goroutines in DialContext
    VkWorkers,   \* c.workers
    VkSessions   \* bound: session identifiers, used again

ASSUME VkClientAssumption == VkWorkers \in Nat \ {0} /\ VkSessions \subseteq Nat

VARIABLES
    vkClosed,    \* c.closed
    sessions,    \* c.sessions
    alive,       \* sessions whose done channel is open, in c.sessions or not yet
    creds,       \* c.creds: "none", "fresh" or "stale"
    file,        \* the cache file: the same
    backingOff,  \* now is before c.credBackoff
    inflight,    \* c.credInflight is not nil
    acquiring,   \* acquisitions running
    vkDial,      \* of each dialer: its place in the code
    need,        \* of each dialer: sessions still to connect
    held         \* the session a dialer has connected and not yet added

vkVars == <<vkClosed, sessions, alive, creds, file, backingOff, inflight, acquiring, vkDial,
            need, held>>
credVars == <<creds, file, backingOff, inflight, acquiring>>

Unconnected == VkSessions \ (alive \cup sessions \cup UNION {held[d] : d \in VkDialers})
Live == sessions \cap alive
At(d, pc) == vkDial' = [vkDial EXCEPT ![d] = pc]

VkInit ==
    /\ vkClosed = FALSE /\ sessions = {} /\ alive = {} /\ file \in {"none", "fresh", "stale"}
    /\ creds = file /\ backingOff = FALSE /\ inflight = FALSE /\ acquiring = 0
    /\ vkDial = [d \in VkDialers |-> "idle"] /\ need = [d \in VkDialers |-> 0]
    /\ held = [d \in VkDialers |-> {}]

-----------------------------------------------------------------------------
(* ensureSessions and pickSession. *)

\* The start of ensureSessions: the ended sessions are pruned, and what is missing
\* is counted once.
EnsureSessions(d) ==
    /\ vkDial[d] = "idle"
    /\ IF vkClosed THEN UNCHANGED <<sessions, need, vkDial>>   \* net.ErrClosed
       ELSE LET missing == VkWorkers - Cardinality(Live) IN
            /\ sessions' = Live
            /\ need' = [need EXCEPT ![d] = IF missing < 0 THEN 0 ELSE missing]
            /\ At(d, IF Cardinality(Live) >= VkWorkers THEN "pick" ELSE "connect")
    /\ UNCHANGED <<vkClosed, alive, credVars, held>>

\* getCredentials: the cached ones, stale ones while backing off, the acquisition
\* that is in flight, what an external program put into the file, or a new
\* acquisition.
GetCredentials(d) ==
    /\ vkDial[d] = "connect" /\ need[d] > 0
    /\ CASE creds = "fresh" \/ (backingOff /\ creds # "none") ->
              At(d, "dialing") /\ UNCHANGED credVars
         [] backingOff /\ creds = "none" ->
              At(d, "failed") /\ UNCHANGED credVars
         [] creds # "fresh" /\ ~backingOff /\ inflight ->
              At(d, "waiting") /\ UNCHANGED credVars
         [] creds # "fresh" /\ ~backingOff /\ ~inflight /\ file = "fresh" ->
              At(d, "dialing") /\ creds' = "fresh" /\ UNCHANGED <<file, backingOff, inflight, acquiring>>
         [] OTHER ->
              /\ At(d, "waiting") /\ inflight' = TRUE /\ acquiring' = acquiring + 1
              /\ UNCHANGED <<creds, file, backingOff>>
    /\ UNCHANGED <<vkClosed, sessions, alive, need, held>>

(* Fault: a dial that gives up takes the acquisition away. *)
WaitEndsClearing(d) ==
    /\ vkDial[d] = "waiting" /\ At(d, "failed") /\ inflight' = FALSE
    /\ UNCHANGED <<vkClosed, sessions, alive, creds, file, backingOff, acquiring, need, held>>

\* The dial's own context ends; the acquisition goes on without it.
WaitGivenUp(d) ==
    /\ vkDial[d] = "waiting" /\ At(d, "failed")
    /\ UNCHANGED <<vkClosed, sessions, alive, credVars, need, held>>

\* Its context may also end during the TURN allocation, KCP or HELLO, any of which
\* may fail; what was opened so far is closed again.
ConnectSessionFails(d) ==
    /\ vkDial[d] = "dialing" /\ At(d, "failed")
    /\ UNCHANGED <<vkClosed, sessions, alive, credVars, need, held>>

\* connectSession: allocation, KCP, HELLO and HELLO_OK; the session runs before
\* it is in the list.
ConnectSession(d) ==
    /\ vkDial[d] = "dialing"
    /\ Unconnected # {}
    /\ held' = [held EXCEPT ![d] = {Min(Unconnected)}]
    /\ alive' = alive \cup {Min(Unconnected)}
    /\ At(d, "adding")
    /\ UNCHANGED <<vkClosed, sessions, credVars, need>>

(* Fault: the client is not looked at again before a session is added. *)
AddSessionAlways(d) ==
    /\ vkDial[d] = "adding" /\ held' = [held EXCEPT ![d] = {}]
    /\ sessions' = sessions \cup held[d] /\ need' = [need EXCEPT ![d] = @ - 1]
    /\ At(d, IF need[d] = 1 THEN "pick" ELSE "connect")
    /\ UNCHANGED <<vkClosed, alive, credVars>>

\* A client closed meanwhile gets the session closed instead.
AddSession(d) ==
    /\ vkDial[d] = "adding" /\ held' = [held EXCEPT ![d] = {}]
    /\ IF vkClosed
         THEN /\ alive' = alive \ held[d] /\ At(d, "idle")
              /\ need' = [need EXCEPT ![d] = 0] /\ UNCHANGED sessions
         ELSE /\ sessions' = sessions \cup held[d] /\ need' = [need EXCEPT ![d] = @ - 1]
              /\ At(d, IF need[d] = 1 THEN "pick" ELSE "connect") /\ UNCHANGED alive
    /\ UNCHANGED <<vkClosed, credVars>>

\* After a failure activeSessions decides: some session is enough, without one the
\* next is tried, and after the last the dial fails.
AfterFailure(d) ==
    /\ vkDial[d] = "failed" /\ sessions' = Live
    /\ need' = [need EXCEPT ![d] = IF Live # {} THEN 0 ELSE @ - 1]
    /\ At(d, IF Live # {} THEN "pick" ELSE IF need[d] > 1 THEN "connect" ELSE "idle")
    /\ UNCHANGED <<vkClosed, alive, credVars, held>>

\* The context of the dial is done at the top of the loop.
LoopGivenUp(d) ==
    /\ vkDial[d] = "connect" /\ At(d, "idle") /\ need' = [need EXCEPT ![d] = 0]
    /\ UNCHANGED <<vkClosed, sessions, alive, credVars, held>>

\* pickSession; the dial opens its stream, or returns ErrNoSession or ErrClosed.
PickSession(d) ==
    /\ vkDial[d] = "pick" /\ At(d, "idle")
    /\ sessions' = IF vkClosed THEN sessions ELSE Live
    /\ UNCHANGED <<vkClosed, alive, credVars, need, held>>

-----------------------------------------------------------------------------
(* The acquisition and the rest of the world. *)

\* runCredentialAcquisition ends; whoever waits for the future gets its outcome.
Woken(pc) == vkDial' = [d \in VkDialers |-> IF vkDial[d] = "waiting" THEN pc ELSE vkDial[d]]

AcquireOk ==
    /\ acquiring > 0 /\ acquiring' = acquiring - 1 /\ inflight' = FALSE
    /\ creds' = "fresh" /\ backingOff' = FALSE
    /\ file' \in {"fresh", file}      \* persistLocked may fail
    /\ Woken("dialing")
    /\ UNCHANGED <<vkClosed, sessions, alive, need, held>>

AcquireFails ==
    /\ acquiring > 0 /\ acquiring' = acquiring - 1 /\ inflight' = FALSE
    /\ backingOff' = TRUE /\ Woken("failed")
    /\ UNCHANGED <<vkClosed, sessions, alive, creds, file, need, held>>

TimePasses ==
    /\ \/ creds = "fresh" /\ creds' = "stale" /\ UNCHANGED <<file, backingOff>>
       \/ file = "fresh" /\ file' = "stale" /\ UNCHANGED <<creds, backingOff>>
       \/ backingOff /\ backingOff' = FALSE /\ UNCHANGED <<creds, file>>
    /\ UNCHANGED <<vkClosed, sessions, alive, inflight, acquiring, vkDial, need, held>>

\* The panel writes credentials solved elsewhere.
Seed ==
    /\ file # "fresh" /\ file' = "fresh"
    /\ UNCHANGED <<vkClosed, sessions, alive, creds, backingOff, inflight, acquiring, vkDial, need,
                   held>>

SessionEnds(s) ==
    /\ s \in alive /\ alive' = alive \ {s}
    /\ UNCHANGED <<vkClosed, sessions, credVars, vkDial, need, held>>

\* Client.Close ends the sessions of the list.
CloseClient ==
    /\ ~vkClosed /\ vkClosed' = TRUE /\ alive' = alive \ sessions /\ sessions' = {}
    /\ UNCHANGED <<credVars, vkDial, need, held>>

\* The process starts anew: loadCachedCreds takes what the file has, expired or not.
Restart ==
    /\ vkClosed' = FALSE /\ sessions' = {} /\ alive' = {} /\ creds' = file
    /\ backingOff' = FALSE /\ inflight' = FALSE /\ acquiring' = 0
    /\ vkDial' = [d \in VkDialers |-> "idle"] /\ need' = [d \in VkDialers |-> 0]
    /\ held' = [d \in VkDialers |-> {}] /\ UNCHANGED file

VkStep(d) ==
    \/ EnsureSessions(d) \/ GetCredentials(d) \/ WaitGivenUp(d) \/ ConnectSessionFails(d)
    \/ ConnectSession(d) \/ AddSession(d) \/ AfterFailure(d) \/ LoopGivenUp(d) \/ PickSession(d)

VkNext ==
    \/ \E d \in VkDialers : VkStep(d)
    \/ AcquireOk \/ AcquireFails \/ TimePasses \/ Seed \/ CloseClient \/ Restart
    \/ \E s \in VkSessions : SessionEnds(s)

VkSpec == VkInit /\ [][VkNext]_vkVars

-----------------------------------------------------------------------------
(* Properties. *)

\* At most one acquisition talks to VK, however many dials ask for credentials, give
\* up and ask again; while it runs nobody is told that none is in flight.
OneAcquisition == acquiring <= 1 /\ (inflight <=> acquiring = 1)

\* Close leaves no session running: one that a dial was connecting at the time is
\* ended by that dial.
ClosedHasNone ==
    vkClosed => sessions = {} /\ alive \subseteq UNION {held[d] : d \in VkDialers}
=============================================================================
