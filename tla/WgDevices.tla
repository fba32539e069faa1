----------------------------- MODULE WgDevices -----------------------------
(***************************************************************************)
(* The WireGuard-over-DTLS listener and its devices (internal/wgturn:      *)
(* Server in server.go and wireguard.go, handleConn in conn.go).           *)
(*                                                                         *)
(* A connection that asks with GETCONF is authenticated, gets an address   *)
(* and a key for its device, which devices.json keeps over a restart, and  *)
(* then, like one that starts with READY or a raw packet, is proxied to    *)
(* the local WireGuard port by three goroutines under one context.         *)
(* Connections that start with a Bond frame are module Bond.               *)
(***************************************************************************)
EXTENDS Integers, FiniteSets, FiniteSetsExt

CONSTANTS
    WgConns,      \* DTLS connections; one that has ended may come again
    Proxied,      \* bound: those whose client goes on to send packets
    DeviceIds,
    LastAddress,  \* addresses are 2..LastAddress (250 in the code)
    MaxSessions,  \* bound: authentications as a panel user
    MaxRestarts,  \* bound: ends of the process
    NoPeer

ASSUME DevicesAssumption ==
    /\ IsFiniteSet(WgConns) /\ Proxied \subseteq WgConns /\ NoPeer \notin WgConns
    /\ LastAddress \in Nat /\ MaxSessions \in Nat /\ MaxRestarts \in Nat

VARIABLES
    srv,       \* Start: "down", "starting", "up", "serving", "draining", "returned"
    srvDone,   \* the context of Start
    devices,   \* devices, by identifier: the address and the key
    file,      \* the devices in devices.json; none when it is half written
    unsaved,   \* ghost: devices no save has reached the file with
    lost,      \* ghost: devices a start did not find in the file
    peers,     \* the WireGuard device: the key of each address
    identity,  \* identitiesByIP: the session of each address, 0 without one
    sessions,  \* session rows that are open
    madeKeys, madeSessions, restartsDone,
    mu,        \* the connection that holds Server.mu
    hpc,       \* handleConn
    device, who,  \* of the connection: its device and its session
    issued,    \* the configuration each device was last given
    pctxDone,  \* pctx of the proxied connection
    task,      \* its three goroutines
    deadline   \* of the read a goroutine is in, on clientConn or wgConn

serverVars == <<srv, srvDone, restartsDone>>
deviceVars == <<devices, file, unsaved, lost, peers, identity, sessions, madeKeys, madeSessions, mu, issued>>
connVars == <<hpc, device, who>>
proxyVars == <<pctxDone, task, deadline>>
wgVars == <<serverVars, deviceVars, connVars, proxyVars>>

Addresses == 2..LastAddress
Unassigned == [ip |-> 0, key |-> 0]
NoDevices == [d \in DeviceIds |-> Unassigned]
AnyDevice == CHOOSE d \in DeviceIds : TRUE
Tasks == {"keepalive", "up", "down"}
Ended == [t \in Tasks |-> "ended"]
NoDeadline == [t \in {"up", "down"} |-> "none"]

DevicesInit ==
    /\ srv = "down" /\ srvDone = FALSE /\ restartsDone = 0
    /\ devices = NoDevices /\ file = {NoDevices} /\ unsaved = {} /\ lost = {}
    /\ peers = [a \in Addresses |-> 0] /\ identity = [a \in Addresses |-> 0]
    /\ sessions = {} /\ madeKeys = 0 /\ madeSessions = 0 /\ mu = NoPeer
    /\ issued = NoDevices
    /\ hpc = [c \in WgConns |-> "idle"]
    /\ device = [c \in WgConns |-> AnyDevice] /\ who = [c \in WgConns |-> 0]
    /\ pctxDone = [c \in Proxied |-> FALSE] /\ task = [c \in Proxied |-> Ended]
    /\ deadline = [c \in Proxied |-> NoDeadline]

HandlerAt(c, from, to) == hpc[c] = from /\ hpc' = [hpc EXCEPT ![c] = to]

-----------------------------------------------------------------------------
(* The process: NewServer, Start, and its end. *)

\* A file that does not parse is no device.
LoadDevices == IF file = {} THEN {NoDevices} ELSE file

\* NewServer.  The rows of sessions of an earlier process are closed on start.
NewServer ==
    /\ srv = "down" /\ srv' = "starting" /\ devices' \in LoadDevices
    /\ lost' = lost \cup (IF file = {} THEN DeviceIds ELSE unsaved) /\ unsaved' = {}
    /\ peers' = [a \in Addresses |-> 0] /\ identity' = [a \in Addresses |-> 0]
    /\ sessions' = {}
    /\ UNCHANGED <<srvDone, restartsDone, file, madeKeys, madeSessions, mu, issued,
                   connVars, proxyVars>>

\* createTUN or createNetstackTUN: a WireGuard device without a peer.
BringUp ==
    /\ srv = "starting" /\ srv' = "up"
    /\ UNCHANGED <<srvDone, restartsDone, deviceVars, connVars, proxyVars>>

\* Re-adding the persisted peers.
RestoredPeers ==
    [a \in Addresses |-> Max({0} \cup {devices[d].key : d \in {e \in DeviceIds : devices[e].ip = a}})]

\* The rest of Start up to the accept loop: peers, and the DTLS listener.
StartServes ==
    /\ srv = "up" /\ srv' = "serving" /\ peers' = RestoredPeers
    /\ UNCHANGED <<srvDone, restartsDone, devices, file, unsaved, lost, identity, sessions,
                   madeKeys, madeSessions, mu, issued, connVars, proxyVars>>

\* The process ends: a crash, or an error of Start, which is fatal.
Ends ==
    /\ srv \in {"starting", "up", "serving", "draining"} /\ restartsDone < MaxRestarts
    /\ srv' = "down" /\ restartsDone' = restartsDone + 1 /\ srvDone' = FALSE
    /\ hpc' = [c \in WgConns |-> "idle"] /\ device' = [c \in WgConns |-> AnyDevice]
    /\ who' = [c \in WgConns |-> 0] /\ mu' = NoPeer
    /\ pctxDone' = [c \in Proxied |-> FALSE] /\ task' = [c \in Proxied |-> Ended]
    /\ deadline' = [c \in Proxied |-> NoDeadline]
    /\ UNCHANGED <<devices, file, unsaved, lost, peers, identity, sessions, madeKeys,
                   madeSessions, issued>>

\* main cancels the context: the listener is closed, and with it every proxy's.
CancelStart ==
    /\ srv = "serving" /\ ~srvDone /\ srvDone' = TRUE
    /\ UNCHANGED <<srv, restartsDone, deviceVars, connVars, proxyVars>>

AcceptFails ==
    /\ srv = "serving" /\ srvDone /\ srv' = "draining"
    /\ UNCHANGED <<srvDone, restartsDone, deviceVars, connVars, proxyVars>>

\* wg.Wait: every handleConn has returned.
ServeReturns ==
    /\ srv = "draining" /\ \A c \in WgConns : hpc[c] = "idle" /\ srv' = "returned"
    /\ UNCHANGED <<srvDone, restartsDone, deviceVars, connVars, proxyVars>>

-----------------------------------------------------------------------------
(* handleConn up to the proxy. *)

AcceptConn(c) ==
    /\ srv = "serving" /\ HandlerAt(c, "idle", "first")
    /\ UNCHANGED <<serverVars, deviceVars, device, who, proxyVars>>

\* A read ends by its deadline (30 s, 5 min, 10 min) or the connection breaks.
WaitEnds(c) ==
    /\ hpc[c] \in {"first", "confWait", "ready"}
    /\ hpc' = [hpc EXCEPT ![c] = "idle"] /\ who' = [who EXCEPT ![c] = 0]
    /\ UNCHANGED <<serverVars, deviceVars, device, proxyVars>>

\* GETCONF and authenticateClient: DENIED, the shared password, or a panel user,
\* for whom a session row is opened.
GetConf(c, d) ==
    /\ \/ HandlerAt(c, "first", "idle") /\ UNCHANGED <<device, who, sessions, madeSessions>>
       \/ /\ HandlerAt(c, "first", "provision") /\ device' = [device EXCEPT ![c] = d]
          /\ UNCHANGED <<who, sessions, madeSessions>>
       \/ /\ madeSessions < MaxSessions /\ HandlerAt(c, "first", "provision")
          /\ device' = [device EXCEPT ![c] = d]
          /\ madeSessions' = madeSessions + 1
          /\ sessions' = sessions \cup {madeSessions'} /\ who' = [who EXCEPT ![c] = madeSessions']
    /\ UNCHANGED <<serverVars, devices, file, unsaved, lost, peers, identity, madeKeys, mu,
                   issued, proxyVars>>

\* getNextIP.
Free == Addresses \ {devices[d].ip : d \in DeviceIds}

\* Under mu: a known device keeps what it has; a new one takes the lowest free
\* address and is saved; NOCONF when there is none left or no key can be made.
Provision(c) ==
    /\ mu = NoPeer /\ hpc[c] = "provision"
    /\ \/ /\ devices[device[c]] # Unassigned /\ HandlerAt(c, "provision", "identify")
          /\ UNCHANGED <<devices, madeKeys, mu, who>>
       \/ /\ devices[device[c]] = Unassigned /\ Free # {}
          /\ madeKeys' = madeKeys + 1
          /\ devices' = [devices EXCEPT ![device[c]] = [ip |-> Min(Free), key |-> madeKeys']]
          /\ mu' = c /\ HandlerAt(c, "provision", "opening") /\ UNCHANGED who
       \/ /\ devices[device[c]] = Unassigned /\ HandlerAt(c, "provision", "idle")
          /\ who' = [who EXCEPT ![c] = 0] /\ UNCHANGED <<devices, madeKeys, mu>>
    /\ device' = IF hpc'[c] = "idle" THEN [device EXCEPT ![c] = AnyDevice] ELSE device
    /\ UNCHANGED <<serverVars, file, unsaved, lost, peers, identity, sessions, madeSessions,
                   issued, proxyVars>>

\* saveDevices: os.WriteFile opens the file, and that empties it.
OpenDevices(c) ==
    /\ HandlerAt(c, "opening", "saving") /\ file' = {}
    /\ UNCHANGED <<serverVars, devices, unsaved, lost, peers, identity, sessions, madeKeys,
                   madeSessions, mu, issued, device, who, proxyVars>>

\* IpcSet adds the peer whatever became of the file; mu is released.
AddPeer(c) ==
    /\ mu' = NoPeer
    /\ peers' = [peers EXCEPT ![devices[device[c]].ip] = devices[device[c]].key]
    /\ UNCHANGED <<serverVars, devices, lost, identity, sessions, madeKeys, madeSessions, issued,
                   device, who, proxyVars>>

\* Fault: the file gets the devices there were before this one.
SaveDevicesStale(c) ==
    /\ HandlerAt(c, "saving", "identify")
    /\ file' = {[devices EXCEPT ![device[c]] = Unassigned]} /\ unsaved' = {}
    /\ AddPeer(c)

\* The file cannot be opened and keeps what it had, or every device is written
\* to it, or the write fails part of the way.  An error is logged only.
SaveDevices(c) ==
    /\ \/ /\ HandlerAt(c, "opening", "identify")
          /\ unsaved' = unsaved \cup {device[c]} /\ UNCHANGED file
       \/ HandlerAt(c, "saving", "identify") /\ file' = {devices} /\ unsaved' = {}
       \/ HandlerAt(c, "saving", "identify") /\ file' = {} /\ UNCHANGED unsaved
    /\ AddPeer(c)

\* setIdentityForIP under mu again, and the configuration is sent.
Identify(c) ==
    /\ mu = NoPeer /\ HandlerAt(c, "identify", "confWait")
    /\ identity' = [identity EXCEPT ![devices[device[c]].ip] = who[c]]
    /\ issued' = [issued EXCEPT ![device[c]] = devices[device[c]]]
    /\ lost' = lost \ {device[c]}
    /\ device' = [device EXCEPT ![c] = AnyDevice]
    /\ UNCHANGED <<serverVars, devices, file, unsaved, peers, sessions, madeKeys, madeSessions,
                   mu, who, proxyVars>>

\* READY, answered with READY_OK.
Ready(c) ==
    /\ c \in Proxied /\ hpc[c] \in {"first", "confWait"} /\ hpc' = [hpc EXCEPT ![c] = "ready"]
    /\ UNCHANGED <<serverVars, deviceVars, device, who, proxyVars>>

\* The first WireGuard packet: the local port is dialled and gets it, or that
\* fails; pctx, and the three goroutines.
ProxyStarts(c) ==
    /\ c \in Proxied /\ hpc[c] \in {"first", "confWait", "ready"}
    /\ who' = [who EXCEPT ![c] = 0]
    /\ \/ hpc' = [hpc EXCEPT ![c] = "idle"] /\ UNCHANGED proxyVars
       \/ /\ hpc' = [hpc EXCEPT ![c] = "proxy"]
          /\ task' = [task EXCEPT ![c] = [t \in Tasks |-> "top"]]
          /\ UNCHANGED <<pctxDone, deadline>>
    /\ UNCHANGED <<serverVars, deviceVars, device>>

-----------------------------------------------------------------------------
(* The proxy. *)

\* context.AfterFunc: Start's context or the first goroutine to end makes both
\* deadlines pass.
CancelProxy(c) ==
    /\ hpc[c] = "proxy" /\ ~pctxDone[c] /\ (srvDone \/ \E t \in Tasks : task[c][t] = "ended")
    /\ pctxDone' = [pctxDone EXCEPT ![c] = TRUE]
    /\ deadline' = [deadline EXCEPT ![c] = [t \in {"up", "down"} |->
                                                IF task[c][t] = "read" THEN "past" ELSE "none"]]
    /\ UNCHANGED <<serverVars, deviceVars, connVars, task>>

TaskAt(c, t, from, to) ==
    /\ hpc[c] = "proxy" /\ task[c][t] = from /\ task' = [task EXCEPT ![c][t] = to]

\* Top of each loop: the context is checked before anything else.
CheckContext(c, t) ==
    /\ TaskAt(c, t, "top", IF pctxDone[c] THEN "ended" ELSE IF t = "keepalive" THEN "top" ELSE "set")
    /\ UNCHANGED <<serverVars, deviceVars, connVars, pctxDone, deadline>>

\* Fault: the deadline is cleared instead of set.
SetReadDeadlineNone(c, t) ==
    /\ TaskAt(c, t, "set", "read")
    /\ deadline' = [deadline EXCEPT ![c][t] = "none"]
    /\ UNCHANGED <<serverVars, deviceVars, connVars, pctxDone>>

\* SetReadDeadline(now + 90 s), which may replace the one the context has set
\* since the check.
SetReadDeadline(c, t) ==
    /\ TaskAt(c, t, "set", "read")
    /\ deadline' = [deadline EXCEPT ![c][t] = "soon"]
    /\ UNCHANGED <<serverVars, deviceVars, connVars, pctxDone>>

\* A packet comes and is written on, or is a WAKEUP.
Forward(c, t) ==
    /\ TaskAt(c, t, "read", "top") /\ deadline[c][t] # "past"
    /\ deadline' = [deadline EXCEPT ![c][t] = "none"]
    /\ UNCHANGED <<serverVars, deviceVars, connVars, pctxDone>>

\* The deadline passes.  Towards the client that alone ends nothing.
ReadTimesOut(c, t) ==
    /\ deadline[c][t] # "none"
    /\ TaskAt(c, t, "read", IF t = "up" \/ pctxDone[c] THEN "ended" ELSE "top")
    /\ deadline' = [deadline EXCEPT ![c][t] = "none"]
    /\ UNCHANGED <<serverVars, deviceVars, connVars, pctxDone>>

\* A read or a write fails otherwise.
TaskFails(c, t) ==
    /\ hpc[c] = "proxy" /\ task[c][t] # "ended"
    /\ task' = [task EXCEPT ![c][t] = "ended"]
    /\ deadline' = [deadline EXCEPT ![c] = [u \in {"up", "down"} |->
                                             IF u = t THEN "none" ELSE @[u]]]
    /\ UNCHANGED <<serverVars, deviceVars, connVars, pctxDone>>

\* proxyWg.Wait, and the connection is closed.
ProxyReturns(c) ==
    /\ HandlerAt(c, "proxy", "idle") /\ task[c] = Ended
    /\ pctxDone' = [pctxDone EXCEPT ![c] = FALSE]
    /\ deadline' = [deadline EXCEPT ![c] = NoDeadline]
    /\ UNCHANGED <<serverVars, deviceVars, device, who, task>>

-----------------------------------------------------------------------------

\* What the goroutine of a connection does by itself, and its deadlines.
HandlerStep(c) ==
    \/ WaitEnds(c) \/ Provision(c) \/ OpenDevices(c) \/ SaveDevices(c) \/ Identify(c)
    \/ c \in Proxied /\ (CancelProxy(c) \/ ProxyReturns(c))

TaskStep(c, t) ==
    \/ pctxDone[c] /\ CheckContext(c, t)
    \/ t # "keepalive" /\ (SetReadDeadline(c, t) \/ ReadTimesOut(c, t))

ProcessStep == AcceptFails \/ ServeReturns

DevicesNext ==
    \/ NewServer \/ BringUp \/ StartServes \/ Ends \/ CancelStart \/ ProcessStep
    \/ \E c \in WgConns :
         \/ AcceptConn(c) \/ Ready(c) \/ ProxyStarts(c) \/ HandlerStep(c)
         \/ \E d \in DeviceIds : GetConf(c, d)
    \/ \E c \in Proxied, t \in Tasks :
         \/ CheckContext(c, t) \/ TaskFails(c, t)
         \/ t # "keepalive" /\ (SetReadDeadline(c, t) \/ Forward(c, t) \/ ReadTimesOut(c, t))

DevicesSpec == DevicesInit /\ [][DevicesNext]_wgVars

\* Goroutines run and deadlines pass.
DevicesFairness ==
    /\ WF_wgVars(ProcessStep)
    /\ \A c \in WgConns : WF_wgVars(HandlerStep(c))
    /\ \A c \in Proxied, t \in Tasks : WF_wgVars(TaskStep(c, t))

-----------------------------------------------------------------------------
(* Properties. *)

\* No two devices share an address; and a configuration a device was given stays
\* good: while the server serves, WireGuard knows its key under its address, over
\* any number of restarts.  Excepted are the devices a start could not know of,
\* until they ask again: all of them if it found the file half written, else those
\* whose save could not open it with no save completed since.
ConfigKept ==
    /\ \A d, e \in DeviceIds :
         d # e /\ devices[d] # Unassigned => devices[d].ip # devices[e].ip
    /\ srv = "serving" =>
         \A d \in DeviceIds \ lost :
            issued[d] # Unassigned => peers[issued[d].ip] = issued[d].key

\* When its context ends, Start returns: no connection keeps it, in whatever wait
\* it is, even if a read deadline is renewed just after the context has set it.
\* And a proxy one of whose goroutines ended is taken down.
HandlersEnd ==
    /\ <>[](srvDone => srv = "returned")
    /\ []<>(\A c \in Proxied : ~pctxDone[c])
=============================================================================
