----------------------------- MODULE MCWgServer -----------------------------
(* The wgturn server and the lane in each direction: a pair of runs of one *)
(* device that compete for its Bond, the devices with their connections,   *)
(* and the bridge out of the tunnel.  They share no state here, so one of  *)
(* them runs, the others stand still.                                      *)
EXTENDS Bond, ServerReorder, ClientReorder, WgBridge, WgDevices, TLC

CONSTANTS c1, c2

VARIABLE part

MCPairConns == {c1, c2}
MCPairRunOf == c1 :> "r1" @@ c2 :> "r2"
MCPairSlotOf == c1 :> "s1" @@ c2 :> "s1"
MCPairTokens == c1 :> "t1" @@ c2 :> "t2"
MCOneDevice == "r1" :> "d1" @@ "r2" :> "d1"

laneVars == <<vars, clientVars>>
sideVars == <<bridgeVars, wgVars>>
allVars == <<bondVars, laneVars, sideVars, part>>

MCInit ==
    /\ BondInit /\ Init /\ ClientInit /\ BridgeInit /\ DevicesInit
    /\ part \in {"bond", "up", "down", "bridge", "devices", "proxy"}

BondPart ==
    part = "bond" /\ BondNext /\ UNCHANGED <<laneVars, sideVars, part>>
UpPart ==
    part = "up" /\ Next /\ UNCHANGED <<bondVars, clientVars, sideVars, part>>
DownPart ==
    part = "down" /\ ClientNext /\ UNCHANGED <<bondVars, vars, sideVars, part>>
BridgePart ==
    part = "bridge" /\ BridgeNext
    /\ UNCHANGED <<bondVars, laneVars, wgVars, part>>
\* A proxy touches no device: in one part connections ask for their device and
\* are not proxied, in the other they do not ask.  A process ends in the behaviours
\* without a panel user, whose session no file keeps.
DevicesPart ==
    /\ \/ /\ part = "devices" /\ DevicesNext /\ \A c \in WgConns : hpc'[c] # "proxy"
          /\ madeSessions' = 0 \/ restartsDone' = 0
       \/ part = "proxy" /\ DevicesNext /\ \A c \in WgConns : hpc'[c] # "provision"
    /\ UNCHANGED <<bondVars, laneVars, bridgeVars, part>>

MCNext == BondPart \/ UpPart \/ DownPart \/ BridgePart \/ DevicesPart

\* Each critical section and goroutine runs when it can, and push returns; where a step
\* is possible from the start it is owed in the behaviours of its part only.  The
\* goroutines of a bond take no step for ever, so one condition serves all of them.
\* Whether a client retries, a socket fails or the server stops is left open.
GoroutinesRun ==
    /\ \A c \in Conns : WF_bondVars(part = "bond" /\ Setup(c))
    /\ WF_bondVars(\E c \in Conns : Goroutine(c)) /\ WF_bondVars(ShutdownSweep)
    /\ WF_vars(Relieve \/ PushDuplicate \/ PushStore)
    /\ WF_bridgeVars(part = "bridge" /\ ((\E f \in Flows : PumpStep(f)) \/ CloseStep))
    /\ WF_bridgeVars(part = "bridge" /\ TunStep)

\* runWGWriter's ticker keeps firing and gets b.mu in turn, and the select of the
\* client's writeLoop serves its ticker again and again.
TickersRun ==
    SF_laneVars(\/ part = "up" /\ (FlushExpired \/ Tick) /\ UpPart
                \/ part = "down" /\ (ClientFlushExpired \/ ClientTick) /\ DownPart)

MCSpec == MCInit /\ [][MCNext]_allVars /\ GoroutinesRun /\ DevicesFairness /\ TickersRun

\* The buffers of the two directions of a lane release what was received, in order: the
\* client's writes it, the server's returns it under b.mu.
LanesInOrder == InOrder /\ ClientInOrder

\* What the server keeps: flows are accounted and no notification is sent on a closed
\* channel, and a device's configuration stays good.
WgServerSafe == BridgeSafe /\ ConfigKept

\* A bond without workers is collected, a closed one loses its workers, and a shutdown
\* closes every socket.
BondDrains == OrphanCollected /\ WorkersLeave /\ ShutdownClosesSockets

\* The server ends: a closed bridge drains, and Start returns.
WgServerEnds == ClosedBridgeDrains /\ HandlersEnd
=============================================================================
