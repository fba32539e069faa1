----------------------------- MODULE MCCarriers -----------------------------
(* The FragPoC transport (one stream's way down, the server's table of     *)
(* sessions, its ports and the scheduler of the polls), the VK transport   *)
(* (its client and its multiplexer) and the admission of the dials that    *)
(* come out of the TUN.  One of them runs, the others stand still.         *)
EXTENDS FragDown, FragServer, FragSched, VkMux, VkClient, TunDialer

VARIABLE part

fragParts == <<fragVars, fragTableVars, portVars, schedVars>>
vkParts == <<muxVars, vkVars>>
allVars == <<fragParts, vkParts, tunDialVars, part>>

\* One stream from its dial to its end, whose read loop at the client comes to find readCh
\* full; and two streams, one of which is not read.
MCMuxStarts ==
    {[open |-> {}, full |-> {}, dials |-> {1},
      quota |-> [e \in MuxEnds |-> IF e = "server" THEN 2 ELSE 1]],
     [open |-> {1, 2}, full |-> {1}, dials |-> {},
      quota |-> [e \in MuxEnds |-> IF e = "server" THEN 3 ELSE 0]]}

MCInit ==
    /\ FragInit /\ TableInit /\ PortsInit /\ SchedInit /\ MuxInit /\ VkInit /\ TunDialInit
    /\ part \in {"down", "table", "ports", "sched", "mux", "vk", "dialer"}
    /\ part # "ports" => ~listMode /\ taken = {}
    /\ part # "vk" => file = "none"
    /\ part # "mux" => muxStart = CHOOSE m \in MuxStarts : TRUE

DownPart ==
    part = "down" /\ FragNext
    /\ UNCHANGED <<fragTableVars, portVars, schedVars, vkParts, tunDialVars, part>>
TablePart ==
    part = "table" /\ TableNext
    /\ UNCHANGED <<fragVars, portVars, schedVars, vkParts, tunDialVars, part>>
PortsPart ==
    part = "ports" /\ PortsNext
    /\ UNCHANGED <<fragVars, fragTableVars, schedVars, vkParts, tunDialVars, part>>
SchedPart ==
    part = "sched" /\ SchedNext
    /\ UNCHANGED <<fragVars, fragTableVars, portVars, vkParts, tunDialVars, part>>
MuxPart ==
    part = "mux" /\ MuxNext /\ UNCHANGED <<fragParts, vkVars, tunDialVars, part>>
VkPart ==
    part = "vk" /\ VkNext /\ UNCHANGED <<fragParts, muxVars, tunDialVars, part>>
DialerPart ==
    part = "dialer" /\ TunDialNext /\ UNCHANGED <<fragParts, vkParts, part>>

MCNext ==
    DownPart \/ TablePart \/ PortsPart \/ SchedPart \/ MuxPart \/ VkPart \/ DialerPart

\* Operations that arrived are served, a handler whose pipe is closed returns, time
\* passes, and reaperLoop ticks until the server is closed.
TableFairness ==
    /\ WF_fragTableVars(part = "table" /\ \E o \in FragOps : ServeOp(o))
    /\ WF_fragTableVars(part = "table" /\ \E s \in Sids : HandlerEnds(s))
    /\ \A s \in Sids : WF_fragTableVars(part = "table" /\ Expires(s))
    /\ WF_fragTableVars(part = "table" /\ Reap)

\* The ticker of Start's loop keeps ticking, and a scaling under way goes on.
PortsFairness == WF_portVars(part = "ports" /\ ManagerStep)

\* The reaper of the dialer ticks, a connection that was closed is unregistered, and
\* time passes; nothing is assumed of the dials or of whoever owns a connection.
DialerFairness ==
    /\ WF_tunDialVars(part = "dialer" /\ ReaperStep)
    /\ \A c \in TunDials : /\ WF_tunDialVars(part = "dialer" /\ Unregister(c))
                           /\ WF_tunDialVars(part = "dialer" /\ DialTimePasses(c))

MCSpec ==
    /\ MCInit /\ [][MCNext]_allVars
    /\ TableFairness /\ PortsFairness /\ DialerFairness

\* What the streams of FragPoC share: what was acknowledged has arrived, the server's
\* listeners and their order agree, and the round robin of the polls passes no stream
\* over and loses none.
FragSafe ==
    /\ part = "table" => AckedArrived
    /\ part = "ports" => OrderMatches
    /\ part = "sched" => PickInTurn /\ ActiveListed

\* What a VK stream relies on: an open stream's data is all there, nothing outlives
\* its session or its client, and one acquisition at most talks to VK.
VkSafe ==
    /\ part = "mux" => NothingLostOpen /\ NoneOutlives
    /\ part = "vk" => OneAcquisition /\ ClosedHasNone
=============================================================================
