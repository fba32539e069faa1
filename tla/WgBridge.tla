------------------------------ MODULE WgBridge ------------------------------
(***************************************************************************)
(* Flows out of the WireGuard netstack (internal/wgturn:                   *)
(* outbound_bridge.go, usertun.go and the end of Server.Shutdown).         *)
(*                                                                         *)
(* Every flow the netstack accepts runs in a goroutine of its own: it      *)
(* leases a dialer, dials, and copies both ways until either side ends.    *)
(* Packets of the netstack leave through userTun: WriteNotify hands each   *)
(* to the reader of the WireGuard device.  Shutdown closes the bridge,     *)
(* which cancels its flows and waits for them, at most five seconds, and   *)
(* then the device, which closes userTun and waits for its reader.         *)
(***************************************************************************)
EXTENDS Naturals, FiniteSets

CONSTANTS
    Flows,     \* flows the netstack sees
    MaxMoved   \* bound: payloads a flow moves in each direction

ASSUME BridgeAssumption == IsFiniteSet(Flows) /\ MaxMoved \in Nat

VARIABLES
    fpc, kind,        \* pumpTCP or pumpUDP of each flow
    leased,           \* the flow's dialer has not been closed
    gOpen, upOpen,    \* the netstack's end and the far end
    copying,          \* directions whose goroutine has not ended
    moved, bytes,     \* payloads written; upBytes and downBytes
    accounted,        \* what accountFlow has added
    closer,           \* Server.Shutdown, from bridge.Close on
    cancelled,        \* the bridge's context
    handlers,         \* the netstack calls the forwarders
    notifier,         \* WriteNotify
    lock,             \* closeMu: "free" or "read"
    waitingLock,      \* Close is waiting for closeMu
    closing, chanOpen, chanNil,  \* closeNotify closed; incomingPacket
    reader            \* RoutineReadFromTUN of the WireGuard device

Directions == {"up", "down"}
flowVars == <<fpc, kind, leased, gOpen, upOpen, copying, moved, bytes, accounted>>
closeVars == <<closer, cancelled, handlers>>
tunVars == <<notifier, lock, waitingLock, closing, chanOpen, chanNil, reader>>
bridgeVars == <<flowVars, closeVars, tunVars>>

Nothing == [d \in Directions |-> 0]

BridgeInit ==
    /\ fpc = [f \in Flows |-> "none"] /\ kind = [f \in Flows |-> "tcp"]
    /\ leased = {} /\ gOpen = {} /\ upOpen = {}
    /\ copying = [f \in Flows |-> {}]
    /\ moved = [f \in Flows |-> Nothing] /\ bytes = [f \in Flows |-> Nothing]
    /\ accounted = [f \in Flows |-> Nothing]
    /\ closer = "open" /\ cancelled = FALSE /\ handlers = TRUE
    /\ notifier = "idle" /\ lock = "free" /\ waitingLock = FALSE
    /\ closing = FALSE /\ chanOpen = TRUE /\ chanNil = FALSE
    /\ reader = "between"

FlowAt(f, from, to) == fpc[f] = from /\ fpc' = [fpc EXCEPT ![f] = to]

-----------------------------------------------------------------------------
(* A flow. *)

\* handleTCP, handleUDP up to the check: isClosed under closeMu.  A flow refused
\* is reset or ignored.
Handle(f, k) ==
    /\ handlers
    /\ FlowAt(f, "none", IF closer = "open" THEN "endpoint" ELSE "done")
    /\ kind' = [kind EXCEPT ![f] = k]
    /\ UNCHANGED <<leased, gOpen, upOpen, copying, moved, bytes, accounted, closeVars, tunVars>>

\* CreateEndpoint succeeds, which takes a handshake of TCP, or fails.
CreateEndpoint(f) ==
    /\ \/ FlowAt(f, "endpoint", "spawned") /\ gOpen' = gOpen \cup {f}
       \/ FlowAt(f, "endpoint", "done") /\ UNCHANGED gOpen
    /\ UNCHANGED <<kind, leased, upOpen, copying, moved, bytes, accounted, closeVars, tunVars>>

\* The goroutine starts: only now wg.Add, activeFlows.Add.
PumpStarts(f) ==
    /\ FlowAt(f, "spawned", "resolve")
    /\ UNCHANGED <<kind, leased, gOpen, upOpen, copying, moved, bytes, accounted,
                   closeVars, tunVars>>

\* resolveFlow: the rules or the registry block the flow, or a dialer is leased.
ResolveFlow(f) ==
    /\ \/ FlowAt(f, "resolve", "wgDone") /\ UNCHANGED leased
       \/ FlowAt(f, "resolve", "dial") /\ leased' = leased \cup {f}
    /\ UNCHANGED <<kind, gOpen, upOpen, copying, moved, bytes, accounted, closeVars, tunVars>>

\* DialContext or DialPacket under the bridge's context and 15 seconds; the
\* three goroutines start.  A dial that beats the cancellation succeeds.
Dial(f) ==
    /\ \/ /\ FlowAt(f, "dial", "release") /\ UNCHANGED <<upOpen, copying>>
       \/ /\ FlowAt(f, "dial", "copying") /\ upOpen' = upOpen \cup {f}
          /\ copying' = [copying EXCEPT ![f] = Directions]
    /\ UNCHANGED <<kind, leased, gOpen, moved, bytes, accounted, closeVars, tunVars>>

\* Fault: the goroutine that waits for the context is missing.
WatchdogNever(f) == FALSE /\ UNCHANGED bridgeVars

\* The context ends before shutdownDone: both ends are closed.
Watchdog(f) ==
    /\ cancelled /\ fpc[f] \in {"copying", "second"} /\ f \in gOpen \cup upOpen
    /\ gOpen' = gOpen \ {f} /\ upOpen' = upOpen \ {f}
    /\ UNCHANGED <<fpc, kind, leased, copying, moved, bytes, accounted, closeVars, tunVars>>

\* A payload is read and written on.  pumpUDP counts it there and then.
CopyMoves(f, d) ==
    /\ d \in copying[f] /\ f \in gOpen \cap upOpen /\ moved[f][d] < MaxMoved
    /\ moved' = [moved EXCEPT ![f][d] = @ + 1]
    /\ bytes' = IF kind[f] = "udp" THEN [bytes EXCEPT ![f][d] = @ + 1] ELSE bytes
    /\ UNCHANGED <<fpc, kind, leased, gOpen, upOpen, copying, accounted, closeVars, tunVars>>

\* A read or a write fails or meets the end of the stream; of a UDP flow also
\* after a minute of silence.  pumpTCP takes the count of io.Copy only now.
CopyEnds(f, d) ==
    /\ d \in copying[f] /\ copying' = [copying EXCEPT ![f] = @ \ {d}]
    /\ bytes' = [bytes EXCEPT ![f][d] = moved[f][d]]
    /\ UNCHANGED <<fpc, kind, leased, gOpen, upOpen, moved, accounted, closeVars, tunVars>>

\* The first receive from done: both ends are closed.
FirstDone(f) ==
    /\ copying[f] # Directions /\ FlowAt(f, "copying", "second")
    /\ gOpen' = gOpen \ {f} /\ upOpen' = upOpen \ {f}
    /\ UNCHANGED <<kind, leased, copying, moved, bytes, accounted, closeVars, tunVars>>

\* Fault: the second direction is not waited for.
SecondDoneAny(f) ==
    /\ FlowAt(f, "second", "account")
    /\ UNCHANGED <<kind, leased, gOpen, upOpen, copying, moved, bytes, accounted,
                   closeVars, tunVars>>

\* The second one; the deferred functions follow, last one first.
SecondDone(f) ==
    /\ copying[f] = {} /\ FlowAt(f, "second", "account")
    /\ UNCHANGED <<kind, leased, gOpen, upOpen, copying, moved, bytes, accounted,
                   closeVars, tunVars>>

\* close(shutdownDone), closeNetConn(upConn), accountFlow.
Account(f) ==
    /\ FlowAt(f, "account", "release")
    /\ upOpen' = upOpen \ {f} /\ accounted' = [accounted EXCEPT ![f] = bytes[f]]
    /\ UNCHANGED <<kind, leased, gOpen, copying, moved, bytes, closeVars, tunVars>>

\* dialer.Close gives the lease back.
ReleaseDialer(f) ==
    /\ FlowAt(f, "release", "wgDone") /\ leased' = leased \ {f}
    /\ UNCHANGED <<kind, gOpen, upOpen, copying, moved, bytes, accounted, closeVars, tunVars>>

\* activeFlows.Add(-1) and wg.Done come before the netstack's end is closed.
WgDone(f) ==
    /\ FlowAt(f, "wgDone", "closeG")
    /\ UNCHANGED <<kind, leased, gOpen, upOpen, copying, moved, bytes, accounted,
                   closeVars, tunVars>>

CloseG(f) ==
    /\ FlowAt(f, "closeG", "done") /\ gOpen' = gOpen \ {f}
    /\ UNCHANGED <<kind, leased, upOpen, copying, moved, bytes, accounted, closeVars, tunVars>>

PumpStep(f) ==
    \/ CreateEndpoint(f) \/ PumpStarts(f) \/ ResolveFlow(f) \/ Dial(f) \/ Watchdog(f)
    \/ FirstDone(f) \/ SecondDone(f) \/ Account(f) \/ ReleaseDialer(f) \/ WgDone(f) \/ CloseG(f)
    \/ \E d \in Directions : f \notin gOpen \cap upOpen /\ CopyEnds(f, d)

-----------------------------------------------------------------------------
(* OutboundBridge.Close. *)

CloserAt(from, to) == closer = from /\ closer' = to

BridgeCloses ==
    /\ CloserAt("open", "cancel")
    /\ UNCHANGED <<flowVars, cancelled, handlers, tunVars>>

CancelFlows ==
    /\ CloserAt("cancel", "wait") /\ cancelled' = TRUE
    /\ UNCHANGED <<flowVars, handlers, tunVars>>

\* wg.Wait returns, or the five seconds pass first, so it may happen whatever
\* the flows are at; the handlers are dropped.
WaitedForFlows ==
    /\ CloserAt("wait", "closeTun") /\ handlers' = FALSE
    /\ UNCHANGED <<flowVars, cancelled, tunVars>>

-----------------------------------------------------------------------------
(* userTun. *)

\* WriteNotify: the netstack has written a packet, and the endpoint calls it as
\* long as the notification is registered.
Notified ==
    /\ notifier = "idle" /\ closer \notin {"lock", "drain", "closed"}
    /\ notifier' = "packet"
    /\ UNCHANGED <<flowVars, closeVars, lock, waitingLock, closing, chanOpen, chanNil, reader>>

\* RLock, which a waiting Lock holds up; without a channel the packet is dropped.
NotifyLocks ==
    /\ notifier = "packet" /\ ~waitingLock
    /\ IF chanNil THEN notifier' = "idle" /\ UNCHANGED lock
                  ELSE notifier' = "select" /\ lock' = "read"
    /\ UNCHANGED <<flowVars, closeVars, waitingLock, closing, chanOpen, chanNil, reader>>

\* The select: the reader takes the packet, or closeNotify is closed.
NotifyReturns ==
    /\ notifier = "select" /\ notifier' = "idle" /\ lock' = "free"
    /\ \/ reader = "reading" /\ reader' = "between"
       \/ closing /\ UNCHANGED reader
    /\ UNCHANGED <<flowVars, closeVars, waitingLock, closing, chanOpen, chanNil>>

\* Read: the field is loaded and then received from.  It is loaded without the
\* lock, so one that Close has set to nil is read as nil or as the closed channel
\* it was; a nil channel never delivers.
Read ==
    /\ reader = "between" /\ reader' \in {"reading"} \cup (IF chanNil THEN {"stuck"} ELSE {})
    /\ UNCHANGED <<flowVars, closeVars, notifier, lock, waitingLock, closing, chanOpen, chanNil>>

\* A closed channel yields os.ErrClosed, and the device's routine ends.
ReadClosed ==
    /\ reader = "reading" /\ ~chanOpen /\ reader' = "ended"
    /\ UNCHANGED <<flowVars, closeVars, notifier, lock, waitingLock, closing, chanOpen, chanNil>>

\* Close, called by the device's Close: RemoveNotify, close(closeNotify).
TunUnblocks ==
    /\ CloserAt("closeTun", "lock") /\ closing' = TRUE /\ waitingLock' = TRUE
    /\ UNCHANGED <<flowVars, cancelled, handlers, notifier, lock, chanOpen, chanNil, reader>>

\* Fault: the channel is closed without closeMu.
TunClosesUnlocked ==
    /\ CloserAt("lock", "drain")
    /\ waitingLock' = FALSE /\ chanOpen' = FALSE /\ chanNil' = TRUE
    /\ UNCHANGED <<flowVars, cancelled, handlers, notifier, lock, closing, reader>>

\* Fault: the channel is forgotten and not closed.
TunForgets ==
    /\ CloserAt("lock", "drain") /\ lock = "free"
    /\ waitingLock' = FALSE /\ chanNil' = TRUE
    /\ UNCHANGED <<flowVars, cancelled, handlers, notifier, lock, closing, chanOpen, reader>>

\* closeMu.Lock, RemoveNIC, and the channel is closed and forgotten.
TunCloses ==
    /\ CloserAt("lock", "drain") /\ lock = "free"
    /\ waitingLock' = FALSE /\ chanOpen' = FALSE /\ chanNil' = TRUE
    /\ UNCHANGED <<flowVars, cancelled, handlers, notifier, lock, closing, reader>>

\* The device's Close waits for its reader.
DeviceClosed ==
    /\ CloserAt("drain", "closed") /\ reader = "ended"
    /\ UNCHANGED <<flowVars, cancelled, handlers, tunVars>>

CloseStep ==
    CancelFlows \/ WaitedForFlows \/ TunUnblocks \/ TunCloses \/ DeviceClosed

TunStep == NotifyLocks \/ NotifyReturns \/ Read \/ ReadClosed

BridgeNext ==
    \/ \E f \in Flows :
         \/ \E k \in {"tcp", "udp"} : Handle(f, k)
         \/ PumpStep(f)
         \/ \E d \in Directions : CopyMoves(f, d) \/ CopyEnds(f, d)
    \/ BridgeCloses \/ CloseStep \/ Notified \/ TunStep

BridgeSpec == BridgeInit /\ [][BridgeNext]_bridgeVars

-----------------------------------------------------------------------------
(* Properties. *)

\* What a flow moved is accounted once and in full: once accountFlow has run no
\* direction moves anything any more; and a direction that still copies does so
\* through a dialer whose lease is held.
FlowAccounted ==
    \A f \in Flows :
        /\ copying[f] # {} => f \in leased
        /\ fpc[f] \in {"release", "wgDone", "closeG", "done"} => accounted[f] = moved[f]

\* WriteNotify never sends on the closed channel, whatever Close and it
\* interleave: "preventing send-on-closed-channel panics".
NoSendOnClosed == notifier = "select" => chanOpen

BridgeSafe == FlowAccounted /\ NoSendOnClosed

\* "Close cancels in-flight bridge flows": every flow ends and gives its dialer
\* back, also one that passed the check of closed and started after the cancel.
\* And Shutdown returns, although packets were on their way to the reader, unless
\* the reader was between two reads as Close forgot the channel and then loaded
\* nil: it waits for ever, and so does the device's Close, which Shutdown is in.
ClosedBridgeDrains ==
    <>[](cancelled => /\ leased = {} /\ gOpen = {} /\ upOpen = {}
                      /\ \/ closer = "closed"
                         \/ closer = "drain" /\ reader = "stuck")
=============================================================================
