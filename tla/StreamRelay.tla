---------------------------- MODULE StreamRelay ----------------------------
(***************************************************************************)
(* The handlers of the streams a client opens through the server           *)
(* (pkg/tamizdat/server.go serveH2, handleTCPConnect,                      *)
(* proxyBidirectionalCounted; udp_server.go; outbound_stream_tracker.go):  *)
(* an HTTP/2 CONNECT, or a stream of the FragPoC or VK TURN transports,    *)
(* is validated, routed, dialled and relayed by two goroutines next to an  *)
(* idle watchdog, and everything it took is given back at the end.         *)
(*                                                                         *)
(* A stream's two far ends are the client and the target; each may send,   *)
(* end or vanish at any time, or stay silent for ever, and may leave what  *)
(* is written to it untaken.  Chunks of data are counted.  The connection  *)
(* handed to the relay differs by front: Close of a FragPoC pipe wakes a   *)
(* parked Read and a held Write; Close of a VK stream wakes a parked Read  *)
(* but waits, for writeMu, behind a held Write; Close of serverStreamConn  *)
(* only sets a flag that the next Read or Write looks at.                  *)
(***************************************************************************)
EXTENDS Naturals, FiniteSets

CONSTANTS Others,      \* streams the trackers count that stay open throughout
          MaxStreams,  \* bound: streams that are opened
          MaxData      \* bound: chunks each far end sends

ASSUME RelayAssumption == Others \in Nat /\ MaxStreams \in Nat /\ MaxData \in Nat

\* A stream is named by its front, the protocol it carries and a number.
RelayIds == {"h2", "pipe", "vk"} \X {"tcp", "udp"} \X (1 .. MaxStreams)
FrontOf == [i \in RelayIds |-> i[1]]
ProtoOf == [i \in RelayIds |-> i[2]]

VARIABLES stage,     \* [RelayIds -> where the handler stands]
          far,       \* [RelayIds -> [client, target : state of the far end]]
          waiting,   \* [RelayIds -> [client, target : chunks not yet read]]
          given,     \* [RelayIds -> [client, target : chunks ever sent]]
          copier,    \* [RelayIds -> [up, down : state of the goroutine]]
          connClosed,\* streams whose client connection was closed by us
          watchdog,  \* [RelayIds -> "off", "armed", "closing" (in Close of the
                     \* client's connection), "fired"]
          leased,    \* streams that hold an outbound lease
          trackedRelays,   \* [{"h2", "relay"} -> the trackers' counters]
          released,  \* streams whose relay tracking was released (sync.Once)
          moved,     \* [RelayIds -> [up, down : chunks relayed]]
          billed     \* [RelayIds -> [up, down : chunks credited to the outbound]]

relayVars == <<stage, far, waiting, given, copier, connClosed, watchdog,
               leased, trackedRelays, released, moved, billed>>

FarEnds == {"client", "target"}
Directions == {"up", "down"}
SourceOf == [up |-> "client", down |-> "target"]
PerEnd(x) == [e \in FarEnds |-> x]
PerDirection(x) == [d \in Directions |-> x]

RelayInit ==
  /\ stage = [i \in RelayIds |-> "idle"]
  /\ far = [i \in RelayIds |-> PerEnd("open")]
  /\ waiting = [i \in RelayIds |-> PerEnd(0)]
  /\ given = [i \in RelayIds |-> PerEnd(0)]
  /\ copier = [i \in RelayIds |-> PerDirection("off")]
  /\ connClosed = {}
  /\ watchdog = [i \in RelayIds |-> "off"]
  /\ leased = {}
  /\ trackedRelays = [k \in {"h2", "relay"} |-> Others]
  /\ released = {}
  /\ moved = [i \in RelayIds |-> PerDirection(0)]
  /\ billed = [i \in RelayIds |-> PerDirection(0)]

(***************************************************************************)
(* Set-up: accept, validate the destination, pick the outbound, dial.      *)
(***************************************************************************)
AcceptStream(i) ==
  /\ stage[i] = "idle"
  /\ Cardinality({j \in RelayIds : stage[j] # "idle"}) < MaxStreams
  /\ stage' = [stage EXCEPT ![i] = "validate"]
  /\ trackedRelays' = [trackedRelays EXCEPT !["h2"] = IF FrontOf[i] = "h2" THEN @ + 1 ELSE @]
  /\ UNCHANGED <<far, waiting, given, copier, connClosed, watchdog, leased,
                 released, moved, billed>>

\* The handler leaves before anything was dialled: the connection is closed
\* (the H2 handler goes on to drain the body of a TCP stream).
Leaves(i) ==
  /\ connClosed' = IF ProtoOf[i] = "tcp" THEN connClosed \cup {i} ELSE connClosed
  /\ stage' = [stage EXCEPT ![i] =
                 IF FrontOf[i] = "h2" /\ ProtoOf[i] = "tcp" THEN "drain" ELSE "return"]

\* A malformed or private destination, or a rule that says "block".
RejectStream(i) ==
  /\ stage[i] = "validate"
  /\ Leaves(i)
  /\ UNCHANGED <<far, waiting, given, copier, watchdog, leased, trackedRelays,
                 released, moved, billed>>

\* outboundRegistry.Resolve takes a lease on the outbound's client.
ResolveOutbound(i) ==
  /\ stage[i] = "validate"
  /\ stage' = [stage EXCEPT ![i] = "dial"]
  /\ leased' = leased \cup {i}
  /\ UNCHANGED <<far, waiting, given, copier, connClosed, watchdog, trackedRelays,
                 released, moved, billed>>

RelayDialFails(i) ==
  /\ stage[i] = "dial"
  /\ leased' = leased \ {i}
  /\ Leaves(i)
  /\ UNCHANGED <<far, waiting, given, copier, watchdog, trackedRelays, released,
                 moved, billed>>

\* handleFragPoCUDP, which VK streams use too, keeps no stream counters; every
\* other path does.
CountsRelay(i) == ProtoOf[i] = "tcp" \/ FrontOf[i] = "h2"

RelayDialSucceeds(i) ==
  /\ stage[i] = "dial"
  /\ stage' = [stage EXCEPT ![i] = "relay"]
  /\ trackedRelays' = [trackedRelays EXCEPT !["relay"] = IF CountsRelay(i) THEN @ + 1 ELSE @]
  /\ copier' = [copier EXCEPT ![i] = PerDirection("call")]
  /\ watchdog' = [watchdog EXCEPT ![i] = "armed"]
  /\ UNCHANGED <<far, waiting, given, connClosed, leased, released, moved, billed>>

(***************************************************************************)
(* The relay.                                                              *)
(***************************************************************************)
\* Fault: without the sync.Once.
ReleaseTwice(i) ==
  /\ trackedRelays' = [trackedRelays EXCEPT !["relay"] =
                   IF CountsRelay(i) /\ @ > 0 THEN @ - 1 ELSE @]
  /\ released' = released \cup {i}

\* releaseRelayTrack, inside its sync.Once.
ReleaseRelay(i) ==
  /\ trackedRelays' = [trackedRelays EXCEPT !["relay"] =
                   IF CountsRelay(i) /\ i \notin released THEN @ - 1 ELSE @]
  /\ released' = released \cup {i}

\* The connection a goroutine reads has been closed by this process, in a
\* way a Read that is already parked notices.
WokenByClose(i, d) ==
  IF d = "up" THEN i \in connClosed /\ FrontOf[i] # "h2"
              ELSE far[i]["target"] = "closed"

\* A direction ends.  TCP: release the counters if it was the target's, and
\* half-close the sink (nothing on serverStreamConn, whose CloseWrite does
\* nothing).  UDP: either goroutine's end cancels the context.
EndDirection(i, d) ==
  /\ copier' = [copier EXCEPT ![i][d] = "done"]
  /\ IF d = "down" /\ ProtoOf[i] = "tcp" THEN ReleaseRelay(i)
                                         ELSE UNCHANGED <<trackedRelays, released>>

\* Read is called: it fails at once on a connection already closed.
CallRead(i, d) ==
  /\ copier[i][d] = "call"
  /\ IF (d = "up" /\ i \in connClosed) \/ (d = "down" /\ far[i]["target"] = "closed")
       THEN EndDirection(i, d)
       ELSE /\ copier' = [copier EXCEPT ![i][d] = "parked"]
            /\ UNCHANGED <<trackedRelays, released>>
  /\ UNCHANGED <<stage, far, waiting, given, connClosed, watchdog, leased,
                 moved, billed>>

\* The sink takes a chunk, unless its end has gone or we closed it.
SinkOpen(i, d) ==
  IF d = "up" THEN far[i]["target"] \in {"open", "ended"}
              ELSE far[i]["client"] # "gone" /\ i \notin connClosed

\* Read returns a chunk and Write is called: the far end holds it until it takes it.
CopyChunk(i, d) ==
  /\ copier[i][d] = "parked" /\ waiting[i][SourceOf[d]] > 0
  /\ ~WokenByClose(i, d)
  /\ waiting' = [waiting EXCEPT ![i][SourceOf[d]] = @ - 1]
  /\ IF SinkOpen(i, d)
       THEN /\ copier' = [copier EXCEPT ![i][d] = "held"]
            /\ UNCHANGED <<trackedRelays, released>>
       ELSE EndDirection(i, d)
  /\ UNCHANGED <<stage, far, given, connClosed, watchdog, leased, moved, billed>>

\* What ends a Write that is held: the far end's own end, or a Close that wakes it.
WriteWoken(i, d) ==
  IF d = "up" THEN far[i]["target"] = "closed"
              ELSE far[i]["client"] = "gone" \/ (i \in connClosed /\ FrontOf[i] = "pipe")

RelayWriteFails(i, d) ==
  /\ copier[i][d] = "held" /\ WriteWoken(i, d)
  /\ EndDirection(i, d)
  /\ UNCHANGED <<stage, far, waiting, given, connClosed, watchdog, leased,
                 moved, billed>>

\* The far end takes what was written to it, if it ever does.
SinkTakes(i, d) ==
  /\ copier[i][d] = "held" /\ ~WriteWoken(i, d)
  /\ moved' = [moved EXCEPT ![i][d] = @ + 1]
  /\ copier' = [copier EXCEPT ![i][d] = "call"]
  /\ UNCHANGED <<stage, far, waiting, given, connClosed, watchdog, leased,
                 trackedRelays, released, billed>>

\* Read returns an error: the far end is over, or we closed the connection.
ReadFails(i, d) ==
  /\ copier[i][d] = "parked"
  /\ \/ WokenByClose(i, d)
     \/ waiting[i][SourceOf[d]] = 0 /\ far[i][SourceOf[d]] \in {"ended", "gone"}
  /\ EndDirection(i, d)
  /\ UNCHANGED <<stage, far, waiting, given, connClosed, watchdog, leased,
                 moved, billed>>

\* The three relays run the same two goroutines.
Pump(i, d) == CallRead(i, d) \/ CopyChunk(i, d) \/ ReadFails(i, d) \/ RelayWriteFails(i, d)
TcpCopiers(i) == ProtoOf[i] = "tcp" /\ \E d \in Directions : Pump(i, d)
UdpPumps(i) == ProtoOf[i] = "udp" /\ FrontOf[i] = "h2" /\ \E d \in Directions : Pump(i, d)
FragUdpPumps(i) ==
  ProtoOf[i] = "udp" /\ FrontOf[i] # "h2" /\ \E d \in Directions : Pump(i, d)

\* No byte can be moved unless a far end sends or takes one: the only state in
\* which the idle window runs out.
RelayIdle(i) == \A d \in Directions :
             copier[i][d] \in {"done", "held"} \/
             (copier[i][d] = "parked" /\ waiting[i][SourceOf[d]] = 0)

\* The client's connection a watchdog closes: the one of a UDP stream over
\* HTTP/2 leaves the request body alone.
WatchdogCloses(i) == IF ProtoOf[i] = "tcp" \/ FrontOf[i] # "h2" THEN {i} ELSE {}

\* Close of a VK stream writes a CLOSE frame, behind the Write that is held.
CloseWaits(i) == FrontOf[i] = "vk" /\ copier[i]["down"] = "held"

\* leasedPacketConn.Close gives the lease back with the socket; the lease of
\* a TCP stream is the handler's.
CloseLeased(i) == leased' = IF ProtoOf[i] = "udp" THEN leased \ {i} ELSE leased

\* What a watchdog does: a TCP relay's closes the client's connection, then the
\* target's, a UDP relay's the packet socket first.
CloseEnds(i) ==
  /\ watchdog' = [watchdog EXCEPT ![i] = IF CloseWaits(i) THEN "closing" ELSE "fired"]
  /\ connClosed' = IF CloseWaits(i) THEN connClosed ELSE connClosed \cup WatchdogCloses(i)
  /\ far' = IF CloseWaits(i) /\ ProtoOf[i] = "tcp" THEN far
            ELSE [far EXCEPT ![i]["target"] = "closed"]
  /\ CloseLeased(i)

\* Fault: only the client's side is closed.
WatchdogClient(i) ==
  /\ stage[i] = "relay" /\ watchdog[i] = "armed" /\ RelayIdle(i)
  /\ watchdog' = [watchdog EXCEPT ![i] = "fired"]
  /\ connClosed' = connClosed \cup {i}
  /\ UNCHANGED <<stage, far, waiting, given, copier, leased, trackedRelays, released,
                 moved, billed>>

\* The watchdog closes both ends after the idle window (30 s of a TCP relay,
\* 90 s of a UDP one, which closes the packet socket and cancels).
WatchdogFires(i) ==
  /\ stage[i] = "relay" /\ watchdog[i] = "armed" /\ RelayIdle(i)
  /\ CloseEnds(i)
  /\ UNCHANGED <<stage, waiting, given, copier, trackedRelays, released, moved,
                 billed>>

\* UDP: a finished client-to-target goroutine cancelled the context, and the
\* watchdog closes the packet socket on the cancelled context.
CancelCloses(i) ==
  /\ ProtoOf[i] = "udp" /\ stage[i] = "relay"
  /\ watchdog[i] = "armed" /\ copier[i]["up"] = "done"
  /\ CloseEnds(i)
  /\ UNCHANGED <<stage, waiting, given, copier, trackedRelays, released, moved,
                 billed>>

\* The Write that was held has ended, and the Close behind it goes on; what was
\* closed before stays so.
CloseGoesOn(i) ==
  /\ stage[i] = "relay" /\ watchdog[i] = "closing" /\ ~CloseWaits(i)
  /\ CloseEnds(i)
  /\ UNCHANGED <<stage, waiting, given, copier, trackedRelays, released, moved,
                 billed>>

\* TCP waits for both goroutines; the UDP handler is the target's reader and
\* returns when that ends.
RelayOver(i) == IF ProtoOf[i] = "tcp" THEN \A d \in Directions : copier[i][d] = "done"
                                      ELSE copier[i]["down"] = "done"

\* The bytes are credited to the outbound ...
Account(i) ==
  /\ stage[i] = "relay" /\ RelayOver(i)
  /\ billed' = [billed EXCEPT ![i] = moved[i]]
  /\ stage' = [stage EXCEPT ![i] = "release"]
  /\ UNCHANGED <<far, waiting, given, copier, connClosed, watchdog, leased,
                 trackedRelays, released, moved>>

\* ... and the deferred calls give back counters, upstream and lease.
GiveBack(i) ==
  /\ stage[i] = "release"
  /\ ReleaseRelay(i)
  /\ far' = [far EXCEPT ![i]["target"] = "closed"]
  /\ leased' = leased \ {i}
  /\ watchdog' = [watchdog EXCEPT ![i] = "off"]
  /\ Leaves(i)
  /\ UNCHANGED <<waiting, given, copier, moved, billed>>

\* serveH2 drains the request body, for at most 5 s, then closes it.
DrainBody(i) ==
  /\ stage[i] = "drain"
  /\ stage' = [stage EXCEPT ![i] = "return"]
  /\ waiting' = [waiting EXCEPT ![i]["client"] = 0]
  /\ UNCHANGED <<far, given, copier, connClosed, watchdog, leased, trackedRelays,
                 released, moved, billed>>

\* The handler returns: the stream is over for the client, and a goroutine
\* still reading the body gets an error.
HandlerReturns(i) ==
  /\ stage[i] = "return"
  /\ stage' = [stage EXCEPT ![i] = "over"]
  /\ far' = [far EXCEPT ![i]["client"] = "gone"]
  /\ waiting' = [waiting EXCEPT ![i]["client"] = 0]
  /\ connClosed' = connClosed \cup {i}
  /\ trackedRelays' = [trackedRelays EXCEPT !["h2"] = IF FrontOf[i] = "h2" THEN @ - 1 ELSE @]
  /\ UNCHANGED <<given, copier, watchdog, leased, released, moved, billed>>

(***************************************************************************)
(* The far ends.                                                           *)
(***************************************************************************)
Reachable(i, e) == IF e = "client" THEN stage[i] # "idle" ELSE stage[i] = "relay"

FarSends(i, e) ==
  /\ Reachable(i, e) /\ far[i][e] = "open" /\ given[i][e] < MaxData
  /\ given' = [given EXCEPT ![i][e] = @ + 1]
  /\ waiting' = [waiting EXCEPT ![i][e] = @ + 1]
  /\ UNCHANGED <<stage, far, copier, connClosed, watchdog, leased, trackedRelays,
                 released, moved, billed>>

\* A client ends or loses its stream; a target of TCP ends its connection.
FarStops(i, e) ==
  /\ Reachable(i, e)
  /\ \/ /\ far[i][e] = "open" /\ (e = "client" \/ ProtoOf[i] = "tcp")
        /\ far' = [far EXCEPT ![i][e] = "ended"]
     \/ /\ e = "client" /\ far[i][e] \in {"open", "ended"}
        /\ far' = [far EXCEPT ![i][e] = "gone"]
  /\ UNCHANGED <<stage, waiting, given, copier, connClosed, watchdog, leased,
                 trackedRelays, released, moved, billed>>

RelayStep(i) ==
  \/ RejectStream(i) \/ ResolveOutbound(i) \/ RelayDialFails(i) \/ RelayDialSucceeds(i)
  \/ TcpCopiers(i) \/ UdpPumps(i) \/ FragUdpPumps(i)
  \/ WatchdogFires(i) \/ CancelCloses(i) \/ CloseGoesOn(i)
  \/ Account(i) \/ GiveBack(i) \/ DrainBody(i) \/ HandlerReturns(i)

RelayNext ==
  \E i \in RelayIds : \/ AcceptStream(i) \/ RelayStep(i)
                      \/ \E e \in FarEnds : FarSends(i, e) \/ FarStops(i, e)
                      \/ \E d \in Directions : SinkTakes(i, d)

RelaySpec == RelayInit /\ [][RelayNext]_relayVars

\* The handlers run, a dial ends by its timeout and the watchdog's ticker fires;
\* nothing is assumed of the far ends.
RelayFairness == WF_relayVars(\E i \in RelayIds : RelayStep(i))

(***************************************************************************)
(* Properties                                                              *)
(***************************************************************************)
\* The streams whose target is still read, and those with a handler of HTTP/2.
RelaysCounted ==
  {i \in RelayIds : CountsRelay(i) /\ stage[i] \in {"relay", "release"} /\ i \notin released}
StreamsServed == {i \in RelayIds : FrontOf[i] = "h2" /\ stage[i] \notin {"idle", "over"}}

\* The lease, the counters and the bill of a stream agree with where its
\* handler is, on every path out of it: an upstream is used only under a
\* lease, which a UDP stream gives back with its socket and a TCP stream at
\* the end of its handler, the relay counter is the number of streams whose target is still
\* read (an early release at the target's end and the deferred one count
\* once), and nobody is billed for more than was moved.
HeldExactly ==
  /\ \A i \in RelayIds :
       /\ i \in leased <=> /\ stage[i] \in {"dial", "relay", "release"}
                           /\ ProtoOf[i] = "udp" => far[i]["target"] # "closed"
       /\ \A d \in Directions : billed[i][d] <= moved[i][d]
       /\ stage[i] = "over" /\ ProtoOf[i] = "tcp" => billed[i] = moved[i]
  /\ trackedRelays["relay"] = Others + Cardinality(RelaysCounted)
  /\ trackedRelays["h2"] = Others + Cardinality(StreamsServed)

\* What keeps a handler for as long as its client is there: a Read of a TCP stream
\* over HTTP/2 whose client is silent, and a Write over HTTP/2 or VK whose client takes
\* nothing.  The watchdog's Close wakes neither.
HeldByClient(i) ==
  /\ far[i]["client"] # "gone"
  /\ \/ ProtoOf[i] = "tcp" /\ FrontOf[i] = "h2" /\ far[i]["client"] = "open"
     \/ FrontOf[i] \in {"h2", "vk"} /\ copier[i]["down"] = "held"

\* A handler returns, and its goroutines with it, once its client is gone, whatever the
\* target does, and also when both sides just fall silent, unless the client holds
\* a Read or a Write that no Close wakes; a stream of FragPoC always ends.
GoneEnds ==
  []<>(\A i \in RelayIds :
         \/ stage[i] = "idle"
         \/ stage[i] = "over" /\ \A d \in Directions : copier[i][d] \in {"off", "done"}
         \/ HeldByClient(i))
=============================================================================
