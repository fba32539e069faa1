--------------------------- MODULE ClientReorder ----------------------------
(***************************************************************************)
(* bondReorderBuffer of the wgturn client                                  *)
(* (internal/wgturnclient/bondv2.go) in the writeLoop of its dispatcher,   *)
(* which alone calls push and flushExpired.  Unlike the server's it gives  *)
(* up what it holds when a frame a whole window ahead arrives.  A payload  *)
(* is its sequence number; `first` is the time elapsed since, in ticks of  *)
(* reorderTicker.                                                          *)
(***************************************************************************)
EXTENDS Integers

CONSTANTS
    ClientWindow,  \* bondReorderWindow
    ClientHold,  \* bondReorderHold, in ticks
    ClientMaxSeq  \* bound on the sequence numbers

ASSUME ClientReorderAssumption ==
    ClientWindow \in Nat \ {0} /\ ClientHold \in Nat /\ ClientMaxSeq \in Nat

ClientSeqs == 1..ClientMaxSeq
ClientNotSet == -1        \* first.IsZero()

VARIABLES
    expect,     \* r.expect
    buf,        \* the sequences in r.buf
    first,      \* r.first
    clientReceived,  \* every sequence that has arrived (history)
    clientDelivered  \* every sequence written to WireGuard (history)

clientVars == <<expect, buf, first, clientReceived, clientDelivered>>

ClientInit ==
    /\ expect = 1
    /\ buf = {}
    /\ first = ClientNotSet
    /\ clientReceived = {} /\ clientDelivered = {}

\* The state after n is handed on with b in the buffer: drainContiguous goes
\* on to the first sequence that is missing.
ClientStops(b, n) == {m \in (n + 1)..(n + ClientWindow) : m \notin b}
HandOn(b, n) ==
    LET e == CHOOSE m \in ClientStops(b, n) : \A k \in ClientStops(b, n) : m <= k IN
    /\ expect' = e
    /\ buf' = b \ (n..(e - 1))
    /\ clientDelivered' = clientDelivered \cup (n..(e - 1))

Arrives(n) == clientReceived' = clientReceived \cup {n}

ClientPushLate(n) ==
    /\ n = 0 \/ n < expect
    /\ Arrives(n)
    /\ UNCHANGED <<expect, buf, first, clientDelivered>>

PushExpected(n) ==
    /\ n = expect
    /\ HandOn(buf, n)
    /\ first' = IF buf' = {} THEN ClientNotSet ELSE first
    /\ Arrives(n)

ClientPushDuplicate(n) ==
    /\ n > expect /\ n \in buf
    /\ Arrives(n)
    /\ UNCHANGED <<expect, buf, first, clientDelivered>>

\* A frame a window ahead: the buffer is replaced, and push called again with
\* the frame as the expected one.
PushJump(n) ==
    /\ n > expect /\ n \notin buf /\ n - expect >= ClientWindow
    /\ HandOn({}, n)
    /\ first' = ClientNotSet
    /\ Arrives(n)

PushHold(n) ==
    /\ n > expect /\ n \notin buf /\ n - expect < ClientWindow
    /\ buf' = buf \cup {n}
    /\ first' = IF first = ClientNotSet THEN 0 ELSE first
    /\ Arrives(n)
    /\ UNCHANGED <<expect, clientDelivered>>

ClientExpired == buf # {} /\ first # ClientNotSet /\ first >= ClientHold
ClientLowest == CHOOSE n \in buf : \A m \in buf : n <= m

\* Fault: the missing frame is still expected.
FlushExpiredKeepsExpect ==
    /\ ClientExpired
    /\ buf' = buf \ {ClientLowest} /\ clientDelivered' = clientDelivered \cup {ClientLowest}
    /\ first' = IF buf' = {} THEN ClientNotSet ELSE 0
    /\ UNCHANGED <<expect, clientReceived>>

\* flushExpired, on a tick.
ClientFlushExpired ==
    /\ ClientExpired
    /\ HandOn(buf, ClientLowest)
    /\ first' = IF buf' = {} THEN ClientNotSet ELSE 0
    /\ UNCHANGED clientReceived

\* A tick that finds nothing expired.
ClientTick ==
    /\ ~ClientExpired
    /\ first' = IF first = ClientNotSet THEN ClientNotSet ELSE first + 1
    /\ UNCHANGED <<expect, buf, clientReceived, clientDelivered>>

ClientPush(n) ==
    ClientPushLate(n) \/ PushExpected(n) \/ ClientPushDuplicate(n) \/ PushJump(n) \/ PushHold(n)

ClientNext == (\E n \in 0..ClientMaxSeq : ClientPush(n)) \/ ClientFlushExpired \/ ClientTick

ClientSpec == ClientInit /\ [][ClientNext]_clientVars

-----------------------------------------------------------------------------
\* The values the fields of bondReorderBuffer can take.
ClientTypeOK ==
    /\ expect \in Nat \ {0}
    /\ buf \subseteq ClientSeqs
    /\ first \in Nat \cup {ClientNotSet}
    /\ clientReceived \subseteq 0..ClientMaxSeq /\ clientDelivered \subseteq ClientSeqs

\* The map holds only sequences within a window after the missing one: fewer
\* than ClientWindow of them, and none that was passed over and would never leave.
BufInWindow == \A n \in buf : expect < n /\ n < expect + ClientWindow

\* The clock of a gap runs exactly while frames wait behind it.
ClientGapTimed == first = ClientNotSet <=> buf = {}

\* A frame leaves the map to WireGuard, unless the lane jumps a whole window.
LeavesToWireGuard ==
    [][\A n \in buf : n \in buf' \cup clientDelivered' \/ expect' > expect + ClientWindow]_clientVars

ClientLane == INSTANCE OrderedLane WITH received <- clientReceived,
                                       delivered <- clientDelivered

\* The lane's promise: what push and flushExpired hand on was received and is in
\* order.
ClientInOrder == ClientLane!Spec
=============================================================================
