----------------------------- MODULE FragServer -----------------------------
(***************************************************************************)
(* A FragPoC server and its clients: the table of sessions with the        *)
(* operations on it, and the extra ports.  They share nothing.             *)
(***************************************************************************)
EXTENDS Integers, Sequences, FiniteSets, SequencesExt

-----------------------------------------------------------------------------
(***************************************************************************)
(* The session table of a FragPoC server and the operations of its clients *)
(* (internal/transport/fragpoc: server.go, client.go).  OPEN, UP and CLOSE *)
(* each use a connection of their own and one of the client's op tokens;   *)
(* any of them may be given up by the client while the server goes on with *)
(* it.  A session lives until its handler returns, it is closed, or nobody *)
(* used it for sessionTTL.                                                 *)
(*                                                                         *)
(* Abstractions.  Plain and secure operations differ in their encoding     *)
(* only.  Time is whether a session's lastUsed is too old.  What the       *)
(* producer reads is a number of frames there is still room for; its       *)
(* frames and the DOWN polls are in FragDown.                              *)
(***************************************************************************)
CONSTANTS
    Sids,       \* session identifiers, each drawn once
    FragOps,    \* operations at the same time
    OpTokens,   \* cap(opTokens)
    FrameRoom,  \* frames the producer can make before somebody polls
    MaxChunks   \* bound: UP chunks a session's client sends

ASSUME FragTableAssumption ==
    OpTokens \in Nat \ {0} /\ FrameRoom \in Nat /\ MaxChunks \in Nat

VARIABLES
    listed,    \* s.sessions
    tableShut,      \* sessions closed: their pipe is
    expired,   \* sessions whose lastUsed is older than sessionTTL
    handler,   \* of each session: "no", "running", "closing" or "ended"
    room,      \* frames its producer can still make
    stream,    \* the client's end: "no", "opening", "open" or "gone"
    tries,     \* UP chunks sent so far, which numbers them
    acked,     \* the chunks the client saw acknowledged
    got,       \* the chunks the handler's pipe received, in order
    op,        \* the operations
    stopped    \* Server.Close was called

fragTableVars == <<listed, tableShut, expired, handler, room, stream, tries, acked, got, op, stopped>>
sessionVars == <<listed, tableShut, expired, handler, room>>

NoOp == [kind |-> "none", sid |-> "", chunk |-> 0, client |-> "idle", server |-> "idle"]
Holding == {o \in FragOps : op[o].client = "waiting"}

TableInit ==
    /\ listed = {} /\ tableShut = {} /\ expired = {}
    /\ handler = [s \in Sids |-> "no"] /\ room = [s \in Sids |-> FrameRoom]
    /\ stream = [s \in Sids |-> "no"]
    /\ tries = [s \in Sids |-> 0]
    /\ acked = [s \in Sids |-> {}] /\ got = [s \in Sids |-> <<>>]
    /\ op = [o \in FragOps |-> NoOp] /\ stopped = FALSE

-----------------------------------------------------------------------------
(* The client. *)

\* acquireOpToken, dial and write.
Start(o, kind, s, chunk) ==
    /\ op[o] = NoOp /\ Cardinality(Holding) < OpTokens
    /\ op' = [op EXCEPT ![o] = [kind |-> kind, sid |-> s, chunk |-> chunk,
                                client |-> "waiting", server |-> "sent"]]

StartOpen(o, s) ==
    /\ stream[s] = "no" /\ Start(o, "open", s, 0)
    /\ stream' = [stream EXCEPT ![s] = "opening"]
    /\ UNCHANGED <<sessionVars, acked, got, tries, stopped>>

\* Conn.Write: writeMu keeps one chunk on its way at a time.  A Write after one that
\* failed sends on: only Close ends the stream.
StartUp(o, s) ==
    /\ stream[s] = "open" /\ tries[s] < MaxChunks
    /\ \A p \in Holding : op[p].sid # s
    /\ tries' = [tries EXCEPT ![s] = @ + 1]
    /\ Start(o, "up", s, tries[s] + 1)
    /\ UNCHANGED <<sessionVars, stream, acked, got, stopped>>

\* Conn.Close: the stream is over whether or not the server hears of it.
StartClose(o, s) ==
    /\ stream[s] = "open" /\ Start(o, "close", s, 0)
    /\ stream' = [stream EXCEPT ![s] = "gone"]
    /\ UNCHANGED <<sessionVars, acked, got, tries, stopped>>

\* The client of a stream vanishes without a CLOSE.
Vanish(s) ==
    /\ stream[s] = "open"
    /\ stream' = [stream EXCEPT ![s] = "gone"]
    /\ UNCHANGED <<sessionVars, acked, got, op, tries, stopped>>

\* The record is free again when both ends are through with the operation.
Settle(o, r) == IF r.client = "idle" /\ r.server = "idle" THEN NoOp ELSE r

\* The request is lost, or its connection fails before the server took it.
OpLost(o) ==
    /\ op[o].server = "sent"
    /\ op' = [op EXCEPT ![o] = Settle(o, [@ EXCEPT !.server = "idle"])]
    /\ UNCHANGED <<sessionVars, stream, acked, got, tries, stopped>>

\* The deadline of the operation passes, or its answer was an error: the token goes back
\* and the call returns the error.  The server may still be at it.
GivesUp(o) ==
    LET s == op[o].sid IN
    /\ op[o].client = "waiting" /\ op[o].server # "ok"
    /\ op' = [op EXCEPT ![o] = Settle(o, [@ EXCEPT !.client = "idle",
                                                   !.server = IF @ = "err" THEN "idle" ELSE @])]
    /\ stream' = [stream EXCEPT ![s] = IF op[o].kind = "open" THEN "gone" ELSE @]
    /\ UNCHANGED <<sessionVars, acked, got, tries, stopped>>

\* AckOK arrives.
Answered(o) ==
    LET s == op[o].sid IN
    /\ op[o].client = "waiting" /\ op[o].server = "ok"
    /\ op' = [op EXCEPT ![o] = NoOp]
    /\ stream' = [stream EXCEPT ![s] = IF op[o].kind = "open" THEN "open" ELSE @]
    /\ acked' = [acked EXCEPT ![s] = IF op[o].kind = "up" THEN @ \cup {op[o].chunk} ELSE @]
    /\ UNCHANGED <<sessionVars, got, tries, stopped>>

-----------------------------------------------------------------------------
(* The server. *)

\* cleanupExpiredLocked.
Kept == listed \ expired
Cleaned == tableShut \cup (listed \cap expired)

\* What is left of an operation whose client has gone has no answer to give.
ReplyOp(o, answer) ==
    op' = [op EXCEPT ![o] = IF @.client = "waiting" THEN [@ EXCEPT !.server = answer] ELSE NoOp]

\* handleOpen: the session is listed before the answer is written; when that
\* fails it is taken back, otherwise its handler and its producer start.
HandleFragOpen(o) ==
    LET s == op[o].sid IN
    /\ op[o].kind = "open" /\ op[o].server = "sent"
    /\ \/ /\ ReplyOp(o, "ok") /\ op[o].client = "waiting"
          /\ listed' = Kept \cup {s} /\ tableShut' = Cleaned
          /\ handler' = [handler EXCEPT ![s] = "running"]
       \/ /\ ReplyOp(o, "err")
          /\ listed' = Kept /\ tableShut' = Cleaned \cup {s}
          /\ UNCHANGED handler
    /\ UNCHANGED <<expired, room, stream, acked, got, tries, stopped>>

\* getSession, for an UP or a CLOSE.
FindSession(o) ==
    LET s == op[o].sid IN
    /\ op[o].kind \in {"up", "close"} /\ op[o].server = "sent"
    /\ listed' = Kept /\ tableShut' = Cleaned
    /\ IF s \in Kept /\ s \notin tableShut
         THEN op' = [op EXCEPT ![o].server = "found"]
         ELSE ReplyOp(o, "err")
    /\ UNCHANGED <<expired, handler, room, stream, acked, got, tries, stopped>>

\* Fault: the chunk is acknowledged before it is written.
WriteUpLate(o) ==
    LET s == op[o].sid IN
    /\ op[o].kind = "up" /\ op[o].server = "found"
    /\ expired' = expired \ {s} /\ ReplyOp(o, "ok")
    /\ got' = IF s \in tableShut THEN got ELSE [got EXCEPT ![s] = Append(@, op[o].chunk)]
    /\ UNCHANGED <<listed, tableShut, handler, room, stream, acked, tries, stopped>>

\* The chunk is written to the pipe under upMu, unless that is closed or stays
\* full for upWriteTimeout; then the session is touched.
WriteUp(o) ==
    LET s == op[o].sid IN
    /\ op[o].kind = "up" /\ op[o].server = "found"
    /\ \/ /\ s \notin tableShut /\ got' = [got EXCEPT ![s] = Append(@, op[o].chunk)]
          /\ expired' = expired \ {s} /\ ReplyOp(o, "ok")
       \/ ReplyOp(o, "err") /\ UNCHANGED <<got, expired>>
    /\ UNCHANGED <<listed, tableShut, handler, room, stream, acked, tries, stopped>>

\* handleClose.
RemoveSession(o) ==
    LET s == op[o].sid IN
    /\ op[o].kind = "close" /\ op[o].server = "found"
    /\ listed' = listed \ {s}
    /\ op' = [op EXCEPT ![o].server = "removed"]
    /\ UNCHANGED <<tableShut, expired, handler, room, stream, acked, got, tries, stopped>>
CloseSession(o) ==
    /\ op[o].kind = "close" /\ op[o].server = "removed"
    /\ tableShut' = tableShut \cup {op[o].sid} /\ ReplyOp(o, "ok")
    /\ UNCHANGED <<listed, expired, handler, room, stream, acked, got, tries, stopped>>

\* The handler returns, because it is done or because its pipe was closed; the
\* session is closed and then taken off the list.
HandlerReturns(s) ==
    /\ handler[s] = "running"
    /\ tableShut' = tableShut \cup {s} /\ handler' = [handler EXCEPT ![s] = "closing"]
    /\ UNCHANGED <<listed, expired, room, stream, acked, got, op, tries, stopped>>
HandlerGone(s) ==
    /\ handler[s] = "closing"
    /\ listed' = listed \ {s} /\ handler' = [handler EXCEPT ![s] = "ended"]
    /\ UNCHANGED <<tableShut, expired, room, stream, acked, got, op, tries, stopped>>

\* downProducer reads a chunk and touches the session; when nobody takes its
\* frames it stops.  A poll that takes one touches the session too.
ProducerReads(s) ==
    /\ handler[s] = "running" /\ s \notin tableShut /\ room[s] > 0
    /\ room' = [room EXCEPT ![s] = @ - 1] /\ expired' = expired \ {s}
    /\ UNCHANGED <<listed, tableShut, handler, stream, acked, got, op, tries, stopped>>
PollTakes(s) ==
    /\ handler[s] = "running" /\ stream[s] = "open" /\ room[s] < FrameRoom
    /\ room' = [room EXCEPT ![s] = @ + 1] /\ expired' = expired \ {s}
    /\ UNCHANGED <<listed, tableShut, handler, stream, acked, got, op, tries, stopped>>

\* sessionTTL passes without a use.
Expires(s) ==
    /\ s \in listed /\ s \notin expired /\ expired' = expired \cup {s}
    /\ UNCHANGED <<listed, tableShut, handler, room, stream, acked, got, op, tries, stopped>>

\* Fault: the list is cleaned, the sessions are left open.
ReapKeeps ==
    /\ ~stopped /\ listed \cap expired # {}
    /\ listed' = Kept
    /\ UNCHANGED <<tableShut, expired, handler, room, stream, acked, got, op, tries, stopped>>

\* A tick of reaperLoop.
Reap ==
    /\ ~stopped /\ listed \cap expired # {}
    /\ listed' = Kept /\ tableShut' = Cleaned
    /\ UNCHANGED <<expired, handler, room, stream, acked, got, op, tries, stopped>>

ServerCloses ==
    /\ ~stopped /\ stopped' = TRUE
    /\ UNCHANGED <<sessionVars, stream, acked, got, tries, op>>

ServeOp(o) == HandleFragOpen(o) \/ FindSession(o) \/ WriteUp(o) \/ RemoveSession(o) \/ CloseSession(o)
HandlerEnds(s) == (s \in tableShut /\ HandlerReturns(s)) \/ HandlerGone(s)

TableNext ==
    \/ \E o \in FragOps, s \in Sids : StartOpen(o, s) \/ StartUp(o, s) \/ StartClose(o, s)
    \/ \E o \in FragOps : OpLost(o) \/ GivesUp(o) \/ Answered(o) \/ ServeOp(o)
    \/ \E s \in Sids : \/ Vanish(s) \/ HandlerReturns(s) \/ HandlerGone(s)
                       \/ ProducerReads(s) \/ PollTakes(s) \/ Expires(s)
    \/ Reap \/ ServerCloses

TableSpec == TableInit /\ [][TableNext]_fragTableVars

-----------------------------------------------------------------------------
(* Properties. *)

\* What Write counted as sent is in the handler's pipe, each chunk once and in the order
\* of the Writes, and no chunk is there twice, although one that a Write gave up
\* may still arrive, late or never, among those of later Writes.
AckedArrived ==
    \A s \in Sids :
        /\ Cardinality(ToSet(got[s])) = Len(got[s])
        /\ SelectSeq(got[s], LAMBDA c : c \in acked[s]) = SetToSortSeq(acked[s], <)

\* A session whose client has gone, with or without a CLOSE that arrived, does
\* not keep its handler and upstream connection, as long as the reaper runs.
AbandonedEnds ==
    []<>(stopped \/ \A s \in Sids : stream[s] = "gone" => handler[s] \in {"no", "ended"})

-----------------------------------------------------------------------------
(***************************************************************************)
(* The extra ports of FragPoC.  At the server FragPoCPortManager           *)
(* (pkg/tamizdat/fragpoc_dynports.go) opens and closes listeners with the  *)
(* number of sessions, and opens those a client asks for; at the client    *)
(* nextDialPort and markPortResult (internal/transport/fragpoc/client.go)  *)
(* go round the ports and leave one that failed alone for a while.         *)
(*                                                                         *)
(* Abstractions.  A port is a small number, the base port is 0.  A bind    *)
(* that can fail is a port taken by somebody else.                         *)
(***************************************************************************)
CONSTANTS
    DynPorts,        \* the pool: ports other than the base port
    MaxPorts,        \* cfg.MaxPorts
    SessionsPerPort, \* fragPoCSessionsPerPort
    DownTicks,       \* fragPoCScaleDownTicks
    ListenAttempts,  \* fragPoCListenAttempts
    MaxLoad          \* bound: sessions

BasePort == 0
DialPorts == <<BasePort>> \o SetToSeq(DynPorts)   \* client.dialPorts

ASSUME FragPortsAssumption ==
    /\ DynPorts \subseteq Nat \ {BasePort} /\ IsFiniteSet(DynPorts)
    /\ MaxPorts \in Nat /\ {SessionsPerPort, DownTicks, ListenAttempts} \subseteq Nat \ {0} /\ MaxLoad \in Nat

VARIABLES
    listMode,   \* cfg.Mode = "list"
    load,       \* sessionCount()
    steady,     \* the load does not change any more
    taken,      \* ports somebody else listens on
    openOrder,  \* the manager's listeners in the order they were opened
    open,       \* the keys of m.listeners
    lowTicks,   \* m.lowTicks
    upBy, downBy,   \* what is left of a reconcileOnce
    tried,      \* attempted, of the scaleUp that runs
    portRR,     \* the client's index into DialPorts
    cooling,    \* ports in portCooldown that are not to be dialled yet
    dialling    \* the port a dial is on, or NoPort

NoPort == -1
portVars == <<listMode, load, steady, taken, openOrder, open, lowTicks, upBy, downBy, tried,
              portRR, cooling, dialling>>
clientSide == <<portRR, cooling, dialling>>

PortsInit ==
    /\ listMode \in BOOLEAN /\ load = 0 /\ steady = FALSE /\ taken \in SUBSET DynPorts
    \* Start: list mode opens what it can of the pool, for good.
    /\ openOrder = IF listMode THEN SetToSeq(DynPorts \ taken) ELSE <<>>
    /\ open = ToSet(openOrder)
    /\ lowTicks = 0 /\ upBy = 0 /\ downBy = 0 /\ tried = {}
    /\ portRR = 0 /\ cooling = {} /\ dialling = NoPort

-----------------------------------------------------------------------------
(* The server. *)

Load(n) ==
    /\ ~steady /\ load' = n
    /\ UNCHANGED <<listMode, steady, taken, openOrder, open, lowTicks, upBy, downBy, tried, clientSide>>
Steady ==
    /\ ~steady /\ steady' = TRUE
    /\ UNCHANGED <<listMode, load, taken, openOrder, open, lowTicks, upBy, downBy, tried, clientSide>>

CeilDiv(n, d) == (n + d - 1) \div d
Clamp(n, hi) == IF n < 0 THEN 0 ELSE IF n > hi THEN hi ELSE n
DesiredDynamicPorts == Clamp(CeilDiv(load, SessionsPerPort) - 1, MaxPorts)

\* Fault: every tick starts the count of low ticks anew.
ReconcileResets ==
    LET d == DesiredDynamicPorts
        cur == Cardinality(open)
    IN  /\ ~listMode /\ upBy = 0 /\ downBy = 0
        /\ upBy' = IF d > cur THEN d - cur ELSE 0
        /\ downBy' = 0
        /\ lowTicks' = 0 /\ tried' = {}
        /\ UNCHANGED <<listMode, load, steady, taken, openOrder, open, clientSide>>

\* A tick of Start's loop: up at once, down only after some low ticks in a row.
ReconcileOnce ==
    LET d == DesiredDynamicPorts
        cur == Cardinality(open)
        down == d < cur /\ lowTicks + 1 >= DownTicks
    IN  /\ ~listMode /\ upBy = 0 /\ downBy = 0
        /\ upBy' = IF d > cur THEN d - cur ELSE 0
        /\ downBy' = IF down THEN cur - d ELSE 0
        /\ lowTicks' = IF d < cur /\ ~down THEN lowTicks + 1 ELSE 0
        /\ tried' = {}
        /\ UNCHANGED <<listMode, load, steady, taken, openOrder, open, clientSide>>

OpenPort(p) == openOrder' = Append(openOrder, p) /\ open' = open \cup {p}
Candidates ==
    IF Cardinality(open) >= MaxPorts \/ Cardinality(tried) >= ListenAttempts THEN {}
    ELSE DynPorts \ (open \cup tried)

\* One attempt of scaleUp; a port that cannot be bound is not tried again.
ScaleUp ==
    /\ upBy > 0
    /\ \/ \E p \in Candidates \ taken :
            OpenPort(p) /\ upBy' = upBy - 1 /\ tried' = {}
       \/ \E p \in Candidates \cap taken :
            tried' = tried \cup {p} /\ UNCHANGED <<openOrder, open, upBy>>
       \/ /\ Candidates = {} /\ upBy' = upBy - 1 /\ tried' = {}
          /\ UNCHANGED <<openOrder, open>>
    /\ UNCHANGED <<listMode, load, steady, taken, lowTicks, downBy, clientSide>>

\* Fault: the listener is closed but stays in the map.
ScaleDownKeeps ==
    /\ upBy = 0 /\ downBy > 0 /\ downBy' = downBy - 1
    /\ openOrder' = IF openOrder = <<>> THEN openOrder ELSE Front(openOrder)
    /\ UNCHANGED <<listMode, load, steady, taken, open, lowTicks, upBy, tried, clientSide>>

\* scaleDown: the listener opened last goes first.
ScaleDown ==
    /\ upBy = 0 /\ downBy > 0 /\ downBy' = downBy - 1
    /\ IF openOrder = <<>> THEN UNCHANGED <<openOrder, open>>
       ELSE openOrder' = Front(openOrder) /\ open' = open \ {Last(openOrder)}
    /\ UNCHANGED <<listMode, load, steady, taken, lowTicks, upBy, tried, clientSide>>

\* OpPortHint: RequestPorts opens what the client asks for.
PortHint(p) ==
    /\ ~steady /\ p \notin open \cup taken /\ OpenPort(p)
    /\ UNCHANGED <<listMode, load, steady, taken, lowTicks, upBy, downBy, tried, clientSide>>

-----------------------------------------------------------------------------
(* The client. *)

\* nextDialPort: at most once round; the base port is always good.
Scan == [i \in 1..Len(DialPorts) |-> ((portRR + i - 1) % Len(DialPorts)) + 1]
Good(i) == DialPorts[Scan[i]] = BasePort \/ DialPorts[Scan[i]] \notin cooling
FirstGood == CHOOSE i \in DOMAIN Scan : Good(i) /\ \A j \in DOMAIN Scan : j < i => ~Good(j)

Dial ==
    /\ dialling = NoPort
    /\ dialling' = DialPorts[Scan[FirstGood]] /\ portRR' = Scan[FirstGood] % Len(DialPorts)
    /\ UNCHANGED <<listMode, load, steady, taken, openOrder, open, lowTicks, upBy, downBy, tried, cooling>>

\* markPortResult; a port that failed is followed by the base port.
DialEnds ==
    /\ dialling # NoPort
    /\ \/ cooling' = cooling \ {dialling} /\ dialling' = NoPort
       \/ dialling # BasePort /\ cooling' = cooling \cup {dialling} /\ dialling' = NoPort
    /\ UNCHANGED <<listMode, load, steady, taken, openOrder, open, lowTicks, upBy, downBy, tried, portRR>>

CooledDown(p) ==
    /\ p \in cooling /\ cooling' = cooling \ {p}
    /\ UNCHANGED <<listMode, load, steady, taken, openOrder, open, lowTicks, upBy, downBy, tried,
                   portRR, dialling>>

ManagerStep == ReconcileOnce \/ ScaleUp \/ ScaleDown

PortsNext ==
    \/ \E n \in 0..MaxLoad : Load(n)
    \/ Steady \/ ManagerStep \/ Dial \/ DialEnds
    \/ \E p \in DynPorts : PortHint(p) \/ CooledDown(p)

PortsSpec == PortsInit /\ [][PortsNext]_portVars

-----------------------------------------------------------------------------
(* Properties. *)

\* openOrder names each listener once, so that scaling down closes as many
\* listeners as it means to and never one that is gone.
OrderMatches == ToSet(openOrder) = open /\ Len(openOrder) = Cardinality(open)

\* When the number of sessions stays as it is, the number of extra ports settles
\* at what that number calls for, or at what could be bound.
PortsSettle ==
    <>[](~steady \/ listMode \/
          Cardinality(open) = Clamp(DesiredDynamicPorts, Cardinality(DynPorts \ taken)))
=============================================================================
