------------------------------ MODULE Prewarm -------------------------------
(***************************************************************************)
(* The pool of connections dialled ahead to one masquerade origin: its     *)
(* replenisher fills a channel of PoolSize, handlers take from it, Close   *)
(* stops the one and drains the other.  Register is in the initial state.  *)
(***************************************************************************)
EXTENDS Naturals, Sequences

CONSTANTS
    WarmConns,  \* connections, each dialled once
    Takers,     \* handlers that call Take, once each
    PoolSize

ASSUME PrewarmAssumption == PoolSize \in Nat \ {0}

VARIABLES
    state,      \* of a connection: "none", "held" by the replenisher, "pooled",
                \* "stale" (pooled beyond maxAge), "taken", "closed"
    channel,
    filler,     \* the replenisher: "check", "dial", "send", "wait", "gone"
    taker,      \* "idle", "taking", "done"
    closer,     \* "open", "stopped", "draining", "closed"
    listed      \* whether the origin is still in the map

prewarmVars == <<state, channel, filler, taker, closer, listed>>

PrewarmInit ==
    /\ state = [c \in WarmConns |-> "none"] /\ channel = <<>>
    /\ filler = "check" /\ taker = [t \in Takers |-> "idle"]
    /\ closer = "open" /\ listed = TRUE

Stopped == closer # "open"

-----------------------------------------------------------------------------
(* replenisher and fill *)

\* The channel is full, or the pool is stopping: fill returns.
FillReturns ==
    /\ filler = "check" /\ (Len(channel) >= PoolSize \/ Stopped)
    /\ filler' = "wait"
    /\ UNCHANGED <<state, channel, taker, closer, listed>>

FillDials ==
    /\ filler = "check" /\ Len(channel) < PoolSize /\ ~Stopped
    /\ filler' = "dial"
    /\ UNCHANGED <<state, channel, taker, closer, listed>>

DialFails ==
    /\ filler = "dial"
    /\ filler' = "wait"
    /\ UNCHANGED <<state, channel, taker, closer, listed>>

DialSucceeds(c) ==
    /\ filler = "dial" /\ state[c] = "none"
    /\ state' = [state EXCEPT ![c] = "held"] /\ filler' = "send"
    /\ UNCHANGED <<channel, taker, closer, listed>>

\* The send: into the channel, or closed if that is full.
Send(c) ==
    /\ filler = "send" /\ state[c] = "held"
    /\ IF Len(channel) < PoolSize
         THEN /\ channel' = Append(channel, c) /\ filler' = "check"
              /\ state' = [state EXCEPT ![c] = "pooled"]
         ELSE /\ state' = [state EXCEPT ![c] = "closed"] /\ filler' = "wait"
              /\ UNCHANGED channel
    /\ UNCHANGED <<taker, closer, listed>>

\* select of stop and the ticker: with both ready either is taken.
Ticks ==
    /\ filler = "wait"
    /\ filler' = "check"
    /\ UNCHANGED <<state, channel, taker, closer, listed>>

FillerExits ==
    /\ filler = "wait" /\ Stopped
    /\ filler' = "gone"
    /\ UNCHANGED <<state, channel, taker, closer, listed>>

Filler == FillReturns \/ FillDials \/ DialFails \/ Ticks \/ FillerExits
          \/ \E c \in WarmConns : DialSucceeds(c) \/ Send(c)

-----------------------------------------------------------------------------
(* Take *)

\* The origin is unknown once Close has deleted it: a direct dial.
TakeStart(t) ==
    /\ taker[t] = "idle"
    /\ taker' = [taker EXCEPT ![t] = IF listed THEN "taking" ELSE "done"]
    /\ UNCHANGED <<state, channel, filler, closer, listed>>

\* One receive: a stale connection is closed and the loop goes on.
TakeReceive(t) ==
    /\ taker[t] = "taking" /\ channel # <<>>
    /\ channel' = Tail(channel)
    /\ IF state[Head(channel)] = "stale"
         THEN state' = [state EXCEPT ![Head(channel)] = "closed"] /\ UNCHANGED taker
         ELSE /\ state' = [state EXCEPT ![Head(channel)] = "taken"]
              /\ taker' = [taker EXCEPT ![t] = "done"]
    /\ UNCHANGED <<filler, closer, listed>>

\* The channel is empty: a direct dial.
TakeDials(t) ==
    /\ taker[t] = "taking" /\ channel = <<>>
    /\ taker' = [taker EXCEPT ![t] = "done"]
    /\ UNCHANGED <<state, channel, filler, closer, listed>>

Age(c) ==
    /\ state[c] = "pooled"
    /\ state' = [state EXCEPT ![c] = "stale"]
    /\ UNCHANGED <<channel, filler, taker, closer, listed>>

-----------------------------------------------------------------------------
(* Close *)

PrewarmStop ==
    /\ closer = "open"
    /\ closer' = "stopped"
    /\ UNCHANGED <<state, channel, filler, taker, listed>>

\* Fault: the replenishers are not waited for.
WaitedNot ==
    /\ closer = "stopped"
    /\ closer' = "draining"
    /\ UNCHANGED <<state, channel, filler, taker, listed>>

Waited ==
    /\ closer = "stopped" /\ filler = "gone"
    /\ closer' = "draining"
    /\ UNCHANGED <<state, channel, filler, taker, listed>>

Drain ==
    /\ closer = "draining" /\ channel # <<>>
    /\ channel' = Tail(channel) /\ state' = [state EXCEPT ![Head(channel)] = "closed"]
    /\ UNCHANGED <<filler, taker, closer, listed>>

CloseReturns ==
    /\ closer = "draining" /\ channel = <<>>
    /\ closer' = "closed" /\ listed' = FALSE
    /\ UNCHANGED <<state, channel, filler, taker>>

PrewarmNext ==
    \/ Filler
    \/ \E t \in Takers : TakeStart(t) \/ TakeReceive(t) \/ TakeDials(t)
    \/ \E c \in WarmConns : Age(c)
    \/ PrewarmStop \/ Waited \/ Drain \/ CloseReturns

PrewarmSpec == PrewarmInit /\ [][PrewarmNext]_prewarmVars

-----------------------------------------------------------------------------
\* When Close has returned every connection dialled ahead is closed or in the
\* hands of a handler, whatever the replenisher and the takers were doing.
NoneLeft == closer = "closed" => \A c \in WarmConns : state[c] \in {"none", "taken", "closed"}
=============================================================================
