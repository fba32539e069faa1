----------------------------- MODULE TunDialer -----------------------------
(***************************************************************************)
(* Admission of flows from the TUN stack (internal/tunengine,              *)
(* dialer_native.go).                                                      *)
(*                                                                         *)
(* A dial passes five gates in turn: the recovery window, the gate of its  *)
(* target, an active slot, the open pace and an open slot.  The deferred   *)
(* functions give them back in the opposite order, except the active slot  *)
(* of a dial that succeeded: its connection keeps that until it is closed, *)
(* by its owner, by a dial that finds no slot free, or by the reaper.      *)
(* Instants are abstracted to what the code asks of them: whether a        *)
(* cooldown or a rate window is over, and how long a flow has been idle.   *)
(***************************************************************************)
EXTENDS Naturals, FiniteSets

CONSTANTS
    TunDials,      \* flows of the stack; each has at most one dial or connection
    TunTargets,
    PerTarget,     \* maxConcurrentPerTarget
    ActiveCap,     \* dialActiveConcurrency
    OpenCap,       \* dialConcurrency
    CoolAfter,     \* targetFailuresBeforeCooldown
    NoisyOver,     \* noisyTargetThreshold
    RecoveryAfter, \* dialRecoveryThreshold
    NoVictim

ASSUME TunDialerAssumption ==
    /\ IsFiniteSet(TunDials) /\ NoVictim \notin TunDials /\ TunTargets # {}
    /\ {PerTarget, ActiveCap, OpenCap, CoolAfter, NoisyOver,
        RecoveryAfter} \subseteq Nat \ {0}

VARIABLES
    tpc, target, targetOK,  \* DialContext of each flow
    waitOn,      \* what a dial at a closed gate waits for: "timer" or "change"
    gateGone,    \* the gate it waits at has left the table
    gate,        \* targetGates: the gate of each target
    activeSlots, openSlots,
    tokenHeld,   \* the release function of the dial's active slot has not run
    activeConns, conn, idleFor, abandoned,
    victim,      \* the connection a waiting dial is about to evict
    reaper, victims,
    recoveryFailures, recovering,
    udp

dialVars == <<tpc, target, targetOK, waitOn, gateGone>>
slotVars == <<activeSlots, openSlots, tokenHeld>>
connVars == <<activeConns, conn, idleFor, abandoned, victim, victims>>
recVars == <<recoveryFailures, recovering>>
tunDialVars == <<dialVars, gate, slotVars, connVars, reaper, recVars, udp>>

\* A gate that is not in the table, and one just made for a dial.
NoGate == [there |-> FALSE, inFlight |-> 0, cool |-> "zero", failures |-> 0, opens |-> 0,
           window |-> "stale"]

TunDialInit ==
    /\ tpc = [d \in TunDials |-> "idle"]
    /\ target = [d \in TunDials |-> CHOOSE t \in TunTargets : TRUE]
    /\ targetOK = [d \in TunDials |-> FALSE]
    /\ waitOn = [d \in TunDials |-> "none"] /\ gateGone = [d \in TunDials |-> FALSE]
    /\ gate = [t \in TunTargets |-> NoGate]
    /\ activeSlots = 0 /\ openSlots = 0
    /\ tokenHeld = [d \in TunDials |-> FALSE]
    /\ activeConns = {} /\ conn = [d \in TunDials |-> "none"]
    /\ idleFor = [d \in TunDials |-> 0] /\ abandoned = [d \in TunDials |-> FALSE]
    /\ victim = [d \in TunDials |-> NoVictim]
    /\ reaper = "sleep" /\ victims = {}
    /\ recoveryFailures = 0 /\ recovering = FALSE
    /\ udp = "idle"

Goes(d, from, to) == tpc[d] = from /\ tpc' = [tpc EXCEPT ![d] = to]

-----------------------------------------------------------------------------
(* The recovery window. *)

\* DialContext up to the recovery wait.  A junk, blocked, private or IPv6
\* destination is refused before that and touches nothing modelled here.
StartDial(d) ==
    /\ conn[d] = "none" /\ Goes(d, "idle", "recovery")
    /\ \E t \in TunTargets : target' = [target EXCEPT ![d] = t]
    /\ UNCHANGED <<targetOK, waitOn, gateGone, gate, slotVars, connVars, reaper, recVars, udp>>

WaitRecoveryWindow(d) ==
    /\ ~recovering /\ Goes(d, "recovery", "gate")
    /\ UNCHANGED <<target, targetOK, waitOn, gateGone, gate, slotVars, connVars, reaper,
                   recVars, udp>>

\* The context ends in the recovery wait: not counted as a failed admission.
RecoveryCancelled(d) ==
    /\ recovering /\ Goes(d, "recovery", "idle")
    /\ UNCHANGED <<target, targetOK, waitOn, gateGone, gate, slotVars, connVars, reaper,
                   recVars, udp>>

\* A success clears the count; a failure inside a window is not counted.
RecordDialAdmission(d) ==
    /\ Goes(d, "record", "idle") /\ targetOK' = [targetOK EXCEPT ![d] = FALSE]
    /\ IF targetOK[d] THEN recoveryFailures' = 0 /\ UNCHANGED recovering
       ELSE IF recovering THEN UNCHANGED recVars
       ELSE /\ recoveryFailures' = (recoveryFailures + 1) % RecoveryAfter
            /\ recovering' = (recoveryFailures + 1 = RecoveryAfter)
    /\ UNCHANGED <<target, waitOn, gateGone, gate, slotVars, connVars, reaper, udp>>

RecoveryOver ==
    /\ recovering /\ recovering' = FALSE
    /\ UNCHANGED <<dialVars, gate, slotVars, connVars, reaper, recoveryFailures, udp>>

-----------------------------------------------------------------------------
(* The gate of the target. *)

\* noteOpen: opens counts those of the live window, up to what isNoisy asks.
NoteOpen(g) ==
    [g EXCEPT !.inFlight = @ + 1, !.window = "live",
              !.opens = IF g.opens > NoisyOver THEN @ ELSE @ + 1]

\* One turn of the loop of acquireTargetGate, under targetMu.
AcquireTargetGate(d) ==
    LET g == [gate[target[d]] EXCEPT !.there = TRUE]
    IN  /\ tpc[d] = "gate"
        /\ IF g.inFlight < PerTarget /\ g.cool # "future"
             THEN /\ gate' = [gate EXCEPT ![target[d]] = NoteOpen(g)]
                  /\ Goes(d, "gate", "active") /\ UNCHANGED <<waitOn, gateGone>>
             ELSE /\ gate' = [gate EXCEPT ![target[d]] = g]
                  /\ Goes(d, "gate", "gateWait")
                  /\ waitOn' = [waitOn EXCEPT ![d] = IF g.cool = "future" THEN "timer" ELSE "change"]
                  /\ gateGone' = [gateGone EXCEPT ![d] = FALSE]
        /\ UNCHANGED <<target, targetOK, slotVars, connVars, reaper, recVars, udp>>

NotWaiting(d) ==
    /\ waitOn' = [waitOn EXCEPT ![d] = "none"] /\ gateGone' = [gateGone EXCEPT ![d] = FALSE]

\* The timer was set to the end of the cooldown read with the gate.
GateTimer(d) ==
    /\ waitOn[d] = "timer" /\ (gateGone[d] \/ gate[target[d]].cool # "future")
    /\ Goes(d, "gateWait", "gate") /\ NotWaiting(d)
    /\ UNCHANGED <<target, targetOK, gate, slotVars, connVars, reaper, recVars,
                   udp>>

GateCancelled(d) ==
    /\ Goes(d, "gateWait", "record") /\ NotWaiting(d)
    /\ UNCHANGED <<target, targetOK, gate, slotVars, connVars, reaper, recVars,
                   udp>>

Waiters(t) == {d \in TunDials : tpc[d] = "gateWait" /\ target[d] = t /\ ~gateGone[d]}

\* isNoisy on success, targetFailuresBeforeCooldown on failure.
Cooled(g, ok) ==
    IF ok THEN [g EXCEPT !.failures = 0,
                         !.cool = IF g.window = "live" /\ g.opens > NoisyOver THEN "future" ELSE "zero"]
    ELSE LET n == IF g.failures < CoolAfter THEN g.failures + 1 ELSE CoolAfter
         IN  [g EXCEPT !.failures = n, !.cool = IF n = CoolAfter THEN "future" ELSE @]

Left(g, ok) == Cooled([g EXCEPT !.inFlight = @ - 1], ok)

\* Fault: the dials that wait are not told.
ReleaseTargetGateQuiet(d) ==
    /\ Goes(d, "unwindGate", "record")
    /\ gate' = [gate EXCEPT ![target[d]] = Left(@, targetOK[d])]
    /\ UNCHANGED <<target, targetOK, waitOn, gateGone, slotVars, connVars, reaper, recVars,
                   udp>>

\* Under targetMu: the state of the gate, close(changed), which sends every
\* waiter round its loop, and the removal of a gate that carries nothing.
ReleaseTargetGate(d) ==
    LET t == target[d]
        g == Left(gate[t], targetOK[d])
    IN  /\ tpc[d] = "unwindGate"
        /\ gate' = [gate EXCEPT ![t] =
                      IF g.inFlight = 0 /\ g.cool = "zero" /\ g.window = "stale" THEN NoGate ELSE g]
        /\ tpc' = [e \in TunDials |-> IF e = d THEN "record"
                                      ELSE IF e \in Waiters(t) THEN "gate" ELSE tpc[e]]
        /\ waitOn' = [e \in TunDials |-> IF e \in Waiters(t) THEN "none" ELSE waitOn[e]]
        /\ UNCHANGED <<target, targetOK, gateGone, slotVars, connVars, reaper, recVars, udp>>

CooldownOver(t) ==
    /\ gate[t].cool = "future" /\ gate' = [gate EXCEPT ![t].cool = "past"]
    /\ UNCHANGED <<dialVars, slotVars, connVars, reaper, recVars, udp>>

WindowOver(t) ==
    /\ gate[t].window = "live" /\ gate' = [gate EXCEPT ![t].window = "stale", ![t].opens = 0]
    /\ UNCHANGED <<dialVars, slotVars, connVars, reaper, recVars, udp>>

-----------------------------------------------------------------------------
(* Slots, pace and the attempts. *)

AcquireActiveSlot(d) ==
    /\ activeSlots < ActiveCap /\ Goes(d, "active", "pace")
    /\ activeSlots' = activeSlots + 1 /\ tokenHeld' = [tokenHeld EXCEPT ![d] = TRUE]
    /\ UNCHANGED <<target, targetOK, waitOn, gateGone, gate, openSlots,
                   connVars, reaper, recVars, udp>>

\* activeSlotEvictWait without a slot: the connection longest idle is chosen
\* under activeMu and closed after it, in EvictClose.
EvictPick(d) ==
    /\ Goes(d, "active", "evict")
    /\ \E v \in activeConns :
         /\ \A c \in activeConns : idleFor[c] <= idleFor[v]
         /\ idleFor[v] >= 1 /\ victim' = [victim EXCEPT ![d] = v]
    /\ UNCHANGED <<target, targetOK, waitOn, gateGone, gate, slotVars, activeConns, conn,
                   idleFor, abandoned, victims, reaper, recVars, udp>>

\* The token bucket of the pace: a wait of some length.
AcquireOpenPace(d) ==
    /\ Goes(d, "pace", "open")
    /\ UNCHANGED <<target, targetOK, waitOn, gateGone, gate, activeSlots, openSlots,
                   tokenHeld, connVars, reaper, recVars, udp>>

AcquireOpenSlot(d) ==
    /\ openSlots < OpenCap /\ openSlots' = openSlots + 1 /\ Goes(d, "open", "attempt")
    /\ UNCHANGED <<target, targetOK, waitOn, gateGone, gate, activeSlots,
                   tokenHeld, connVars, reaper, recVars, udp>>

\* The connection takes over the active slot and is registered.
AttemptOK(d) ==
    /\ Goes(d, "attempt", "unwindOpen")
    /\ targetOK' = [targetOK EXCEPT ![d] = TRUE]
    /\ conn' = [conn EXCEPT ![d] = "open"] /\ activeConns' = activeConns \cup {d}
    /\ idleFor' = [idleFor EXCEPT ![d] = 0] /\ abandoned' = [abandoned EXCEPT ![d] = FALSE]
    /\ UNCHANGED <<target, waitOn, gateGone, gate, slotVars, victim, victims, reaper,
                   recVars, udp>>

\* A hard error, the last of the transient ones, the end of the context, or too
\* little of it left for an attempt: the deferred functions run, the last first.
GiveUpDial(d) ==
    /\ tpc[d] \in {"active", "pace", "open", "attempt"}
    /\ tpc' = [tpc EXCEPT ![d] = CASE tpc[d] = "attempt" -> "unwindOpen"
                                   [] tpc[d] = "active" -> "unwindGate"
                                   [] OTHER -> "unwindActive"]
    /\ UNCHANGED <<target, targetOK, waitOn, gateGone, gate, slotVars, connVars, reaper,
                   recVars, udp>>

ReleaseOpenSlot(d) ==
    /\ Goes(d, "unwindOpen", IF targetOK[d] THEN "unwindGate" ELSE "unwindActive")
    /\ openSlots' = openSlots - 1
    /\ UNCHANGED <<target, targetOK, waitOn, gateGone, gate, activeSlots,
                   tokenHeld, connVars, reaper, recVars, udp>>

ReleaseActiveSlot(d) ==
    /\ Goes(d, "unwindActive", "unwindGate")
    /\ activeSlots' = activeSlots - 1 /\ tokenHeld' = [tokenHeld EXCEPT ![d] = FALSE]
    /\ UNCHANGED <<target, targetOK, waitOn, gateGone, gate, openSlots,
                   connVars, reaper, recVars, udp>>

\* DialUDP takes an open slot for the time of its attempts, and only that.
DialUDP ==
    /\ \/ udp = "idle" /\ openSlots < OpenCap /\ udp' = "attempt" /\ openSlots' = openSlots + 1
       \/ udp = "attempt" /\ udp' = "idle" /\ openSlots' = openSlots - 1
    /\ UNCHANGED <<dialVars, gate, activeSlots, tokenHeld, connVars, reaper, recVars>>

-----------------------------------------------------------------------------
(* Connections: activity, Close, eviction and the reaper. *)

\* The first half of activeSlotConn.Close: release runs once.
CloseTunConn(c) ==
    IF conn[c] = "open"
      THEN /\ conn' = [conn EXCEPT ![c] = "closing"]
           /\ activeSlots' = activeSlots - 1 /\ tokenHeld' = [tokenHeld EXCEPT ![c] = FALSE]
      ELSE UNCHANGED <<conn, activeSlots, tokenHeld>>

\* The second half: unregister.  The victims name the connection, not the flow.
Unregister(c) ==
    /\ conn[c] = "closing" /\ conn' = [conn EXCEPT ![c] = "none"]
    /\ activeConns' = activeConns \ {c} /\ victims' = victims \ {c}
    /\ victim' = [d \in TunDials |-> IF victim[d] = c THEN NoVictim ELSE victim[d]]
    /\ idleFor' = [idleFor EXCEPT ![c] = 0] /\ abandoned' = [abandoned EXCEPT ![c] = FALSE]
    /\ UNCHANGED <<dialVars, gate, slotVars, reaper, recVars, udp>>

OwnerCloses(c) ==
    /\ conn[c] = "open" /\ tpc[c] = "idle" /\ ~abandoned[c] /\ CloseTunConn(c)
    /\ UNCHANGED <<dialVars, gate, openSlots, activeConns, idleFor, abandoned, victim,
                   victims, reaper, recVars, udp>>

Touch(c) ==
    /\ conn[c] = "open" /\ tpc[c] = "idle" /\ ~abandoned[c] /\ idleFor[c] > 0
    /\ idleFor' = [idleFor EXCEPT ![c] = 0]
    /\ UNCHANGED <<dialVars, gate, slotVars, activeConns, conn, abandoned, victim, victims, reaper,
                   recVars, udp>>

\* Past activeSlotSoftEvictIdle (1), then past activeSlotIdleTimeout (2).
DialTimePasses(c) ==
    /\ conn[c] = "open" /\ idleFor[c] < 2 /\ idleFor' = [idleFor EXCEPT ![c] = @ + 1]
    /\ UNCHANGED <<dialVars, gate, slotVars, activeConns, conn, abandoned, victim, victims, reaper,
                   recVars, udp>>

\* "a browser killed mid-storm": the stack never tears the flow down.
AbandonDial(c) ==
    /\ conn[c] = "open" /\ tpc[c] = "idle" /\ abandoned' = [abandoned EXCEPT ![c] = TRUE]
    /\ UNCHANGED <<dialVars, gate, slotVars, activeConns, conn, idleFor, victim, victims, reaper,
                   recVars, udp>>

EvictClose(d) ==
    /\ Goes(d, "evict", "active") /\ victim' = [victim EXCEPT ![d] = NoVictim]
    /\ IF victim[d] = NoVictim THEN UNCHANGED <<conn, activeSlots, tokenHeld>>
                               ELSE CloseTunConn(victim[d])
    /\ UNCHANGED <<target, targetOK, waitOn, gateGone, gate, openSlots,
                   activeConns, idleFor, abandoned, victims, reaper, recVars, udp>>

\* Fault: no connection is ever past the limit.
ReapPickNone ==
    /\ reaper = "sleep" /\ reaper' = "reap" /\ victims' = {}
    /\ UNCHANGED <<dialVars, gate, slotVars, activeConns, conn, idleFor, abandoned, victim, recVars,
                   udp>>

\* A tick of summaryLoop: reapIdleActiveConns chooses under activeMu.
ReapPick ==
    /\ reaper = "sleep" /\ reaper' = "reap"
    /\ victims' = {c \in activeConns : idleFor[c] = 2}
    /\ UNCHANGED <<dialVars, gate, slotVars, activeConns, conn, idleFor, abandoned, victim,
                   recVars, udp>>

ReapClose(c) ==
    /\ reaper = "reap" /\ c \in victims /\ victims' = victims \ {c} /\ CloseTunConn(c)
    /\ UNCHANGED <<dialVars, gate, openSlots, activeConns, idleFor, abandoned, victim,
                   reaper, recVars, udp>>

Stale(g) == g.there /\ g.inFlight = 0 /\ g.cool # "future" /\ g.window = "stale"

\* reapStaleTargetGates.  A dial that waits at a gate that goes keeps its channel.
ReapGates ==
    /\ reaper = "reap" /\ victims = {} /\ reaper' = "sleep"
    /\ gate' = [t \in TunTargets |-> IF Stale(gate[t]) THEN NoGate ELSE gate[t]]
    /\ gateGone' = [d \in TunDials |-> gateGone[d] \/ (tpc[d] = "gateWait" /\ Stale(gate[target[d]]))]
    /\ UNCHANGED <<tpc, target, targetOK, waitOn, slotVars, connVars, recVars, udp>>

-----------------------------------------------------------------------------

DialStep(d) ==
    \/ StartDial(d) \/ WaitRecoveryWindow(d) \/ RecoveryCancelled(d) \/ RecordDialAdmission(d)
    \/ AcquireTargetGate(d) \/ GateTimer(d) \/ GateCancelled(d) \/ ReleaseTargetGate(d)
    \/ AcquireActiveSlot(d) \/ EvictPick(d) \/ EvictClose(d) \/ AcquireOpenPace(d)
    \/ AcquireOpenSlot(d) \/ AttemptOK(d) \/ GiveUpDial(d)
    \/ ReleaseOpenSlot(d) \/ ReleaseActiveSlot(d)

ReaperStep == ReapPick \/ (\E c \in TunDials : ReapClose(c)) \/ ReapGates

TunDialNext ==
    \/ \E d \in TunDials : DialStep(d) \/ Unregister(d) \/ OwnerCloses(d) \/ Touch(d)
                             \/ DialTimePasses(d) \/ AbandonDial(d)
    \/ \E t \in TunTargets : CooldownOver(t) \/ WindowOver(t)
    \/ ReaperStep \/ RecoveryOver \/ DialUDP

TunDialSpec == TunDialInit /\ [][TunDialNext]_tunDialVars

-----------------------------------------------------------------------------
(* Properties. *)

InGate == {"active", "evict", "pace", "open", "attempt", "unwindOpen", "unwindActive", "unwindGate"}

\* Whatever way a dial ends and whoever closes a connection, and however often,
\* each channel holds as many tokens as there are holders: dials and open
\* connections for the active slots, attempts for the open slots, admitted dials
\* for the count of a target's gate, also after the gate was dropped and made anew.
\* A connection that holds a slot is one the reaper finds.
SlotsAccounted ==
    /\ activeSlots = Cardinality({d \in TunDials : tokenHeld[d]}) /\ activeSlots <= ActiveCap
    /\ openSlots = Cardinality({d \in TunDials : tpc[d] \in {"attempt", "unwindOpen"}})
                     + (IF udp = "attempt" THEN 1 ELSE 0)
    /\ \A t \in TunTargets :
         gate[t].inFlight = Cardinality({d \in TunDials : tpc[d] \in InGate /\ target[d] = t})
    /\ \A d \in TunDials : tokenHeld[d] <=> \/ tpc[d] \in {"pace", "open", "attempt", "unwindActive"}
                                            \/ tpc[d] = "unwindOpen" /\ ~targetOK[d]
                                            \/ conn[d] = "open"
    /\ \A d \in TunDials : conn[d] = "open" => d \in activeConns

\* No dial waits for a change nobody will make: one that waits without a timer
\* waits at the gate in the table, which is full, so that a release is to come.
\* Dropping idle gates behind the waiters' backs strands none of them.
NoLostWakeup ==
    \A d \in TunDials : tpc[d] = "gateWait" /\ waitOn[d] = "change" =>
        ~gateGone[d] /\ gate[target[d]].inFlight = PerTarget

\* Both: what was taken is given back exactly once, and who waits is told.
AdmissionSafe == SlotsAccounted /\ NoLostWakeup

\* "force-closed so the slot returns to the pool": a flow nobody tears down does
\* not keep its slot for ever.
SlotReclaimed == []<>(\A d \in TunDials : ~(abandoned[d] /\ tokenHeld[d]))
=============================================================================
