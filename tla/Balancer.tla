------------------------------ MODULE Balancer ------------------------------
(***************************************************************************)
(* How a balancer outbound chooses and tries its members                   *)
(* (internal/outbounds/balancer.go): round robin, or "alive" with failure  *)
(* cooldowns and failover on a high round-trip time.                       *)
(*                                                                         *)
(* The dials of several streams share the cooldowns, the high-RTT flags    *)
(* and the round-robin counter.  A cooldown ends when its 30 seconds are   *)
(* over, which is any time after it began; members go up and down, and     *)
(* their measured round-trip time changes, as the network pleases.         *)
(***************************************************************************)
EXTENDS Integers, Sequences, FiniteSets, SequencesExt

CONSTANTS
    N,          \* number of members, in configuration order
    RttThreshold,  \* rttThresholdMs
    Failover,   \* failover_on_high_rtt
    Rtts,       \* round-trip times a probe may report; -1 is "no sample"
    Dials,      \* concurrent DialContext / DialPacket calls
    MaxDials    \* bound on the round-robin counter

MemberIds == 1..N

ASSUME BalancerAssumption ==
    /\ N \in Nat \ {0} /\ RttThreshold \in Nat /\ Rtts \subseteq Nat \cup {-1} /\ MaxDials \in Nat

VARIABLES
    mode,       \* "alive" or "round_robin"
    up,         \* members that would answer a dial
    rtt,        \* each member's RTT probe snapshot
    cooling,    \* members whose cooldown lies in the future
    high,       \* highRTTStates
    next,       \* the round-robin counter
    order,      \* members each dial has still to try
    result,     \* each dial's outcome so far
    live        \* ghost: members up ever since the dial started

envVars == <<mode, up, rtt>>
balancerVars == <<envVars, cooling, high, next, order, result, live>>

Running(d) == result[d] = "dialing"

BalancerInit ==
    /\ mode \in {"alive", "round_robin"}
    /\ up \in SUBSET MemberIds /\ rtt \in [MemberIds -> Rtts]
    /\ cooling = {} /\ high = {} /\ next = 0
    /\ order = [d \in Dials |-> <<>>]
    /\ result = [d \in Dials |-> "idle"]
    /\ live = [d \in Dials |-> {}]

-----------------------------------------------------------------------------
(* Ordering the members. *)

\* rttRecoveryThresholdMs: 9/10 of the threshold, kept between 1 and the
\* threshold, but 0 for a threshold of 1.
Recovery ==
    IF RttThreshold <= 1 THEN 0
    ELSE LET r == (RttThreshold * 9) \div 10
             below == IF r >= RttThreshold THEN RttThreshold - 1 ELSE r
         IN  IF below < 1 THEN 1 ELSE below

\* Fault: one threshold for both directions, and the flag is never cleared.
HighNowSticky(m) ==
    mode = "alive" /\ Failover /\ RttThreshold > 0 /\ rtt[m] >= 0 /\
        (m \in high \/ rtt[m] > RttThreshold)

\* noteHighRTTIfUnhealthy: a member is flagged above the threshold and stays
\* flagged until it is back below the recovery threshold.
HighNow(m) ==
    mode = "alive" /\ Failover /\ RttThreshold > 0 /\ rtt[m] >= 0 /\
        (IF m \in high THEN rtt[m] > Recovery ELSE rtt[m] > RttThreshold)

\* highRTT is sorted by round-trip time, ties in configuration order.
Faster(a, b) == rtt[a] < rtt[b] \/ (rtt[a] = rtt[b] /\ a < b)

\* Fault: cooling members are left out.
AliveOrderSkips ==
    LET flagged == {m \in MemberIds \ cooling : HighNow(m)}
    IN  SetToSortSeq((MemberIds \ cooling) \ flagged, <) \o SetToSortSeq(flagged, Faster)

\* orderedAliveMembers: healthy in configuration order, then flagged from the
\* fastest, then cooling.
AliveOrder ==
    LET flagged == {m \in MemberIds \ cooling : HighNow(m)}
        healthy == (MemberIds \ cooling) \ flagged
        ByIndex(S) == SetToSortSeq(S, <)
    IN  ByIndex(healthy) \o SetToSortSeq(flagged, Faster) \o ByIndex(cooling)

RoundRobinOrder == [i \in MemberIds |-> ((next + i - 1) % N) + 1]

OrderedMembers == IF mode = "alive" THEN AliveOrder ELSE RoundRobinOrder

-----------------------------------------------------------------------------
(* The dial. *)

\* orderedMembers at the start of DialContext / DialPacket.  Only the members
\* that are not cooling have their flag re-evaluated.
StartDial(d) ==
    /\ ~Running(d) /\ (mode = "alive" \/ next < MaxDials)
    /\ order' = [order EXCEPT ![d] = OrderedMembers]
    /\ high' = IF mode = "alive"
                 THEN (high \cap cooling) \cup {m \in MemberIds \ cooling : HighNow(m)}
                 ELSE high
    /\ next' = IF mode = "alive" THEN next ELSE next + 1
    /\ result' = [result EXCEPT ![d] = "dialing"]
    /\ live' = [live EXCEPT ![d] = up]
    /\ UNCHANGED <<envVars, cooling>>

\* The member answers: noteSuccess.
AttemptOk(d) ==
    /\ Running(d) /\ order[d] # <<>> /\ Head(order[d]) \in up
    /\ cooling' = cooling \ {Head(order[d])}
    /\ result' = [result EXCEPT ![d] = "ok"]
    /\ order' = [order EXCEPT ![d] = <<>>]
    /\ UNCHANGED <<envVars, high, next, live>>

\* The attempt fails or runs into its own 10 second deadline: noteFailure, and
\* the next member is tried.
AttemptFailed(d) ==
    /\ Running(d) /\ order[d] # <<>> /\ Head(order[d]) \notin up
    /\ cooling' = IF mode = "alive" THEN cooling \cup {Head(order[d])} ELSE cooling
    /\ order' = [order EXCEPT ![d] = Tail(@)]
    /\ UNCHANGED <<envVars, high, next, result, live>>

\* The caller's context ends during an attempt: the member is blamed, and no
\* other is tried.
AttemptCancelled(d) ==
    /\ Running(d) /\ order[d] # <<>>
    /\ cooling' = IF mode = "alive" THEN cooling \cup {Head(order[d])} ELSE cooling
    /\ result' = [result EXCEPT ![d] = "cancelled"]
    /\ order' = [order EXCEPT ![d] = <<>>]
    /\ UNCHANGED <<envVars, high, next, live>>

\* allFailedError.
DialAllFailed(d) ==
    /\ Running(d) /\ order[d] = <<>>
    /\ result' = [result EXCEPT ![d] = "failed"]
    /\ UNCHANGED <<envVars, cooling, high, next, order, live>>

\* A cooldown ends.
CooldownOver(m) ==
    /\ m \in cooling
    /\ cooling' = cooling \ {m}
    /\ UNCHANGED <<envVars, high, next, order, result, live>>

-----------------------------------------------------------------------------
(* The network. *)

Flip(m) ==
    /\ up' = IF m \in up THEN up \ {m} ELSE up \cup {m}
    /\ live' = [d \in Dials |-> live[d] \cap up']
    /\ UNCHANGED <<mode, rtt, cooling, high, next, order, result>>

Measure(m) ==
    /\ \E r \in Rtts \ {rtt[m]} : rtt' = [rtt EXCEPT ![m] = r]
    /\ UNCHANGED <<mode, up, cooling, high, next, order, result, live>>

DialStep(d) ==
    AttemptOk(d) \/ AttemptFailed(d) \/ AttemptCancelled(d) \/ DialAllFailed(d)

BalancerNext ==
    \/ \E d \in Dials : StartDial(d) \/ DialStep(d)
    \/ \E m \in MemberIds : CooldownOver(m) \/ Flip(m) \/ Measure(m)

BalancerSpec == BalancerInit /\ [][BalancerNext]_balancerVars

\* Attempts end (they have a deadline) and cooldowns end (they have an expiry).
BalancerFairness ==
    /\ \A d \in Dials : WF_balancerVars(DialStep(d))
    /\ \A m \in MemberIds : WF_balancerVars(CooldownOver(m))

-----------------------------------------------------------------------------
(* Properties. *)

\* A dial fails only when no member was up all along: whatever the shared
\* cooldowns and flags say at its start, every member is tried.
FailsOnlyIfDown ==
    \A d \in Dials : result[d] = "failed" => live[d] = {}

\* In mode "alive", when the first member stays up and fast, dials that start late
\* enough begin with it: no flag or cooldown left by an earlier dial keeps it back, unless
\* callers keep cancelling dials, which blames the member they were waiting for.
PrimaryPreferred ==
    <>[](/\ mode = "alive" /\ 1 \in up /\ rtt[1] # -1 /\ rtt[1] <= Recovery
         /\ \A d \in Dials : result[d] # "cancelled")
      => <>[](\A d \in Dials : Len(order[d]) = N => Head(order[d]) = 1)
=============================================================================
