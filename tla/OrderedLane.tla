---------------------------- MODULE OrderedLane -----------------------------
(***************************************************************************)
(* What a reorder buffer of a bond lane promises its caller: the packets   *)
(* it releases have been received, and their sequence numbers only grow.   *)
(***************************************************************************)
EXTENDS Naturals

VARIABLES
    received,   \* sequence numbers that have arrived
    delivered   \* sequence numbers released

laneVars == <<received, delivered>>

Init == received = {} /\ delivered = {}

\* A packet may arrive, and packets that have arrived may be released.
Step ==
    /\ received' = received \/ \E n \in received' : received' = received \cup {n}
    /\ delivered \subseteq delivered' /\ delivered' \subseteq received'
    /\ \A n \in delivered' \ delivered, m \in delivered : m < n

Spec == Init /\ [][Step]_laneVars
=============================================================================
