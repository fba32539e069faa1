------------------------------- MODULE MCBond -------------------------------
(* Takeover: c1 and c2 may both claim run r1 and want the same slot, and   *)
(* c3 claims run r2 of the same device.                                    *)
EXTENDS Bond, TLC

CONSTANTS c1, c2, c3

MCTakeoverConns == {c1, c2, c3}
MCTakeoverRunOf == c1 :> "r1" @@ c2 :> "r1" @@ c3 :> "r2"
MCOneDevice == "r1" :> "d1" @@ "r2" :> "d1"
MCOneSlot == c1 :> "s1" @@ c2 :> "s1" @@ c3 :> "s1"
MCTokens == c1 :> "t1" @@ c2 :> "t1" @@ c3 :> "t2"

\* The connections of one run are alike.
MCAlike == Permutations({c1, c2})

\* Bound: the server stops while some connection has not come yet.
MCTakeoverNext == BondNext /\ (Stopping' => \E c \in Conns : pc'[c] = "bind")

MCTakeoverSpec == BondInit /\ [][MCTakeoverNext]_bondVars
=============================================================================
