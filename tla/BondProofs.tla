----------------------------- MODULE BondProofs -----------------------------
(***************************************************************************)
(* Proofs about Bond for any connections, runs, devices, slots and tokens, *)
(* and any of the faults.                                                  *)
(***************************************************************************)
EXTENDS Bond, TLAPS

Phases == {"none", "open", "closing", "sockclosed", "swept", "closed"}

\* The places of a claimant that may open the device's socket, or has opened it, and
\* those it passes before there is a bond of its own.
Holding == {"retiring", "provision", "dial", "dialed", "commit"}
Early == {"bind", "lock", "auth", "granted", "retiring", "provision", "dial", "dialed"}

MapTypes == bonds \in [Runs -> Conns \cup {None}] /\ claims \in [Runs -> Conns \cup {None}]

PlaceTypes ==
    /\ pc \in [Conns -> Places] /\ at \in [Conns -> Conns \cup {None}]
    /\ \A c \in Conns : pc[c] \in {"bound", "attached"} => at[c] \in Conns

CloseTypes ==
    /\ retiring \in [Conns -> SUBSET Conns] /\ phase \in [Conns -> Phases]
    /\ granted \subseteq Conns /\ sockets \subseteq Conns
    /\ done \in [Conns -> Nat]

SlotTypes ==
    /\ roomSlots \in [Conns -> [Slots -> Conns \cup {None}]]
    /\ workers \in [Conns -> Int]

BondTypes == MapTypes /\ PlaceTypes /\ CloseTypes /\ SlotTypes

\* Who holds the claim of a run and of a device.  Shutdown empties the map of claims
\* under those who hold one; after it none of them can commit a bond.
ClaimInv ==
    /\ sweeping => bondClosed
    /\ \A r \in Runs : claims[r] # None => RunOf[claims[r]] = r /\ pc[claims[r]] \in Claiming
    /\ \A r, q \in Runs : claims[r] # None /\ claims[q] # None /\ DeviceOf[r] = DeviceOf[q]
                            => r = q
    /\ ~bondClosed => /\ \A c \in Conns : pc[c] \in Claiming => claims[RunOf[c]] = c
                      /\ \A r \in Runs : claims[r] # None => bonds[r] = None
    /\ \A b, c \in Conns : pc[b] \in Holding /\ pc[c] \in Holding /\ Device(b) = Device(c)
                             => b = c

\* Whose socket is open: a bond that is being made, or one that is listed, or one that
\* the claimant of its device is waiting for.
SocketInv ==
    /\ \A c \in Conns : pc[c] \in Early => phase[c] = "none"
    /\ \A b \in sockets : pc[b] = "dialed" \/ phase[b] \in {"open", "closing"}
    /\ ~bondClosed => \A b \in sockets :
         \/ pc[b] \in Claiming \/ bonds[RunOf[b]] = b
         \/ \E c \in Conns : pc[c] = "retiring" /\ b \in retiring[c] /\ Device(b) = Device(c)
    /\ \A c \in Conns, b \in sockets : Device(b) = Device(c) /\ b # c =>
         /\ pc[c] = "retiring" => b \in retiring[c]
         /\ pc[c] \notin Holding \ {"retiring"}

\* When a claimant's identity is ended.
DoneInv ==
    /\ \A c \in granted : pc[c] \notin {"bind", "lock", "auth"}
    /\ \A c \in Conns : pc[c] \in {"commit", "publish", "lost"} => phase[c] # "none"
    /\ \A c \in Conns : phase[c] = "closed" => done[c] >= 1

BondInv ==
    /\ BondTypes /\ ClaimInv /\ SocketInv /\ DoneInv
    /\ OneSocketPerDevice /\ LiveBondListed /\ IdentityEnded

LEMMA BondInitInv == BondInit => BondInv
  <1> SUFFICES ASSUME BondInit PROVE BondInv
    BY Zenon
  <1>1. MapTypes /\ PlaceTypes
    BY Zenon DEF BondInit, MapTypes, PlaceTypes, Places
  <1>2. CloseTypes
    BY Zenon DEF BondInit, CloseTypes, Phases
  <1>3. SlotTypes
    BY DEF BondInit, SlotTypes
  <1>4. ClaimInv /\ SocketInv /\ DoneInv
    BY Zenon DEF BondInit, ClaimInv, SocketInv, DoneInv, Claiming, Holding
  <1> QED
    BY Zenon, <1>1, <1>2, <1>3, <1>4
    DEF BondInit, BondInv, BondTypes, OneSocketPerDevice, LiveBondListed, IdentityEnded

\* close() moves a bond from "open" to "closing", and no other way.
LEMMA CallCloseMoves ==
    ASSUME phase \in [Conns -> Phases], NEW S, CallClose(S)
    PROVE  /\ phase' \in [Conns -> Phases]
           /\ \A b \in Conns : /\ phase'[b] = phase[b] \/ (phase[b] = "open" /\ phase'[b] = "closing")
                               /\ b \in S => phase'[b] # "open"
  BY Zenon DEF CallClose, Phases

\* What ClaimInv says, one fact at a time.
LEMMA ClaimOwner ==
    ASSUME BondInv, NEW r \in Runs, claims[r] # None
    PROVE  claims[r] \in Conns /\ RunOf[claims[r]] = r /\ pc[claims[r]] \in Claiming
  <1>1. RunOf[claims[r]] = r /\ pc[claims[r]] \in Claiming
    BY Zenon DEF BondInv, ClaimInv
  <1>2. claims[r] \in Conns
    BY Zenon DEF BondInv, BondTypes, MapTypes
  <1> QED  BY Zenon, <1>1, <1>2

LEMMA ClaimDevice ==
    ASSUME BondInv, NEW r \in Runs, NEW q \in Runs,
           claims[r] # None, claims[q] # None, DeviceOf[r] = DeviceOf[q]
    PROVE  r = q
  BY Zenon DEF BondInv, ClaimInv

LEMMA ClaimHeld ==
    ASSUME BondInv, ~bondClosed
    PROVE  /\ \A c \in Conns : pc[c] \in Claiming => claims[RunOf[c]] = c
           /\ \A r \in Runs : claims[r] # None => bonds[r] = None
  BY Zenon DEF BondInv, ClaimInv

LEMMA HolderAlone ==
    ASSUME BondInv, NEW b \in Conns, NEW c \in Conns,
           pc[b] \in Holding, pc[c] \in Holding, Device(b) = Device(c)
    PROVE  b = c
  BY Zenon DEF BondInv, ClaimInv

LEMMA SweepingClosed ==
    ASSUME BondInv PROVE sweeping => bondClosed
  BY Zenon DEF BondInv, ClaimInv

\* The room slots and the number of workers of a bond change one entry at a time.
LEMMA SlotSet ==
    ASSUME SlotTypes, NEW b \in Conns, NEW s \in Slots, NEW v \in Conns \cup {None}, NEW n \in Int
    PROVE  /\ [roomSlots EXCEPT ![b][s] = v] \in [Conns -> [Slots -> Conns \cup {None}]]
           /\ [workers EXCEPT ![b] = n] \in [Conns -> Int]
  BY Zenon DEF SlotTypes

\* The steps of a connection that holds no claim, before and after.
LEMMA BondPlain ==
    ASSUME BondTypes, NEW c \in Conns,
           \/ StartBind(c) \/ Join(c) \/ Refuse(c) \/ Lost(c) \/ Publish(c)
           \/ ReplyFails(c) \/ AddWorker(c) \/ RemoveWorker(c)
    PROVE  /\ BondTypes'
           /\ UNCHANGED <<bondServerVars, granted, retiring, sockets, phase>>
           /\ pc[c] \in {"bind", "lock", "lost", "publish", "bound", "attached"}
           /\ \E place \in {"bind", "lock", "bound", "attached", "gone"} :
                /\ pc' = [pc EXCEPT ![c] = place]
                /\ place \in {"bind", "lock"} => pc[c] \in {"bind", "lock"}
           /\ \A b \in Conns : done'[b] >= done[b]
  <1> DEFINE Moves(place) == /\ pc' = [pc EXCEPT ![c] = place]
                             /\ place \in {"bind", "lock"} => pc[c] \in {"bind", "lock"}
             Quiet == UNCHANGED <<bondServerVars, granted, retiring, sockets, phase>>
  <1>0. MapTypes /\ PlaceTypes /\ CloseTypes /\ SlotTypes
    BY Zenon DEF BondTypes
  <1>9. ASSUME Quiet PROVE MapTypes'
    BY Zenon, <1>0, <1>9 DEF MapTypes, bondServerVars
  <1>10. ASSUME Quiet, UNCHANGED done
         PROVE  CloseTypes' /\ \A b \in Conns : done'[b] >= done[b]
    BY <1>0, <1>10 DEF CloseTypes
  <1>11. ASSUME UNCHANGED <<roomSlots, workers>> PROVE SlotTypes'
    BY Zenon, <1>0, <1>11 DEF SlotTypes
  <1>12. ASSUME NEW place \in {"bind", "lock", "gone"}, Moves(place), UNCHANGED at
         PROVE  PlaceTypes'
    BY Zenon, <1>0, <1>12 DEF PlaceTypes, Places
  <1>13. ASSUME NEW b \in Conns, Moves("bound"), at' = [at EXCEPT ![c] = b]
         PROVE  PlaceTypes'
    BY Zenon, <1>0, <1>13 DEF PlaceTypes, Places
  <1>1. CASE StartBind(c)
    <2>1. \E place \in {"gone", "lock"} : Moves(place)
      BY Zenon, <1>1 DEF StartBind, GotoBond
    <2>2. Quiet /\ UNCHANGED <<at, roomSlots, workers, done>> /\ pc[c] = "bind"
      BY Zenon, <1>1 DEF StartBind, workerVars
    <2> QED  BY Zenon, <2>1, <2>2, <1>9, <1>10, <1>11, <1>12 DEF BondTypes
  <1>2. CASE Join(c)
    <2>1. \/ /\ at' = at /\ \E place \in {"bind", "gone"} : Moves(place)
          \/ \E b \in Conns : at' = [at EXCEPT ![c] = b] /\ Moves("bound")
      BY Zenon, <1>0, <1>2, BondAssumption DEF Join, GotoBond, MapTypes
    <2>2. pc[c] = "lock" /\ Quiet /\ UNCHANGED <<roomSlots, workers, done>>
      BY Zenon, <1>2 DEF Join, workerVars
    <2> QED  BY Zenon, <2>1, <2>2, <1>9, <1>10, <1>11, <1>12, <1>13 DEF BondTypes
  <1>3. CASE Refuse(c)
    <2>1. \E place \in {"bind", "gone"} : Moves(place)
      BY Zenon, <1>3 DEF Refuse, GotoBond
    <2>2. Quiet /\ UNCHANGED <<at, roomSlots, workers, done>> /\ pc[c] = "lock"
      BY Zenon, <1>3 DEF Refuse, workerVars
    <2> QED  BY Zenon, <2>1, <2>2, <1>9, <1>10, <1>11, <1>12 DEF BondTypes
  <1>4. CASE Lost(c)
    <2>1. \/ at' = at /\ Moves("gone")
          \/ \E b \in Conns : at' = [at EXCEPT ![c] = b] /\ Moves("bound")
      BY Zenon, <1>0, <1>4, BondAssumption DEF Lost, GotoBond, MapTypes
    <2>2. /\ pc[c] = "lost" /\ done' = [done EXCEPT ![c] = @ + 1]
          /\ Quiet /\ UNCHANGED <<roomSlots, workers>>
      BY Zenon, <1>4 DEF Lost, workerVars
    <2>3. CloseTypes' /\ \A b \in Conns : done'[b] >= done[b]
      BY <1>0, <2>2 DEF CloseTypes
    <2> QED  BY Zenon, <2>1, <2>2, <2>3, <1>9, <1>11, <1>12, <1>13 DEF BondTypes
  <1>5. CASE Publish(c)
    <2>1. Moves("bound") /\ at' = [at EXCEPT ![c] = c]
      BY Zenon, <1>5 DEF Publish, GotoBond
    <2>2. /\ pc[c] = "publish" /\ Quiet /\ UNCHANGED <<roomSlots, done>>
          /\ workers' = [workers EXCEPT ![c] = workers[c]]
      BY Zenon, <1>5 DEF Publish, ArmEmptyCleanup
    <2>3. SlotTypes'
      BY Zenon, <1>0, <2>2 DEF SlotTypes
    <2> QED  BY Zenon, <2>1, <2>2, <2>3, <1>9, <1>10, <1>13 DEF BondTypes
  <1>6. CASE ReplyFails(c)
    <2>1. Moves("gone") /\ Quiet /\ UNCHANGED <<at, roomSlots, workers, done>> /\ pc[c] = "bound"
      BY Zenon, <1>6 DEF ReplyFails, workerVars, GotoBond
    <2> QED  BY Zenon, <2>1, <1>9, <1>10, <1>11, <1>12 DEF BondTypes
  <1>7. CASE AddWorker(c)
    <2>1. /\ Moves("attached") /\ Quiet /\ UNCHANGED <<at, done>> /\ pc[c] = "bound"
          /\ roomSlots' = [roomSlots EXCEPT ![at[c]][SlotOf[c]] = c]
          /\ \/ workers' = [workers EXCEPT ![at[c]] = @ + 1]
             \/ workers' = [workers EXCEPT ![at[c]] = @]
      BY Zenon, <1>7 DEF AddWorker, GotoBond
    <2>2. at[c] \in Conns /\ SlotOf[c] \in Slots
      BY Zenon, <1>0, <2>1, BondAssumption DEF PlaceTypes
    <2>3. SlotTypes'
      <3>1. workers[at[c]] + 1 \in Int /\ workers[at[c]] \in Int
        BY <1>0, <2>2 DEF SlotTypes
      <3>2. [roomSlots EXCEPT ![at[c]][SlotOf[c]] = c] \in [Conns -> [Slots -> Conns \cup {None}]]
        BY Zenon, <1>0, <2>2, <3>1, SlotSet
      <3>3. /\ [workers EXCEPT ![at[c]] = workers[at[c]] + 1] \in [Conns -> Int]
            /\ [workers EXCEPT ![at[c]] = workers[at[c]]] \in [Conns -> Int]
        BY Zenon, <1>0, <2>2, <3>1, SlotSet
      <3> QED  BY Zenon, <2>1, <3>2, <3>3 DEF SlotTypes
    <2>4. PlaceTypes'
      BY Zenon, <1>0, <2>1, <2>2 DEF PlaceTypes, Places
    <2> QED  BY Zenon, <2>1, <2>3, <2>4, <1>9, <1>10 DEF BondTypes
  <1>8. CASE RemoveWorker(c)
    <2>1. /\ pc[c] = "attached" /\ Moves("gone")
          /\ \/ UNCHANGED <<roomSlots, workers>>
             \/ /\ roomSlots' = [roomSlots EXCEPT ![at[c]][SlotOf[c]] = None]
                /\ workers' = [workers EXCEPT ![at[c]] = workers[at[c]] - 1]
          /\ Quiet /\ UNCHANGED <<at, done>>
      BY Zenon, <1>8 DEF RemoveWorker, ArmEmptyCleanup, GotoBond
    <2>2. at[c] \in Conns /\ SlotOf[c] \in Slots
      BY Zenon, <1>0, <2>1, BondAssumption DEF PlaceTypes
    <2>3. workers[at[c]] - 1 \in Int
      BY <1>0, <2>2 DEF SlotTypes
    <2>4. SlotTypes'
      <3>1. CASE UNCHANGED <<roomSlots, workers>>
        BY Zenon, <1>11, <3>1
      <3>2. CASE /\ roomSlots' = [roomSlots EXCEPT ![at[c]][SlotOf[c]] = None]
                 /\ workers' = [workers EXCEPT ![at[c]] = workers[at[c]] - 1]
        <4>1. None \in Conns \cup {None}
          BY Zenon
        <4>2. /\ [roomSlots EXCEPT ![at[c]][SlotOf[c]] = None]
                    \in [Conns -> [Slots -> Conns \cup {None}]]
              /\ [workers EXCEPT ![at[c]] = workers[at[c]] - 1] \in [Conns -> Int]
          BY Zenon, <1>0, <2>2, <2>3, <4>1, SlotSet
        <4> QED  BY Zenon, <3>2, <4>2 DEF SlotTypes
      <3> QED  BY Zenon, <2>1, <3>1, <3>2
    <2> QED  BY Zenon, <2>1, <2>4, <1>9, <1>10, <1>12 DEF BondTypes
  <1> QED  BY Zenon, <1>1, <1>2, <1>3, <1>4, <1>5, <1>6, <1>7, <1>8

LEMMA BondPlainInv ==
    ASSUME BondInv, NEW c \in Conns,
           \/ StartBind(c) \/ Join(c) \/ Refuse(c) \/ Lost(c) \/ Publish(c)
           \/ ReplyFails(c) \/ AddWorker(c) \/ RemoveWorker(c)
    PROVE  BondInv'
  <1>1. BondTypes'
    BY Zenon, BondPlain DEF BondInv
  <1>2. /\ UNCHANGED <<bondClosed, sweeping, bonds, claims, granted, retiring, sockets, phase>>
        /\ pc[c] \in {"bind", "lock", "lost", "publish", "bound", "attached"}
        /\ \A b \in Conns : done'[b] >= done[b] /\ done[b] \in Nat /\ done'[b] \in Nat
    BY Zenon, <1>1, BondPlain DEF BondInv, BondTypes, CloseTypes, bondServerVars
  <1>3. PICK place \in {"bind", "lock", "bound", "attached", "gone"} :
           /\ pc' = [pc EXCEPT ![c] = place]
           /\ place \in {"bind", "lock"} => pc[c] \in {"bind", "lock"}
    BY Zenon, BondPlain DEF BondInv
  <1>4. /\ \A b \in Conns : \/ pc'[b] = pc[b]
                            \/ b = c /\ pc'[b] = place
        /\ \A b \in Conns : pc[b] \in Claiming <=> pc'[b] \in Claiming
        /\ \A b \in Conns : pc[b] \in Holding <=> pc'[b] \in Holding
        /\ \A b \in Conns : pc[b] = "retiring" <=> pc'[b] = "retiring"
        /\ \A b \in Conns : pc[b] = "dialed" <=> pc'[b] = "dialed"
    BY Zenon, <1>2, <1>3 DEF BondInv, BondTypes, PlaceTypes, Claiming, Holding
  <1>5. ClaimInv'
    BY <1>2, <1>4, BondAssumption DEF BondInv, BondTypes, MapTypes, ClaimInv, Device
  <1>6. SocketInv'
    <2>1. \A b \in Conns : pc'[b] \in Early => phase'[b] = "none"
      BY <1>2, <1>3, <1>4 DEF BondInv, SocketInv, Early
    <2>2. sockets \subseteq Conns
      BY Zenon DEF BondInv, BondTypes, CloseTypes
    <2>3. \A b \in sockets' : pc'[b] = "dialed" \/ phase'[b] \in {"open", "closing"}
      BY Zenon, <1>2, <1>4, <2>2 DEF BondInv, SocketInv
    <2>4. ~bondClosed' => \A b \in sockets' :
            \/ pc'[b] \in Claiming \/ bonds'[RunOf[b]] = b
            \/ \E x \in Conns : pc'[x] = "retiring" /\ b \in retiring'[x] /\ Device(b) = Device(x)
      BY <1>2, <1>4, <2>2 DEF BondInv, SocketInv
    <2>5. \A x \in Conns, b \in sockets' : Device(b) = Device(x) /\ b # x =>
            /\ pc'[x] = "retiring" => b \in retiring'[x]
            /\ pc'[x] \notin Holding \ {"retiring"}
      BY Zenon, <1>2, <1>4 DEF BondInv, SocketInv
    <2> QED  BY Zenon, <2>1, <2>3, <2>4, <2>5 DEF SocketInv, Device
  <1>7. DoneInv'
    BY <1>2, <1>3, <1>4 DEF BondInv, BondTypes, CloseTypes, DoneInv
  <1>8. OneSocketPerDevice' /\ LiveBondListed' /\ IdentityEnded'
    BY <1>2, <1>4
    DEF BondInv, BondTypes, CloseTypes, OneSocketPerDevice, LiveBondListed, IdentityEnded, Device
  <1> QED  BY Zenon, <1>1, <1>5, <1>6, <1>7, <1>8 DEF BondInv

\* The steps that move the phase of a bond, and those that move only timers.
LEMMA BondCloseInv ==
    ASSUME BondInv, NEW b \in Conns,
           \/ CloseSocket(b) \/ CloseWorkers(b) \/ CloseIdentity(b)
           \/ TimerFires(b) \/ TimerCheck(b) \/ TimerRemove(b) \/ ContextRemove(b)
           \/ SocketError(b)
    PROVE  BondInv'
  <1>0. MapTypes /\ PlaceTypes /\ CloseTypes /\ SlotTypes
    BY Zenon DEF BondInv, BondTypes
  <1>1. /\ UNCHANGED <<bondClosed, sweeping, bonds, claims, pc, at, granted, retiring>>
        /\ UNCHANGED <<roomSlots, workers>>
    BY Zenon DEF CloseSocket, CloseWorkers, CloseIdentity, TimerFires, TimerCheck, TimerRemove,
           ContextRemove, SocketError, bondServerVars, bondConnVars, workerVars
  <1>2. CallClose({b}) => /\ phase' \in [Conns -> Phases]
                          /\ \A x \in Conns : \/ phase'[x] = phase[x]
                                              \/ phase[x] = "open" /\ phase'[x] = "closing"
    BY Zenon, <1>0, CallCloseMoves DEF CloseTypes
  <1>3. /\ phase' \in [Conns -> Phases]
        /\ sockets' \subseteq sockets
        /\ \A x \in sockets' : phase'[x] = phase[x] \/ phase'[x] = "closing"
        /\ \A x \in Conns : /\ phase[x] = "none" <=> phase'[x] = "none"
                            /\ phase'[x] = "open" => phase[x] = "open"
        /\ done' \in [Conns -> Nat]
        /\ \A x \in Conns : /\ done'[x] >= done[x]
                            /\ phase'[x] = "closed" => phase[x] = "closed" \/ done'[x] >= 1
    <2>1. CASE CloseSocket(b)
      BY <1>0, <2>1 DEF CloseSocket, CloseTypes, Phases
    <2>2. CASE CloseWorkers(b)
      <3>1. b \notin sockets
        BY Zenon, <1>0, <2>2 DEF CloseWorkers, BondInv, SocketInv, Early
      <3>2. phase' = [phase EXCEPT ![b] = "swept"] /\ phase[b] = "sockclosed" /\ UNCHANGED <<sockets, done>>
        BY Zenon, <2>2 DEF CloseWorkers
      <3> QED  BY <1>0, <3>1, <3>2 DEF CloseTypes, Phases
    <2>3. CASE CloseIdentity(b)
      <3>1. b \notin sockets
        BY Zenon, <1>0, <2>3 DEF CloseIdentity, BondInv, SocketInv, Early
      <3> QED  BY <1>0, <2>3, <3>1 DEF CloseIdentity, CloseTypes, Phases
    <2>4. CASE TimerRemove(b) \/ ContextRemove(b)
      BY <1>0, <1>2, <2>4 DEF TimerRemove, ContextRemove, RemoveBond, CloseTypes
    <2>5. CASE TimerFires(b) \/ TimerCheck(b) \/ SocketError(b)
      BY <1>0, <2>5 DEF TimerFires, TimerCheck, SocketError, CloseTypes
    <2> QED  BY Zenon, <2>1, <2>2, <2>3, <2>4, <2>5
  <1>4. BondTypes'
    BY Zenon, <1>0, <1>1, <1>3 DEF BondTypes, MapTypes, PlaceTypes, CloseTypes, SlotTypes
  <1>5. ClaimInv'
    BY Zenon, <1>1 DEF BondInv, ClaimInv
  <1>6. SocketInv'
    BY Zenon, <1>0, <1>1, <1>3 DEF BondInv, SocketInv, CloseTypes
  <1>7. \A x \in Conns : done[x] >= 1 => done'[x] >= 1
    BY <1>0, <1>3 DEF CloseTypes
  <1>8. DoneInv' /\ IdentityEnded'
    BY Zenon, <1>0, <1>1, <1>3, <1>7 DEF BondInv, DoneInv, IdentityEnded, CloseTypes
  <1>9. OneSocketPerDevice' /\ LiveBondListed'
    BY Zenon, <1>1, <1>3 DEF BondInv, OneSocketPerDevice, LiveBondListed
  <1> QED  BY Zenon, <1>4, <1>5, <1>6, <1>8, <1>9 DEF BondInv

\* A claimant gives up.
GivesUp(c) ==
    \/ pc[c] = "auth" /\ Abandon(c) /\ UNCHANGED <<granted, sockets, done>>
    \/ pc[c] \in {"granted", "provision", "dial"} /\ AbandonIdentity(c) /\ UNCHANGED sockets
    \/ pc[c] = "dialed" /\ AbandonIdentity(c) /\ sockets' = sockets \ {c}

LEMMA BondAbandonInv ==
    ASSUME BondInv, NEW c \in Conns, GivesUp(c)
    PROVE  BondInv'
  <1>0. MapTypes /\ PlaceTypes /\ CloseTypes /\ SlotTypes
    BY Zenon DEF BondInv, BondTypes
  <1>1. /\ UNCHANGED <<bondClosed, sweeping, bonds, at, granted, retiring, phase, roomSlots, workers>>
        /\ claims' = [claims EXCEPT ![RunOf[c]] = None]
        /\ pc' = [pc EXCEPT ![c] = "gone"]
        /\ pc[c] \in {"auth", "granted", "provision", "dial", "dialed"}
    BY Zenon DEF GivesUp, Abandon, AbandonIdentity, GotoBond, workerVars
  <1>2. /\ done' \in [Conns -> Nat]
        /\ \A x \in Conns : done[x] >= 1 => done'[x] >= 1
        /\ c \in granted => done'[c] >= 1
    BY <1>0 DEF GivesUp, BondInv, DoneInv, Abandon, AbandonIdentity, CloseTypes
  <1>3. sockets' \subseteq sockets /\ c \notin sockets'
    BY Zenon, <1>1 DEF GivesUp, BondInv, SocketInv, Early
  <1>4. RunOf[c] \in Runs
    BY Zenon, BondAssumption
  <1>5. \A x \in Conns : x # c => pc'[x] = pc[x]
    BY Zenon, <1>0, <1>1 DEF PlaceTypes
  <1>6. pc'[c] = "gone"
    BY Zenon, <1>0, <1>1 DEF PlaceTypes
  <1>7. BondTypes'
    BY Zenon, <1>0, <1>1, <1>2, <1>3, <1>4
    DEF BondTypes, MapTypes, PlaceTypes, CloseTypes, SlotTypes, Places
  <1>8. \A r \in Runs : /\ claims'[r] # None => claims'[r] = claims[r] /\ r # RunOf[c]
                        /\ r # RunOf[c] => claims'[r] = claims[r]
    BY Zenon, <1>0, <1>1 DEF MapTypes
  <1>9. ClaimInv'
    <2>1. \A r \in Runs : claims'[r] # None => claims[r] \in Conns \ {c}
      BY <1>0, <1>8 DEF BondInv, ClaimInv, MapTypes
    <2>2. \A r \in Runs : claims'[r] # None => /\ RunOf[claims'[r]] = r
                                               /\ pc'[claims'[r]] \in Claiming
      BY <1>5, <1>8, <2>1 DEF BondInv, ClaimInv
    <2>3. \A x \in Conns : ~bondClosed /\ pc'[x] \in Claiming => claims'[RunOf[x]] = x
      <3> SUFFICES ASSUME NEW x \in Conns, ~bondClosed, pc'[x] \in Claiming
                   PROVE  claims'[RunOf[x]] = x
        BY Zenon
      <3>1. x # c /\ pc[x] \in Claiming /\ pc[c] \in Claiming
        BY Zenon, <1>1, <1>5, <1>6 DEF Claiming
      <3>2. claims[RunOf[x]] = x /\ claims[RunOf[c]] = c
        BY Zenon, <3>1 DEF BondInv, ClaimInv
      <3>3. RunOf[x] \in Runs
        BY Zenon, BondAssumption
      <3> QED  BY Zenon, <1>8, <3>1, <3>2, <3>3
    <2>4. \A x \in Conns : pc'[x] \in Holding => pc[x] \in Holding
      BY Zenon, <1>5, <1>6 DEF Holding
    <2> QED  BY <1>1, <1>8, <2>2, <2>3, <2>4 DEF BondInv, ClaimInv, Device
  <1>10. SocketInv'
    <2>1. \A x \in Conns : /\ pc'[x] \in Early => pc[x] \in Early
                           /\ pc'[x] \in Holding \ {"retiring"} => pc[x] \in Holding \ {"retiring"}
                           /\ pc'[x] = "retiring" <=> pc[x] = "retiring"
      BY Zenon, <1>1, <1>5, <1>6 DEF Early, Holding
    <2>2. \A x \in sockets' : x \in sockets /\ pc'[x] = pc[x]
      BY Zenon, <1>0, <1>3, <1>5 DEF CloseTypes
    <2> QED  BY ZenonT(60), <1>0, <1>1, <2>1, <2>2 DEF BondInv, SocketInv, Device, CloseTypes
  <1>11. DoneInv' /\ IdentityEnded'
    BY Zenon, <1>0, <1>1, <1>2, <1>5, <1>6 DEF BondInv, DoneInv, IdentityEnded, CloseTypes
  <1>12. LiveBondListed'
    <2>1. phase[c] = "none"
      BY Zenon, <1>1 DEF BondInv, SocketInv, Early
    <2> QED  BY Zenon, <1>1, <1>5, <2>1 DEF BondInv, LiveBondListed
  <1>13. OneSocketPerDevice'
    BY Zenon, <1>3 DEF BondInv, OneSocketPerDevice
  <1> QED  BY Zenon, <1>7, <1>9, <1>10, <1>11, <1>12, <1>13 DEF BondInv

\* A claimant goes on.
GoesOn(c) ==
    /\ UNCHANGED <<bondClosed, sweeping, bonds, claims, at, roomSlots, workers, done>>
    /\ \/ /\ pc[c] = "auth" /\ pc' = [pc EXCEPT ![c] = "granted"]
          /\ granted' = granted \cup {c} /\ UNCHANGED <<retiring, sockets, phase>>
       \/ /\ pc[c] = "retiring" /\ pc' = [pc EXCEPT ![c] = "provision"]
          /\ \A b \in retiring[c] : phase[b] = "closed"
          /\ retiring' = [retiring EXCEPT ![c] = {}] /\ UNCHANGED <<granted, sockets, phase>>
       \/ /\ pc[c] = "provision" /\ pc' = [pc EXCEPT ![c] = "dial"]
          /\ UNCHANGED <<granted, retiring, sockets, phase>>
       \/ /\ pc[c] = "dial" /\ pc' = [pc EXCEPT ![c] = "dialed"]
          /\ sockets' = sockets \cup {c} /\ UNCHANGED <<granted, retiring, phase>>
       \/ /\ pc[c] = "dialed" /\ pc' = [pc EXCEPT ![c] = "commit"]
          /\ phase' = [phase EXCEPT ![c] = "open"] /\ UNCHANGED <<granted, retiring, sockets>>

LEMMA BondOnwardInv ==
    ASSUME BondInv, NEW c \in Conns, GoesOn(c)
    PROVE  BondInv'
  <1>0. MapTypes /\ PlaceTypes /\ CloseTypes /\ SlotTypes
    BY Zenon DEF BondInv, BondTypes
  <1>u. UNCHANGED <<bondClosed, sweeping, bonds, claims, at, roomSlots, workers, done>>
    BY Zenon DEF GoesOn
  <1>1. BondTypes'
    <2>1. PlaceTypes'
      BY Zenon, <1>0 DEF GoesOn, PlaceTypes, Places
    <2>2. CloseTypes'
      BY Zenon, <1>0 DEF GoesOn, CloseTypes, Phases
    <2> QED  BY Zenon, <1>0, <1>u, <2>1, <2>2 DEF BondTypes, MapTypes, SlotTypes
  <1>2. /\ \A x \in Conns : x # c => pc'[x] = pc[x]
        /\ \A x \in Conns : pc'[x] \in Claiming <=> pc[x] \in Claiming
        /\ \A x \in Conns : pc'[x] \in Holding <=> pc[x] \in Holding
    BY Zenon, <1>0 DEF GoesOn, PlaceTypes, Claiming, Holding
  <1>3. ClaimInv'
    <2>1. \A r \in Runs : claims[r] # None => /\ RunOf[claims[r]] = r
                                              /\ pc'[claims[r]] \in Claiming
      BY Zenon, <1>2, ClaimOwner
    <2>2. ~bondClosed => /\ \A x \in Conns : pc'[x] \in Claiming => claims[RunOf[x]] = x
                         /\ \A r \in Runs : claims[r] # None => bonds[r] = None
      BY Zenon, <1>2, ClaimHeld
    <2>3. \A b, x \in Conns : pc'[b] \in Holding /\ pc'[x] \in Holding /\ Device(b) = Device(x)
                                => b = x
      BY Zenon, <1>2, HolderAlone
    <2>4. sweeping => bondClosed
      BY Zenon, SweepingClosed
    <2>5. \A r, q \in Runs : claims[r] # None /\ claims[q] # None /\ DeviceOf[r] = DeviceOf[q]
                                => r = q
      BY Zenon, ClaimDevice
    <2> QED  BY Zenon, <1>u, <2>1, <2>2, <2>3, <2>4, <2>5 DEF ClaimInv, Device
  <1>4. phase[c] = "none"
    BY Zenon DEF GoesOn, BondInv, SocketInv, Early
  <1>5. DoneInv'
    BY ZenonT(60), <1>0, <1>2, <1>4 DEF GoesOn, BondInv, DoneInv, CloseTypes, PlaceTypes
  <1>6. IdentityEnded' /\ LiveBondListed'
    <2>1. pc[c] \in Claiming /\ pc'[c] \in Claiming /\ granted' \subseteq granted \cup {c}
      BY Zenon, <1>0 DEF GoesOn, PlaceTypes, Claiming
    <2>2. /\ \A x \in Conns : x # c => phase'[x] = phase[x]
          /\ phase'[c] \in {"none", "open"}
      BY Zenon, <1>0, <1>4 DEF GoesOn, CloseTypes
    <2>3. \A x \in granted : pc[x] \notin Claiming /\ phase[x] \in {"none", "closed"} => done[x] >= 1
      BY Zenon DEF BondInv, IdentityEnded
    <2>4. IdentityEnded'
      <3>1. granted \subseteq Conns
        BY Zenon, <1>0 DEF PlaceTypes, CloseTypes, MapTypes
      <3> QED  BY Zenon, <1>u, <1>2, <2>1, <2>2, <2>3, <3>1 DEF IdentityEnded
    <2>5. LiveBondListed'
      BY Zenon, <1>u, <1>2, <2>1, <2>2 DEF BondInv, LiveBondListed
    <2> QED  BY Zenon, <2>4, <2>5
  <1>7. OneSocketPerDevice'
    <2>1. sockets' \subseteq sockets \cup {c} /\ (c \in sockets' \ sockets => pc[c] = "dial")
      BY Zenon DEF GoesOn
    <2>2. \A b \in sockets : b \in Conns /\ (pc[c] = "dial" /\ Device(b) = Device(c) => b = c)
      <3>1. "dial" \in Holding \ {"retiring"}
        BY Zenon DEF Holding
      <3> QED  BY Zenon, <1>0, <3>1 DEF BondInv, SocketInv, CloseTypes
    <2> QED  BY Zenon, <2>1, <2>2 DEF BondInv, OneSocketPerDevice, Device
  <1>8. SocketInv'
    <2> DEFINE Explained(b) ==
                 \/ pc[b] \in Claiming \/ bonds[RunOf[b]] = b
                 \/ \E x \in Conns : pc[x] = "retiring" /\ b \in retiring[x] /\ Device(b) = Device(x)
               Kept == /\ \A x \in Conns : pc'[x] \in Early => phase'[x] = "none"
                       /\ \A b \in sockets' : pc'[b] = "dialed" \/ phase'[b] \in {"open", "closing"}
               Alone == \A x \in Conns, b \in sockets' : Device(b) = Device(x) /\ b # x =>
                          /\ pc'[x] = "retiring" => b \in retiring'[x]
                          /\ pc'[x] \notin Holding \ {"retiring"}
    <2>0. /\ \A x \in Conns : pc[x] \in Early => phase[x] = "none"
          /\ \A b \in sockets : b \in Conns /\ (pc[b] = "dialed" \/ phase[b] \in {"open", "closing"})
          /\ ~bondClosed => \A b \in sockets : Explained(b)
          /\ \A x \in Conns, b \in sockets : Device(b) = Device(x) /\ b # x =>
               /\ pc[x] = "retiring" => b \in retiring[x]
               /\ pc[x] \notin Holding \ {"retiring"}
          /\ pc \in [Conns -> Places] /\ phase \in [Conns -> Phases]
          /\ retiring \in [Conns -> SUBSET Conns]
      BY Zenon, <1>0 DEF BondInv, SocketInv, CloseTypes, PlaceTypes
    <2>1. Kept
      BY <1>4, <2>0 DEF GoesOn, Early
    <2>2. CASE pc[c] = "retiring"
      <3>0. /\ pc' = [pc EXCEPT ![c] = "provision"] /\ UNCHANGED sockets
            /\ \A b \in retiring[c] : phase[b] = "closed"
            /\ \A x \in Conns : x # c => retiring'[x] = retiring[x]
        BY Zenon, <2>0, <2>2 DEF GoesOn
      <3>1. \A b \in sockets : Device(b) = Device(c) => b = c
        BY Zenon, <2>0, <2>2, <3>0 DEF Early
      <3>2. c \notin sockets
        BY Zenon, <1>4, <2>0, <2>2
      <3>3. Alone
        BY ZenonT(60), <1>2, <2>0, <3>0, <3>1, <3>2
      <3>4. ~bondClosed' => \A b \in sockets' : Explained(b)'
        BY <1>u, <1>2, <2>0, <3>0, <3>1, <3>2 DEF Device
      <3> QED  BY Zenon, <2>1, <3>3, <3>4 DEF SocketInv
    <2>3. CASE pc[c] # "retiring"
      <3>0. /\ UNCHANGED retiring /\ sockets' \subseteq sockets \cup {c}
            /\ c \in sockets' \ sockets => pc[c] = "dial"
            /\ pc[c] \in Claiming /\ pc'[c] # "retiring"
        BY <2>0, <2>3 DEF GoesOn, Claiming
      <3>1. \A x \in Conns : pc[x] = "retiring" <=> pc'[x] = "retiring"
        BY Zenon, <1>2, <2>3, <3>0
      <3>2. ~bondClosed' => \A b \in sockets' : Explained(b)'
        <4> SUFFICES ASSUME ~bondClosed, NEW b \in sockets' PROVE Explained(b)'
          BY Zenon, <1>u
        <4>1. CASE b = c
          BY Zenon, <1>2, <3>0, <4>1
        <4>2. CASE b # c
          <5>1. b \in sockets /\ b \in Conns /\ Explained(b)
            BY Zenon, <2>0, <3>0, <4>2
          <5> QED  BY Zenon, <1>u, <1>2, <3>0, <3>1, <5>1 DEF Device
        <4> QED  BY Zenon, <4>1, <4>2
      <3>3. \A x \in Conns : pc[c] = "dial" /\ pc[x] \in Holding /\ Device(x) = Device(c) => x = c
        BY Zenon DEF BondInv, ClaimInv, Holding
      <3>4. Alone
        <4> SUFFICES ASSUME NEW x \in Conns, NEW b \in sockets', Device(b) = Device(x), b # x
                     PROVE  /\ pc'[x] = "retiring" => b \in retiring'[x]
                            /\ pc'[x] \notin Holding \ {"retiring"}
          BY Zenon DEF Device
        <4>1. CASE b \in sockets
          BY Zenon, <1>2, <2>0, <3>0, <3>1, <4>1
        <4>2. CASE b \notin sockets
          <5>1. b = c /\ pc[c] = "dial"
            BY Zenon, <3>0, <4>2
          <5>2. pc[x] \notin Holding
            BY Zenon, <3>3, <5>1
          <5> QED  BY Zenon, <1>2, <5>2 DEF Holding
        <4> QED  BY Zenon, <4>1, <4>2
      <3> QED  BY Zenon, <2>1, <3>2, <3>4 DEF SocketInv
    <2> QED  BY Zenon, <2>2, <2>3
  <1> QED  BY Zenon, <1>1, <1>3, <1>5, <1>6, <1>7, <1>8 DEF BondInv

LEMMA ClaimRunInv ==
    ASSUME BondInv, NEW c \in Conns, ClaimRun(c)
    PROVE  BondInv'
  <1>0. MapTypes /\ PlaceTypes /\ CloseTypes /\ SlotTypes /\ RunOf[c] \in Runs
    BY Zenon, BondAssumption DEF BondInv, BondTypes
  <1>1. /\ UNCHANGED <<bondClosed, sweeping, bonds, at, granted, retiring, sockets, phase>>
        /\ UNCHANGED <<roomSlots, workers, done>>
        /\ claims' = [claims EXCEPT ![RunOf[c]] = c]
        /\ pc' = [pc EXCEPT ![c] = "auth"] /\ pc[c] = "lock"
        /\ bonds[RunOf[c]] = None /\ claims[RunOf[c]] = None
        /\ \A r \in Runs : claims[r] # None => DeviceOf[r] # DeviceOf[RunOf[c]]
    BY Zenon DEF ClaimRun, MayClaim, DeviceClaimed, GotoBond, workerVars, Device
  <1>2. BondTypes'
    BY Zenon, <1>0, <1>1 DEF BondTypes, MapTypes, PlaceTypes, CloseTypes, SlotTypes, Places
  <1>3. /\ pc'[c] = "auth" /\ \A x \in Conns : x # c => pc'[x] = pc[x]
        /\ claims'[RunOf[c]] = c /\ \A r \in Runs : r # RunOf[c] => claims'[r] = claims[r]
    BY Zenon, <1>0, <1>1 DEF MapTypes, PlaceTypes
  <1>4. ClaimInv'
    <2>1. \A r \in Runs : claims'[r] # None => /\ RunOf[claims'[r]] = r
                                               /\ pc'[claims'[r]] \in Claiming
      <3>1. "auth" \in Claiming /\ pc[c] \notin Claiming
        BY Zenon, <1>1 DEF Claiming
      <3> QED  BY <1>3, <3>1, ClaimOwner
    <2>2. \A r, q \in Runs : claims'[r] # None /\ claims'[q] # None /\ DeviceOf[r] = DeviceOf[q]
                               => r = q
      BY <1>0, <1>1, <1>3, ClaimDevice
    <2>3. \A x \in Conns : ~bondClosed /\ pc'[x] \in Claiming => claims'[RunOf[x]] = x
      <3> SUFFICES ASSUME NEW x \in Conns, ~bondClosed, pc'[x] \in Claiming, x # c
                   PROVE  claims'[RunOf[x]] = x
        BY Zenon, <1>3
      <3>1. claims[RunOf[x]] = x /\ RunOf[x] \in Runs /\ x # None
        BY Zenon, <1>3, ClaimHeld, BondAssumption
      <3> QED  BY Zenon, <1>1, <1>3, <3>1
    <2>4. \A x \in Conns : pc'[x] \in Holding => pc[x] \in Holding
      BY Zenon, <1>3 DEF Holding
    <2>5. \A b, x \in Conns : pc'[b] \in Holding /\ pc'[x] \in Holding /\ Device(b) = Device(x)
                                => b = x
      BY Zenon, <2>4, HolderAlone
    <2>6. ~bondClosed => \A r \in Runs : claims'[r] # None => bonds[r] = None
      BY Zenon, <1>1, <1>3, ClaimHeld
    <2>7. sweeping => bondClosed
      BY Zenon, SweepingClosed
    <2> QED  BY Zenon, <1>1, <2>1, <2>2, <2>3, <2>5, <2>6, <2>7 DEF ClaimInv, Device
  <1>5. SocketInv'
    <2>1. \A x \in Conns : /\ pc'[x] \in Early => pc[x] \in Early
                           /\ pc[x] \in Claiming => pc'[x] \in Claiming
                           /\ pc'[x] \in Holding \ {"retiring"} => pc[x] \in Holding \ {"retiring"}
                           /\ pc'[x] = "retiring" <=> pc[x] = "retiring"
                           /\ pc[x] = "dialed" => pc'[x] = "dialed"
      BY Zenon, <1>1, <1>3 DEF Early, Holding, Claiming
    <2>2. /\ \A x \in Conns : pc'[x] \in Early => phase[x] = "none"
          /\ \A b \in sockets : pc'[b] = "dialed" \/ phase[b] \in {"open", "closing"}
      BY Zenon, <1>0, <2>1 DEF BondInv, SocketInv, CloseTypes
    <2>3. ~bondClosed => \A b \in sockets :
            \/ pc'[b] \in Claiming \/ bonds[RunOf[b]] = b
            \/ \E x \in Conns : pc'[x] = "retiring" /\ b \in retiring[x] /\ Device(b) = Device(x)
      BY Zenon, <1>0, <2>1 DEF BondInv, SocketInv, CloseTypes
    <2>4. \A x \in Conns, b \in sockets : Device(b) = Device(x) /\ b # x =>
            /\ pc'[x] = "retiring" => b \in retiring[x]
            /\ pc'[x] \notin Holding \ {"retiring"}
      BY Zenon, <2>1 DEF BondInv, SocketInv
    <2> QED  BY <1>1, <2>2, <2>3, <2>4 DEF SocketInv, Device
  <1>6. DoneInv' /\ IdentityEnded' /\ LiveBondListed'
    BY ZenonT(60), <1>0, <1>1, <1>3 DEF BondInv, DoneInv, IdentityEnded, LiveBondListed, CloseTypes, Claiming
  <1>7. OneSocketPerDevice'
    BY Zenon, <1>1 DEF BondInv, OneSocketPerDevice
  <1> QED  BY Zenon, <1>2, <1>4, <1>5, <1>6, <1>7 DEF BondInv

\* The older runs of the device leave the map: every other socket of the device is one
\* of theirs.
LEMMA RetireInv ==
    ASSUME BondInv, NEW c \in Conns, Retire(c), ~Stopping
    PROVE  BondInv'
  <1>0. MapTypes /\ PlaceTypes /\ CloseTypes /\ SlotTypes /\ RunOf[c] \in Runs
    BY Zenon, BondAssumption DEF BondInv, BondTypes
  <1> DEFINE S == OlderRuns(c)
  <1>1. /\ UNCHANGED <<bondClosed, sweeping, claims, at, granted, sockets>>
        /\ UNCHANGED <<roomSlots, workers, done>>
        /\ ~bondClosed /\ pc[c] = "granted" /\ pc' = [pc EXCEPT ![c] = "retiring"]
        /\ bonds' = [r \in Runs |-> IF bonds[r] \in S THEN None ELSE bonds[r]]
        /\ retiring' = [retiring EXCEPT ![c] = S]
        /\ CallClose(S)
    BY Zenon DEF Retire, Stopping, GotoBond, workerVars
  <1>2. /\ phase' \in [Conns -> Phases]
        /\ \A b \in Conns : /\ phase'[b] = phase[b] \/ (phase[b] = "open" /\ phase'[b] = "closing")
                            /\ b \in S => phase'[b] # "open"
    BY Zenon, <1>0, <1>1, CallCloseMoves DEF CloseTypes
  <1>3. S \subseteq Conns
    BY Zenon DEF OlderRuns, Committed
  <1>4. BondTypes'
    <2>1. MapTypes'
      BY Zenon, <1>0, <1>1 DEF MapTypes
    <2>2. PlaceTypes'
      BY Zenon, <1>0, <1>1 DEF PlaceTypes, Places
    <2>3. CloseTypes'
      BY Zenon, <1>0, <1>1, <1>2, <1>3 DEF CloseTypes
    <2> QED  BY Zenon, <1>0, <1>1, <2>1, <2>2, <2>3 DEF BondTypes, SlotTypes
  <1>5. pc'[c] = "retiring" /\ \A x \in Conns : x # c => pc'[x] = pc[x]
    BY Zenon, <1>0, <1>1 DEF PlaceTypes
  <1>6. \A x \in Conns : pc[x] \in Claiming /\ Device(x) = Device(c) => x = c
    <2> SUFFICES ASSUME NEW x \in Conns, pc[x] \in Claiming, Device(x) = Device(c) PROVE x = c
      BY Zenon
    <2>1. claims[RunOf[x]] = x /\ claims[RunOf[c]] = c
      BY Zenon, <1>1 DEF BondInv, ClaimInv, Claiming
    <2>2. RunOf[x] \in Runs /\ RunOf[c] \in Runs /\ x # None /\ c # None
      BY Zenon, BondAssumption
    <2>3. RunOf[x] = RunOf[c]
      BY <2>1, <2>2 DEF BondInv, ClaimInv, Device
    <2> QED  BY Zenon, <2>1, <2>3
  <1>7. bonds[RunOf[c]] = None
    <2>1. ~bondClosed => claims[RunOf[c]] = c
      BY Zenon, <1>1 DEF BondInv, ClaimInv, Claiming
    <2>2. RunOf[c] \in Runs /\ c # None
      BY Zenon, BondAssumption
    <2> QED  BY Zenon, <1>1, <2>1, <2>2 DEF BondInv, ClaimInv
  <1>8. \A b \in sockets : Device(b) = Device(c) /\ b # c => b \in S
    <2> SUFFICES ASSUME NEW b \in sockets, Device(b) = Device(c), b # c PROVE b \in S
      BY Zenon
    <2>1. b \in Conns /\ pc[b] \notin Claiming
      BY Zenon, <1>0, <1>6 DEF CloseTypes
    <2>2. \A x \in Conns : pc[x] = "retiring" => Device(x) # Device(b)
      BY Zenon, <1>1, <1>6 DEF Claiming
    <2>3. bonds[RunOf[b]] = b
      BY Zenon, <1>1, <2>1, <2>2 DEF BondInv, SocketInv
    <2>4. RunOf[b] # RunOf[c] /\ RunOf[b] \in Runs
      BY Zenon, <1>7, <2>1, <2>3, BondAssumption
    <2> QED  BY Zenon, <2>1, <2>3, <2>4 DEF OlderRuns, Committed
  <1>9. ClaimInv'
    <2>1. /\ \A x \in Conns : pc'[x] \in Claiming <=> pc[x] \in Claiming
          /\ \A x \in Conns : pc'[x] \in Holding => pc[x] \in Claiming
      BY Zenon, <1>1, <1>5 DEF Claiming, Holding
    <2>2. \A x, y \in Conns : pc'[x] \in Holding /\ pc'[y] \in Holding /\ Device(x) = Device(y)
                                => x = y
      BY Zenon, <1>5, <1>6, <2>1 DEF BondInv, ClaimInv
    <2>3. \A r \in Runs : bonds[r] = None => bonds'[r] = None
      BY Zenon, <1>1
    <2>4. \A r \in Runs : claims[r] # None => /\ RunOf[claims[r]] = r
                                              /\ pc'[claims[r]] \in Claiming
      BY Zenon, <2>1, ClaimOwner
    <2>5. /\ \A x \in Conns : pc'[x] \in Claiming => claims[RunOf[x]] = x
          /\ \A r \in Runs : claims[r] # None => bonds'[r] = None
      BY Zenon, <1>1, <2>1, <2>3, ClaimHeld
    <2>6. sweeping => bondClosed
      BY Zenon, SweepingClosed
    <2>7. \A r, q \in Runs : claims[r] # None /\ claims[q] # None /\ DeviceOf[r] = DeviceOf[q]
                                => r = q
      BY Zenon, ClaimDevice
    <2> QED  BY Zenon, <1>1, <2>2, <2>4, <2>5, <2>6, <2>7 DEF ClaimInv, Device
  <1>10. SocketInv'
    <2>1. \A x \in Conns : pc'[x] \in Early => phase'[x] = "none"
      BY ZenonT(60), <1>1, <1>2, <1>5 DEF BondInv, SocketInv, Early
    <2>2. \A b \in sockets : pc'[b] = "dialed" \/ phase'[b] \in {"open", "closing"}
      BY Zenon, <1>0, <1>1, <1>2, <1>5 DEF BondInv, SocketInv, CloseTypes
    <2>3. \A b \in sockets :
            \/ pc'[b] \in Claiming \/ bonds'[RunOf[b]] = b
            \/ \E x \in Conns : pc'[x] = "retiring" /\ b \in retiring'[x] /\ Device(b) = Device(x)
      <3> SUFFICES ASSUME NEW b \in sockets, pc'[b] \notin Claiming
                   PROVE  \/ bonds'[RunOf[b]] = b
                          \/ \E x \in Conns : /\ pc'[x] = "retiring" /\ b \in retiring'[x]
                                              /\ Device(b) = Device(x)
        BY Zenon
      <3>1. b \in Conns /\ b # c /\ pc[b] \notin Claiming /\ RunOf[b] \in Runs
        BY Zenon, <1>0, <1>5, BondAssumption DEF CloseTypes, Claiming
      <3>2. CASE \E x \in Conns : pc[x] = "retiring" /\ b \in retiring[x] /\ Device(b) = Device(x)
        BY Zenon, <1>0, <1>1, <1>5, <3>2 DEF CloseTypes
      <3>3. CASE bonds[RunOf[b]] = b /\ b \in S
        <4>1. Device(b) = Device(c)
          BY Zenon, <3>3 DEF OlderRuns
        <4> QED  BY Zenon, <1>0, <1>1, <1>5, <3>3, <4>1 DEF CloseTypes
      <3>4. CASE bonds[RunOf[b]] = b /\ b \notin S
        BY Zenon, <1>1, <3>1, <3>4
      <3> QED  BY Zenon, <1>1, <3>1, <3>2, <3>3, <3>4 DEF BondInv, SocketInv
    <2>4. \A x \in Conns, b \in sockets : Device(b) = Device(x) /\ b # x =>
            /\ pc'[x] = "retiring" => b \in retiring'[x]
            /\ pc'[x] \notin Holding \ {"retiring"}
      BY ZenonT(60), <1>0, <1>1, <1>5, <1>8 DEF BondInv, SocketInv, CloseTypes
    <2> QED  BY Zenon, <1>1, <2>1, <2>2, <2>3, <2>4 DEF SocketInv, Device
  <1>11. DoneInv' /\ IdentityEnded'
    BY Zenon, <1>0, <1>1, <1>2, <1>5 DEF BondInv, DoneInv, IdentityEnded, CloseTypes, Claiming
  <1>12. LiveBondListed'
    <2> SUFFICES ASSUME NEW x \in Conns, phase'[x] = "open", pc'[x] \notin Claiming
                 PROVE  bonds'[RunOf[x]] = x
      BY Zenon DEF LiveBondListed
    <2>1. x # c /\ pc[x] \notin Claiming /\ phase[x] = "open" /\ x \notin S /\ RunOf[x] \in Runs
      BY Zenon, <1>2, <1>5, BondAssumption DEF Claiming
    <2>2. bonds[RunOf[x]] = x
      BY Zenon, <1>1, <2>1 DEF BondInv, LiveBondListed
    <2> QED  BY Zenon, <1>1, <2>1, <2>2
  <1>13. OneSocketPerDevice'
    BY Zenon, <1>1 DEF BondInv, OneSocketPerDevice
  <1> QED  BY Zenon, <1>4, <1>9, <1>10, <1>11, <1>12, <1>13 DEF BondInv

LEMMA CommitInv ==
    ASSUME BondInv, NEW c \in Conns, Commit(c)
    PROVE  BondInv'
  <1>0. MapTypes /\ PlaceTypes /\ CloseTypes /\ SlotTypes /\ RunOf[c] \in Runs /\ None \notin Conns
    BY Zenon, BondAssumption DEF BondInv, BondTypes
  <1>1. /\ UNCHANGED <<bondClosed, sweeping, at, granted, retiring, sockets>>
        /\ UNCHANGED <<roomSlots, workers, done>>
        /\ pc[c] = "commit" /\ claims' = [claims EXCEPT ![RunOf[c]] = None]
    BY Zenon DEF Commit, workerVars
  <1>2. \/ /\ ~bondClosed /\ bonds[RunOf[c]] = None /\ bonds' = [bonds EXCEPT ![RunOf[c]] = c]
           /\ pc' = [pc EXCEPT ![c] = "publish"] /\ UNCHANGED phase
        \/ bondClosed /\ UNCHANGED bonds /\ CallClose({c}) /\ pc' = [pc EXCEPT ![c] = "lost"]
    <2>1. ~bondClosed => claims[RunOf[c]] = c
      BY Zenon, <1>1 DEF BondInv, ClaimInv, Claiming
    <2>2. ~bondClosed => bonds[RunOf[c]] = None
      BY Zenon, <1>0, <2>1 DEF BondInv, ClaimInv
    <2> QED  BY Zenon, <2>2 DEF Commit, GotoBond
  <1>3. /\ phase' \in [Conns -> Phases]
        /\ \A b \in Conns : phase'[b] = phase[b] \/ (phase[b] = "open" /\ phase'[b] = "closing")
    BY Zenon, <1>0, <1>2, CallCloseMoves DEF CloseTypes
  <1>4. /\ pc'[c] \in {"publish", "lost"} /\ \A x \in Conns : x # c => pc'[x] = pc[x]
        /\ claims'[RunOf[c]] = None /\ \A r \in Runs : r # RunOf[c] => claims'[r] = claims[r]
    BY Zenon, <1>0, <1>1, <1>2 DEF MapTypes, PlaceTypes
  <1>5. BondTypes'
    <2>1. MapTypes'
      BY Zenon, <1>0, <1>1, <1>2 DEF MapTypes
    <2>2. PlaceTypes'
      BY Zenon, <1>0, <1>1, <1>2 DEF PlaceTypes, Places
    <2>3. CloseTypes'
      BY Zenon, <1>0, <1>1, <1>3 DEF CloseTypes
    <2> QED  BY Zenon, <1>0, <1>1, <2>1, <2>2, <2>3 DEF BondTypes, SlotTypes
  <1>6. ~bondClosed => \A b \in Conns : bonds[RunOf[b]] = b => bonds'[RunOf[b]] = b
    BY Zenon, <1>0, <1>2, BondAssumption DEF MapTypes
  <1>7. ClaimInv'
    <2>1. \A r \in Runs : claims'[r] # None =>
            claims'[r] = claims[r] /\ r # RunOf[c] /\ claims[r] \in Conns \ {c}
      <3>1. \A r \in Runs : /\ claims[r] \in Conns \cup {None}
                            /\ claims[r] # None => RunOf[claims[r]] = r
        BY Zenon, <1>0 DEF BondInv, ClaimInv, MapTypes
      <3> QED  BY Zenon, <1>4, <3>1
    <2>2. \A r \in Runs : claims'[r] # None => /\ RunOf[claims'[r]] = r
                                               /\ pc'[claims'[r]] \in Claiming
      BY <1>4, <2>1 DEF BondInv, ClaimInv
    <2>3. \A x \in Conns : ~bondClosed /\ pc'[x] \in Claiming => claims'[RunOf[x]] = x
      <3> SUFFICES ASSUME NEW x \in Conns, ~bondClosed, pc'[x] \in Claiming
                   PROVE  claims'[RunOf[x]] = x
        BY Zenon
      <3>1. x # c /\ pc[x] \in Claiming
        BY Zenon, <1>4 DEF Claiming
      <3>2. claims[RunOf[x]] = x /\ claims[RunOf[c]] = c
        BY Zenon, <1>1, <3>1 DEF BondInv, ClaimInv, Claiming
      <3> QED  BY Zenon, <1>4, <3>1, <3>2, BondAssumption
    <2>4. \A x \in Conns : pc'[x] \in Holding => pc[x] \in Holding
      BY Zenon, <1>4 DEF Holding
    <2>5. \A r \in Runs : ~bondClosed /\ claims'[r] # None => bonds'[r] = None
      <3>1. \A r \in Runs : ~bondClosed /\ claims'[r] # None => bonds[r] = None /\ r # RunOf[c]
        BY Zenon, <2>1, ClaimHeld
      <3> QED  BY Zenon, <1>0, <1>2, <3>1 DEF MapTypes
    <2>6. /\ sweeping => bondClosed
          /\ \A r, q \in Runs : claims[r] # None /\ claims[q] # None /\ DeviceOf[r] = DeviceOf[q] => r = q
          /\ \A x, y \in Conns : pc[x] \in Holding /\ pc[y] \in Holding /\ Device(x) = Device(y) => x = y
      BY Zenon, SweepingClosed, ClaimDevice, HolderAlone
    <2>7. \A r, q \in Runs : claims'[r] # None /\ claims'[q] # None /\ DeviceOf[r] = DeviceOf[q] => r = q
      BY Zenon, <2>1, <2>6
    <2>8. \A x, y \in Conns : pc'[x] \in Holding /\ pc'[y] \in Holding /\ Device(x) = Device(y) => x = y
      BY Zenon, <2>4, <2>6
    <2> QED  BY Zenon, <1>1, <2>2, <2>3, <2>5, <2>6, <2>7, <2>8 DEF ClaimInv, Device
  <1>8. SocketInv'
    <2>1. \A x \in Conns : /\ pc'[x] \in Early => pc[x] \in Early
                           /\ pc'[x] \in Holding \ {"retiring"} => pc[x] \in Holding \ {"retiring"}
                           /\ pc'[x] = "retiring" <=> pc[x] = "retiring"
                           /\ pc[x] = "dialed" => pc'[x] = "dialed"
                           /\ x # c /\ pc[x] \in Claiming => pc'[x] \in Claiming
      BY Zenon, <1>1, <1>4 DEF Early, Holding
    <2>2. \A x \in Conns : pc'[x] \in Early => phase'[x] = "none"
      BY Zenon, <1>3, <2>1 DEF BondInv, SocketInv
    <2>3. \A b \in sockets : pc'[b] = "dialed" \/ phase'[b] \in {"open", "closing"}
      BY Zenon, <1>0, <1>3, <2>1 DEF BondInv, SocketInv, CloseTypes
    <2>4. ~bondClosed => bonds'[RunOf[c]] = c
      BY Zenon, <1>0, <1>2 DEF MapTypes
    <2>5. ~bondClosed => \A b \in sockets :
            \/ pc'[b] \in Claiming \/ bonds'[RunOf[b]] = b
            \/ \E x \in Conns : pc'[x] = "retiring" /\ b \in retiring[x] /\ Device(b) = Device(x)
      BY Zenon, <1>0, <1>6, <2>1, <2>4 DEF BondInv, SocketInv, CloseTypes
    <2>6. \A x \in Conns, b \in sockets' : Device(b) = Device(x) /\ b # x =>
            /\ pc'[x] = "retiring" => b \in retiring'[x]
            /\ pc'[x] \notin Holding \ {"retiring"}
      <3>1. \A x \in Conns, b \in sockets : Device(b) = Device(x) /\ b # x =>
              /\ pc[x] = "retiring" => b \in retiring[x]
              /\ pc[x] \notin Holding \ {"retiring"}
        BY Zenon DEF BondInv, SocketInv
      <3> QED  BY Zenon, <1>1, <2>1, <3>1
    <2> QED  BY <1>1, <2>2, <2>3, <2>5, <2>6 DEF SocketInv, Device
  <1>9. DoneInv'
    BY Zenon, <1>0, <1>1, <1>3, <1>4 DEF BondInv, DoneInv, CloseTypes
  <1>10. IdentityEnded'
    BY ZenonT(60), <1>0, <1>1, <1>3, <1>4 DEF BondInv, DoneInv, IdentityEnded, CloseTypes
  <1>11. LiveBondListed'
    <2> SUFFICES ASSUME NEW x \in Conns, phase'[x] = "open", pc'[x] \notin Claiming, ~bondClosed'
                 PROVE  bonds'[RunOf[x]] = x
      BY Zenon DEF LiveBondListed
    <2>1. ~bondClosed /\ phase[x] = "open"
      BY Zenon, <1>1, <1>3
    <2>2. CASE x = c
      BY Zenon, <1>0, <1>2, <2>1, <2>2 DEF MapTypes
    <2>3. CASE x # c
      BY Zenon, <1>4, <1>6, <2>1, <2>3 DEF BondInv, LiveBondListed
    <2> QED  BY Zenon, <2>2, <2>3
  <1>12. OneSocketPerDevice'
    BY Zenon, <1>1 DEF BondInv, OneSocketPerDevice
  <1> QED  BY Zenon, <1>5, <1>7, <1>8, <1>9, <1>10, <1>11, <1>12 DEF BondInv

\* The map loses an entry whose bond is closed, or all of them at a shutdown.
LEMMA BondMapInv ==
    ASSUME BondInv,
           (\E b \in Conns : RemoveDelete(b)) \/ ShutdownBegin \/ ShutdownSweep
    PROVE  BondInv'
  <1>0. MapTypes /\ PlaceTypes /\ CloseTypes /\ SlotTypes
    BY Zenon DEF BondInv, BondTypes
  <1>1. CASE \E b \in Conns : RemoveDelete(b)
    <2>1. PICK b \in Conns : RemoveDelete(b)
      BY Zenon, <1>1
    <2>2. /\ UNCHANGED <<bondClosed, sweeping, claims, pc, at, granted, retiring, sockets, phase>>
          /\ UNCHANGED <<roomSlots, workers, done>>
          /\ phase[b] = "closed"
          /\ bonds' = IF bonds[RunOf[b]] = b THEN [bonds EXCEPT ![RunOf[b]] = None] ELSE bonds
      BY Zenon, <2>1 DEF RemoveDelete, bondConnVars, workerVars
    <2>3. BondTypes'
      BY Zenon, <1>0, <2>2 DEF BondTypes, MapTypes, PlaceTypes, CloseTypes, SlotTypes
    <2>4. /\ \A r \in Runs : bonds[r] = None => bonds'[r] = None
          /\ \A x \in Conns : bonds[RunOf[x]] = x /\ phase[x] # "closed" => bonds'[RunOf[x]] = x
      BY Zenon, <1>0, <2>2, BondAssumption DEF MapTypes
    <2>5. \A x \in sockets : phase[x] # "closed"
      BY Zenon, <1>0 DEF BondInv, SocketInv, CloseTypes, Early
    <2>6. ClaimInv'
      BY Zenon, <2>2, <2>4 DEF BondInv, ClaimInv
    <2>7. SocketInv'
      <3>1. \A x \in Conns : pc'[x] \in Early => phase'[x] = "none"
        BY Zenon, <2>2 DEF BondInv, SocketInv
      <3>2. \A x \in sockets' : /\ pc'[x] = "dialed" \/ phase'[x] \in {"open", "closing"}
                                /\ \A y \in Conns : Device(x) = Device(y) /\ x # y =>
                                     /\ pc'[y] = "retiring" => x \in retiring'[y]
                                     /\ pc'[y] \notin Holding \ {"retiring"}
        BY Zenon, <2>2 DEF BondInv, SocketInv
      <3>3. ~bondClosed' => \A x \in sockets' :
              \/ pc'[x] \in Claiming \/ bonds'[RunOf[x]] = x
              \/ \E y \in Conns : pc'[y] = "retiring" /\ x \in retiring'[y] /\ Device(x) = Device(y)
        <4>1. sockets \subseteq Conns
          BY Zenon, <1>0 DEF CloseTypes
        <4>2. ~bondClosed => \A x \in sockets :
                \/ pc[x] \in Claiming \/ bonds[RunOf[x]] = x
                \/ \E y \in Conns : pc[y] = "retiring" /\ x \in retiring[y] /\ Device(x) = Device(y)
          BY Zenon DEF BondInv, SocketInv
        <4>3. UNCHANGED <<bondClosed, pc, retiring, sockets>>
          BY Zenon, <2>2
        <4> QED  BY Zenon, <2>4, <2>5, <4>1, <4>2, <4>3
      <3> QED  BY Zenon, <3>1, <3>2, <3>3 DEF SocketInv, Device
    <2>8. DoneInv' /\ IdentityEnded' /\ LiveBondListed' /\ OneSocketPerDevice'
      BY Zenon, <2>2, <2>4 DEF BondInv, DoneInv, IdentityEnded, LiveBondListed, OneSocketPerDevice
    <2> QED  BY Zenon, <2>3, <2>6, <2>7, <2>8 DEF BondInv
  <1>2. CASE ShutdownBegin \/ ShutdownSweep
    <2>1. /\ UNCHANGED <<pc, at, granted, retiring, sockets, roomSlots, workers, done>>
          /\ bondClosed'
      BY Zenon, <1>2 DEF ShutdownBegin, ShutdownSweep, bondConnVars, workerVars, BondInv, ClaimInv
    <2>2. /\ phase' \in [Conns -> Phases]
          /\ \A b \in Conns : phase'[b] = phase[b] \/ (phase[b] = "open" /\ phase'[b] = "closing")
      BY Zenon, <1>0, <1>2, CallCloseMoves DEF ShutdownBegin, ShutdownSweep, CloseTypes
    <2>3. \A r \in Runs : claims'[r] # None => claims'[r] = claims[r]
      BY Zenon, <1>2 DEF ShutdownBegin, ShutdownSweep
    <2>4. BondTypes'
      <3>1. MapTypes'
        BY Zenon, <1>0, <1>2 DEF ShutdownBegin, ShutdownSweep, MapTypes
      <3> QED  BY Zenon, <1>0, <2>1, <2>2, <3>1 DEF BondTypes, PlaceTypes, CloseTypes, SlotTypes
    <2>5. ClaimInv'
      BY Zenon, <2>1, <2>3 DEF BondInv, ClaimInv
    <2>6. SocketInv'
      BY Zenon, <1>0, <2>1, <2>2 DEF BondInv, SocketInv, CloseTypes
    <2>7. DoneInv' /\ IdentityEnded' /\ LiveBondListed' /\ OneSocketPerDevice'
      BY Zenon, <1>0, <2>1, <2>2
      DEF BondInv, DoneInv, IdentityEnded, LiveBondListed, OneSocketPerDevice, CloseTypes
    <2> QED  BY Zenon, <2>4, <2>5, <2>6, <2>7 DEF BondInv
  <1> QED  BY Zenon, <1>1, <1>2

LEMMA SetupInv ==
    ASSUME BondInv, NEW c \in Conns,
           Authenticate(c) \/ Retire(c) \/ RetireReturns(c) \/ ProvisionBond(c) \/ DialWG(c) \/ NewBond(c)
    PROVE  BondInv'
  <1>1. CASE Authenticate(c)
    BY Zenon, <1>1, BondAbandonInv, BondOnwardInv DEF GivesUp, GoesOn, Authenticate, GotoBond, bondServerVars, workerVars
  <1>2. CASE Retire(c)
    <2>1. CASE ~Stopping
      BY Zenon, <1>2, <2>1, RetireInv
    <2>2. CASE Stopping
      BY Zenon, <1>2, <2>2, BondAbandonInv DEF GivesUp, Retire
    <2> QED  BY Zenon, <2>1, <2>2
  <1>3. CASE RetireReturns(c)
    BY Zenon, <1>3, BondOnwardInv DEF GoesOn, RetireReturns, GotoBond, bondServerVars, workerVars
  <1>4. CASE ProvisionBond(c)
    BY Zenon, <1>4, BondAbandonInv, BondOnwardInv DEF GivesUp, GoesOn, ProvisionBond, GotoBond, bondServerVars, workerVars
  <1>5. CASE DialWG(c)
    BY Zenon, <1>5, BondAbandonInv, BondOnwardInv DEF GivesUp, GoesOn, DialWG, GotoBond, bondServerVars, workerVars
  <1>6. CASE NewBond(c)
    BY Zenon, <1>6, BondAbandonInv, BondOnwardInv DEF GivesUp, GoesOn, NewBond, GotoBond, bondServerVars, workerVars
  <1> QED  BY Zenon, <1>1, <1>2, <1>3, <1>4, <1>5, <1>6

LEMMA BondQuiet ==
    ASSUME BondInv,
           UNCHANGED <<bondClosed, sweeping, bonds, claims, pc, at, granted, retiring, sockets>>,
           UNCHANGED <<phase, roomSlots, workers, done>>
    PROVE  BondInv'
  <1>1. MapTypes' /\ PlaceTypes'
    BY Zenon DEF BondInv, BondTypes, MapTypes, PlaceTypes
  <1>2. CloseTypes' /\ SlotTypes'
    BY Zenon DEF BondInv, BondTypes, CloseTypes, SlotTypes
  <1>3. ClaimInv'
    BY Zenon DEF BondInv, ClaimInv
  <1>4. SocketInv'
    BY Zenon DEF BondInv, SocketInv
  <1>5. DoneInv' /\ OneSocketPerDevice'
    BY Zenon DEF BondInv, DoneInv, OneSocketPerDevice
  <1>6. LiveBondListed' /\ IdentityEnded'
    BY Zenon DEF BondInv, LiveBondListed, IdentityEnded
  <1> QED  BY Zenon, <1>1, <1>2, <1>3, <1>4, <1>5, <1>6 DEF BondInv, BondTypes

LEMMA BondStep == BondInv /\ [BondNext]_bondVars => BondInv'
  <1> SUFFICES ASSUME BondInv, [BondNext]_bondVars PROVE BondInv'
    BY Zenon
  <1>1. CASE UNCHANGED bondVars
    <2>1. /\ UNCHANGED <<bondClosed, sweeping, bonds, claims, pc, at, granted, retiring, sockets>>
          /\ UNCHANGED <<phase, roomSlots, workers, done>>
      BY Zenon, <1>1 DEF bondVars, bondServerVars, bondConnVars, workerVars
    <2> QED  BY Zenon, <2>1, BondQuiet
  <1>2. ASSUME NEW c \in Conns, Setup(c) PROVE BondInv'
    BY Zenon, <1>2, BondPlainInv, ClaimRunInv, SetupInv, CommitInv DEF Setup
  <1>3. ASSUME NEW c \in Conns,
               ReplyFails(c) \/ AddWorker(c) \/ RemoveWorker(c) \/ Closing(c) \/ Cleanup(c) \/ SocketError(c)
        PROVE  BondInv'
    BY Zenon, <1>3, BondPlainInv, BondCloseInv, BondMapInv DEF Closing, Cleanup
  <1>4. CASE CancelServer
    <2>1. /\ UNCHANGED <<bondClosed, sweeping, bonds, claims, pc, at, granted, retiring, sockets>>
          /\ UNCHANGED <<phase, roomSlots, workers, done>>
      BY Zenon, <1>4 DEF CancelServer, bondConnVars, workerVars
    <2> QED  BY Zenon, <2>1, BondQuiet
  <1> QED  BY Zenon, <1>1, <1>2, <1>3, <1>4, BondMapInv DEF BondNext

-----------------------------------------------------------------------------
(* The slots of a bond's workers, and what Bond promises. *)

INSTANCE Counting

HeldSlots(b) == {s \in Slots : roomSlots[b][s] # None}

\* One slot of one bond changes: the count of its held slots follows.
LEMMA SlotsMove ==
    ASSUME SlotTypes, NEW b \in Conns, NEW s \in Slots, NEW v,
           roomSlots' = [roomSlots EXCEPT ![b][s] = v],
           \A x \in Conns : workers[x] = Cardinality(HeldSlots(x)),
           NEW n, workers' = [workers EXCEPT ![b] = n],
           roomSlots[b][s] = None /\ v # None => n = workers[b] + 1,
           roomSlots[b][s] # None /\ v = None => n = workers[b] - 1,
           (roomSlots[b][s] = None <=> v = None) => n = workers[b]
    PROVE  \A x \in Conns : workers'[x] = Cardinality(HeldSlots(x)')
  <1> SUFFICES ASSUME NEW x \in Conns PROVE workers'[x] = Cardinality(HeldSlots(x)')
    BY Zenon
  <1>1. CASE x # b
    <2>1. roomSlots'[x] = roomSlots[x] /\ workers'[x] = workers[x]
      BY Zenon, <1>1 DEF SlotTypes
    <2> QED  BY Zenon, <2>1 DEF HeldSlots
  <1>2. CASE x = b
    <2>1. /\ HeldSlots(b) \in SUBSET Slots /\ HeldSlots(b)' \in SUBSET Slots
          /\ s \in HeldSlots(b) <=> roomSlots[b][s] # None
          /\ s \in HeldSlots(b)' <=> v # None
          /\ \A q \in Slots \ {s} : q \in HeldSlots(b) <=> q \in HeldSlots(b)'
      BY Zenon DEF HeldSlots, SlotTypes
    <2>2. IsFiniteSet(Slots)
      BY Zenon, BondAssumption
    <2>3. /\ Cardinality(HeldSlots(b)) \in Nat
          /\ (s \in HeldSlots(b) <=> s \in HeldSlots(b)') =>
               Cardinality(HeldSlots(b)') = Cardinality(HeldSlots(b))
          /\ s \notin HeldSlots(b) /\ s \in HeldSlots(b)' =>
               Cardinality(HeldSlots(b)') = Cardinality(HeldSlots(b)) + 1
          /\ s \in HeldSlots(b) /\ s \notin HeldSlots(b)' =>
               Cardinality(HeldSlots(b)') = Cardinality(HeldSlots(b)) - 1
      BY <2>1, <2>2, CountOne
    <2>4. workers'[b] = n
      BY Zenon DEF SlotTypes
    <2> QED  BY Zenon, <1>2, <2>1, <2>3, <2>4
  <1> QED  BY Zenon, <1>1, <1>2

\* A step that leaves the slots alone.
LEMMA SlotsQuiet ==
    ASSUME BondTypes, WorkerKeepsSlot, UNCHANGED roomSlots,
           \A b \in Conns : workers'[b] = workers[b],
           workersCancelled \subseteq workersCancelled',
           \A c \in Conns : pc'[c] = "attached" => pc[c] = "attached" /\ at'[c] = at[c]
    PROVE  WorkerKeepsSlot'
  BY Zenon DEF WorkerKeepsSlot

LEMMA WorkerStep == BondInv /\ WorkerKeepsSlot /\ [BondNext]_bondVars => WorkerKeepsSlot'
  <1> SUFFICES ASSUME BondInv, WorkerKeepsSlot, [BondNext]_bondVars PROVE WorkerKeepsSlot'
    BY Zenon
  <1>0. BondTypes /\ PlaceTypes /\ SlotTypes /\ None \notin Conns
    BY Zenon, BondAssumption DEF BondInv, BondTypes
  <1>1. ASSUME NEW c \in Conns, AddWorker(c) PROVE WorkerKeepsSlot'
    <2> DEFINE b == at[c]  s == SlotOf[c]  old == roomSlots[b][s]
    <2>1. /\ pc[c] = "bound" /\ pc' = [pc EXCEPT ![c] = "attached"] /\ UNCHANGED at
          /\ roomSlots' = [roomSlots EXCEPT ![b][s] = c]
          /\ workers' = [workers EXCEPT ![b] = IF old = None THEN @ + 1 ELSE @]
          /\ workersCancelled' =
               IF old = None THEN workersCancelled ELSE workersCancelled \cup {old}
      BY Zenon, <1>1 DEF AddWorker, GotoBond
    <2>2. b \in Conns /\ s \in Slots
      BY Zenon, <1>0, <2>1, BondAssumption DEF PlaceTypes
    <2>3. PICK n : /\ workers' = [workers EXCEPT ![b] = n]
                   /\ old = None => n = workers[b] + 1
                   /\ old # None => n = workers[b]
      BY Zenon, <2>1
    <2>4. \A x \in Conns : workers[x] = Cardinality(HeldSlots(x))
      BY Zenon DEF WorkerKeepsSlot, HeldSlots
    <2>5. \A x \in Conns : workers'[x] = Cardinality(HeldSlots(x)')
      <3>1. SlotTypes /\ roomSlots' = [roomSlots EXCEPT ![b][s] = c]
        BY Zenon, <1>0, <2>1
      <3>2. /\ roomSlots[b][s] = None /\ c # None => n = workers[b] + 1
            /\ roomSlots[b][s] # None /\ c = None => n = workers[b] - 1
            /\ (roomSlots[b][s] = None <=> c = None) => n = workers[b]
        BY Zenon, <1>0, <2>3
      <3>3. workers' = [workers EXCEPT ![b] = n]
        BY Zenon, <2>3
      <3> HIDE DEF b, s
      <3> QED  BY Zenon, <2>2, <2>4, <3>1, <3>2, <3>3, SlotsMove
    <2>6. \A x \in Conns : pc'[x] = "attached" /\ x \notin workersCancelled'
                             => roomSlots'[at'[x]][SlotOf[x]] = x
      <3> SUFFICES ASSUME NEW x \in Conns, pc'[x] = "attached", x \notin workersCancelled'
                   PROVE  roomSlots'[at[x]][SlotOf[x]] = x
        BY Zenon, <2>1
      <3>1. CASE x = c
        BY Zenon, <1>0, <2>1, <2>2, <3>1 DEF SlotTypes
      <3>2. CASE x # c
        <4>1. /\ pc[x] = "attached" /\ at[x] \in Conns /\ SlotOf[x] \in Slots
              /\ x \notin workersCancelled /\ x # old
          BY Zenon, <1>0, <2>1, <3>2, BondAssumption DEF PlaceTypes
        <4>2. roomSlots[at[x]][SlotOf[x]] = x
          BY Zenon, <4>1 DEF WorkerKeepsSlot
        <4>3. at[x] # b \/ SlotOf[x] # s
          BY Zenon, <4>1, <4>2
        <4> QED  BY Zenon, <1>0, <2>1, <2>2, <4>1, <4>2, <4>3 DEF SlotTypes
      <3> QED  BY Zenon, <3>1, <3>2
    <2> QED  BY Zenon, <2>5, <2>6 DEF WorkerKeepsSlot, HeldSlots
  <1>2. ASSUME NEW c \in Conns, RemoveWorker(c) PROVE WorkerKeepsSlot'
    <2> DEFINE b == at[c]  s == SlotOf[c]
    <2>1. /\ pc[c] = "attached" /\ pc' = [pc EXCEPT ![c] = "gone"] /\ UNCHANGED <<at, workersCancelled>>
          /\ b \in Conns /\ s \in Slots
      BY Zenon, <1>0, <1>2, BondAssumption DEF RemoveWorker, GotoBond, PlaceTypes
    <2>2. CASE roomSlots[b][s] # c
      BY ZenonT(60), <1>0, <1>2, <2>1, <2>2, SlotsQuiet DEF RemoveWorker, PlaceTypes
    <2>3. CASE roomSlots[b][s] = c
      <3>1. /\ roomSlots' = [roomSlots EXCEPT ![b][s] = None]
            /\ workers' = [workers EXCEPT ![b] = workers[b] - 1]
        BY Zenon, <1>2, <2>3 DEF RemoveWorker, ArmEmptyCleanup
      <3>2. roomSlots[b][s] # None
        BY Zenon, <1>0, <2>3
      <3>3. \A x \in Conns : workers[x] = Cardinality(HeldSlots(x))
        BY Zenon DEF WorkerKeepsSlot, HeldSlots
      <3>4. \A x \in Conns : workers'[x] = Cardinality(HeldSlots(x)')
        <4> DEFINE n == workers[b] - 1
        <4>1. b \in Conns /\ s \in Slots /\ workers' = [workers EXCEPT ![b] = n]
          BY Zenon, <2>1, <3>1
        <4> HIDE DEF b, s
        <4> QED  BY Zenon, <1>0, <3>1, <3>2, <3>3, <4>1, SlotsMove
      <3>5. \A x \in Conns : pc'[x] = "attached" /\ x \notin workersCancelled'
                               => roomSlots'[at'[x]][SlotOf[x]] = x
        <4> SUFFICES ASSUME NEW x \in Conns, pc'[x] = "attached", x \notin workersCancelled
                     PROVE  roomSlots'[at[x]][SlotOf[x]] = x
          BY Zenon, <2>1
        <4>1. x # c /\ pc[x] = "attached" /\ at[x] \in Conns /\ SlotOf[x] \in Slots
          BY Zenon, <1>0, <2>1, BondAssumption DEF PlaceTypes
        <4>2. roomSlots[at[x]][SlotOf[x]] = x
          BY Zenon, <4>1 DEF WorkerKeepsSlot
        <4> QED  BY Zenon, <1>0, <2>1, <2>3, <3>1, <4>1, <4>2 DEF SlotTypes
      <3> QED  BY Zenon, <3>4, <3>5 DEF WorkerKeepsSlot, HeldSlots
    <2> QED  BY Zenon, <2>2, <2>3
  <1>3. ASSUME NEW c \in Conns, Setup(c) \/ ReplyFails(c) PROVE WorkerKeepsSlot'
    <2>1. /\ UNCHANGED <<roomSlots, workersCancelled>>
          /\ \E place \in Places \ {"attached"} : pc' = [pc EXCEPT ![c] = place]
          /\ at' = at \/ (pc[c] # "attached" /\ \E x : at' = [at EXCEPT ![c] = x])
          /\ workers' = workers \/ workers' = [workers EXCEPT ![c] = workers[c]]
      BY Zenon, <1>3 DEF Setup, StartBind, Join, Refuse, ClaimRun, Authenticate, Retire, RetireReturns,
                  ProvisionBond, DialWG, NewBond, Commit, Lost, Publish, ReplyFails, GotoBond, Abandon,
                  AbandonIdentity, ArmEmptyCleanup, workerVars, Places
    <2>2. \A x \in Conns : pc'[x] = "attached" => pc[x] = "attached" /\ at'[x] = at[x]
      BY Zenon, <1>0, <2>1 DEF PlaceTypes
    <2>3. \A x \in Conns : workers'[x] = workers[x]
      BY Zenon, <1>0, <2>1 DEF SlotTypes
    <2> QED  BY Zenon, <1>0, <2>1, <2>2, <2>3, SlotsQuiet
  <1>4. CASE (\E b \in Conns : Closing(b) \/ Cleanup(b) \/ SocketError(b))
             \/ CancelServer \/ ShutdownBegin \/ ShutdownSweep \/ UNCHANGED bondVars
    <2>1. UNCHANGED <<roomSlots, workers, pc, at>> /\ workersCancelled \subseteq workersCancelled'
      BY Zenon, <1>4 DEF Closing, CloseSocket, CloseWorkers, CloseIdentity, Cleanup, TimerFires, TimerCheck,
                  TimerRemove, ContextRemove, RemoveDelete, SocketError, CancelServer, ShutdownBegin,
                  ShutdownSweep, bondVars, bondConnVars, workerVars
    <2> QED  BY Zenon, <1>0, <2>1, SlotsQuiet
  <1> QED  BY Zenon, <1>1, <1>2, <1>3, <1>4 DEF BondNext

\* For any connections, runs, devices, tokens and slots, with every fault and a shutdown
\* at any moment: one socket per device, a worker keeps its slot and b.workers counts
\* them, an identity that was granted is ended, and a live bond is in the map.
THEOREM BondIsSafe == BondSpec => []BondSafe
  <1>1. BondInit => WorkerKeepsSlot
    <2> SUFFICES ASSUME BondInit PROVE WorkerKeepsSlot
      BY Zenon
    <2>1. \A b \in Conns : {s \in Slots : roomSlots[b][s] # None} = {}
      BY Zenon DEF BondInit
    <2> QED  BY Zenon, <2>1, FS_EmptySet DEF BondInit, WorkerKeepsSlot
  <1>2. BondInv /\ WorkerKeepsSlot => BondSafe
    BY Zenon DEF BondInv, BondSafe
  <1> QED  BY <1>1, <1>2, BondInitInv, BondStep, WorkerStep, PTL DEF BondSpec

=============================================================================
