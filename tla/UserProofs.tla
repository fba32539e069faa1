----------------------------- MODULE UserProofs -----------------------------
(***************************************************************************)
(* Proofs about what a user's connections are charged, what their handlers *)
(* on the server do, and about the relays of their streams.                *)
(***************************************************************************)
EXTENDS Quota, ServerConn, StreamRelay, TLAPS

-----------------------------------------------------------------------------
(* Proofs.  For any connections, cap and bounds no byte is lost or counted *)
(* twice between memory, the running Flushes and the database, and a user  *)
(* without a cap is never cut off.                                         *)

\* Add, the flushes, the hooks, the reloads and Close keep the state well typed.
LEMMA TypeStep == TypeOK /\ [Next]_vars => TypeOK'
<1> SUFFICES ASSUME TypeOK, [Next]_vars PROVE TypeOK'
  BY Zenon
<1> USE QuotaAssumption DEF TypeOK, Flushers, Publishers
<1>1. CASE UNCHANGED vars
  BY Zenon, <1>1 DEF vars
<1>2. ASSUME NEW c \in Conns, Admit(c) \/ Track(c) PROVE TypeOK'
  BY Zenon, <1>2 DEF Admit, Track, accVars, budgetVars, closeVars
<1>3. ASSUME NEW c \in Conns, AddStep(c) PROVE TypeOK'
  <2>1. CASE AddLoad(c)
    BY <2>1 DEF AddLoad, Idle, accVars, budgetVars, closeVars
  <2>2. CASE AddTake(c)
    BY <2>2 DEF AddTake, Idle, accVars, closeVars
  <2>3. CASE AddFire(c)
    BY Zenon, <2>3 DEF AddFire, Idle, accVars, closeVars
  <2> QED
    BY Zenon, <1>3, <2>1, <2>2, <2>3 DEF AddStep
<1>4. ASSUME NEW c \in Conns, NEW n \in Deltas, AddCount(c, n) PROVE TypeOK'
  BY <1>4 DEF AddCount, Idle, budgetVars, closeVars
<1>5. CASE Kill
  BY Zenon, <1>5 DEF Kill, Killed, accVars, closeVars
<1>6. ASSUME NEW t \in Flushers, Flush(t) PROVE TypeOK'
  <2>1. CASE FlushSwap(t)
    BY Zenon, <2>1 DEF FlushSwap, budgetVars, closeVars
  <2>2. CASE FlushCommit(t)
    BY <2>2 DEF FlushCommit, budgetVars, closeVars
  <2>3. CASE FlushFail(t)
    BY <2>3 DEF FlushFail, FlushReturns, budgetVars
  <2>4. CASE HookCheck(t)
    BY Zenon, <2>4 DEF HookCheck, FlushReturns, Killed, accVars, budgetVars
  <2> QED
    BY Zenon, <1>6, <2>1, <2>2, <2>3, <2>4 DEF Flush
<1>7. CASE FlushNothing
  BY Zenon, <1>7 DEF FlushNothing, FlushReturns, accVars, budgetVars
<1>8. ASSUME NEW t \in Publishers, Publish(t) PROVE TypeOK'
  <2>1. CASE PublishRead(t)
    BY <2>1 DEF PublishRead, Budget, Used, Unlimited, accVars, budgetVars, closeVars
  <2>2. CASE PublishStore(t)
    BY <2>2 DEF PublishStore, accVars, closeVars
  <2>3. CASE PublishRearm(t)
    BY Zenon, <2>3 DEF PublishRearm, accVars, closeVars
  <2>4. CASE HookFails(t)
    BY Zenon, <2>4 DEF HookFails, FlushReturns, accVars, budgetVars
  <2> QED
    BY Zenon, <1>8, <2>1, <2>2, <2>3, <2>4 DEF Publish
<1>9. CASE ReloadUsers
  BY <1>9 DEF ReloadUsers, Used, accVars, budgetVars, closeVars
<1>10. CASE ResetQuota
  BY <1>10 DEF ResetQuota, accVars, budgetVars, closeVars
<1>11. CASE Close
  BY ZenonT(60), <1>11 DEF Close, CloseConns, CloseWaited, CloseDB, TickerStops, accVars, budgetVars
<1> QED
  BY Zenon, <1>1, <1>2, <1>3, <1>4, <1>5, <1>6, <1>7, <1>8, <1>9, <1>10, <1>11 DEF Next

\* Only Add, the swap, the commit and the restore move bytes, each of them from
\* one place to another.  The other steps leave a transaction where it is.
LEMMA ConservedStep ==
    TypeOK /\ BatchInTx /\ Conserved /\ [Next]_vars => BatchInTx' /\ Conserved'
<1> SUFFICES ASSUME TypeOK, BatchInTx, Conserved, [Next]_vars PROVE BatchInTx' /\ Conserved'
  BY Zenon
<1> USE DEF BatchInTx, Conserved, InFlight, Flushers
<1>1. ASSUME UNCHANGED accVars,
             \A t \in Flushers : pc'[t] = pc[t] \/ (pc[t] # "tx" /\ pc'[t] # "tx")
      PROVE BatchInTx' /\ Conserved'
  BY Zenon, <1>1 DEF accVars
<1>2. ASSUME NEW c \in Conns, NEW n \in Deltas, AddCount(c, n) PROVE BatchInTx' /\ Conserved'
  BY <1>2, QuotaAssumption DEF AddCount, TypeOK
<1>3. ASSUME NEW t \in Flushers, FlushSwap(t) PROVE BatchInTx' /\ Conserved'
  <2>1. batch[t] = 0
    BY Zenon, <1>3 DEF FlushSwap, MayFlush
  <2> QED
    BY <1>3, <2>1 DEF FlushSwap, TypeOK, Publishers
<1>4. ASSUME NEW t \in Flushers, FlushCommit(t) PROVE BatchInTx' /\ Conserved'
  BY <1>4 DEF FlushCommit, TypeOK, Publishers
<1>5. ASSUME NEW t \in Flushers, FlushFail(t) PROVE BatchInTx' /\ Conserved'
  BY <1>5 DEF FlushFail, TypeOK, Publishers
<1>6. ASSUME NEW t \in Flushers, HookCheck(t) PROVE BatchInTx' /\ Conserved'
  BY Zenon, <1>1, <1>6 DEF HookCheck, TypeOK, Publishers
<1>7. ASSUME NEW t \in Publishers, Publish(t) PROVE BatchInTx' /\ Conserved'
  BY ZenonT(60), <1>1, <1>7 DEF Publish, PublishRead, PublishStore, PublishRearm, HookFails, TypeOK, Publishers
<1>8. CASE ReloadUsers
  BY Zenon, <1>1, <1>8 DEF ReloadUsers, TypeOK, Publishers
<1>9. CASE UNCHANGED <<accVars, pc>>
  BY Zenon, <1>1, <1>9
<1>10. CASE Kill \/ FlushNothing \/ ResetQuota \/ Close
  BY Zenon, <1>9, <1>10 DEF Kill, FlushNothing, ResetQuota, Close, CloseConns, CloseWaited, CloseDB, TickerStops
<1>11. ASSUME NEW c \in Conns, Admit(c) \/ Track(c) \/ AddStep(c) PROVE BatchInTx' /\ Conserved'
  BY Zenon, <1>9, <1>11 DEF Admit, Track, AddStep, AddLoad, AddTake, AddFire
<1>12. CASE UNCHANGED vars
  BY Zenon, <1>9, <1>12 DEF vars, accVars
<1> QED
  BY Zenon, <1>2, <1>3, <1>4, <1>5, <1>6, <1>7, <1>8, <1>10, <1>11, <1>12 DEF Next, Flush

\* No step of the server changes the cap.
LEMMA CapFixed == [Next]_vars => cap' = cap
  BY Zenon DEF Next, vars, Admit, Track, AddStep, AddLoad, AddTake, AddFire, AddCount, Kill,
         Flush, FlushSwap, FlushCommit, FlushFail, HookCheck, FlushNothing,
         Publish, PublishRead, PublishStore, PublishRearm, HookFails, ReloadUsers,
         ResetQuota, Close, CloseConns, CloseWaited, CloseDB, TickerStops

\* Without a cap -1 is all that is ever published, so Add never takes from the
\* budget and the hook never finds the user over it.
LEMMA UnlimitedStep ==
    TypeOK /\ Unbudgeted /\ UnlimitedNeverKilled /\ [Next]_vars
      => Unbudgeted' /\ UnlimitedNeverKilled'
<1> SUFFICES ASSUME cap = 0, TypeOK, Unbudgeted, UnlimitedNeverKilled, [Next]_vars
             PROVE Unbudgeted' /\ UnlimitedNeverKilled'
  BY Zenon, CapFixed DEF Unbudgeted, UnlimitedNeverKilled
<1> USE DEF Unbudgeted, UnlimitedNeverKilled, TypeOK
<1>1. ASSUME NEW c \in Conns, Admit(c) \/ Track(c) PROVE Unbudgeted' /\ UnlimitedNeverKilled'
  BY <1>1 DEF Admit, Track, budgetVars, closeVars
<1>2. ASSUME NEW c \in Conns, AddStep(c) PROVE Unbudgeted' /\ UnlimitedNeverKilled'
  <2>1. AddLoad(c)
    BY Zenon, <1>2 DEF AddStep, AddTake, AddFire
  <2> QED
    BY Zenon, <2>1 DEF AddLoad, Idle, budgetVars, closeVars
<1>3. ASSUME NEW c \in Conns, NEW n \in Deltas, AddCount(c, n) PROVE Unbudgeted' /\ UnlimitedNeverKilled'
  BY Zenon, <1>3 DEF AddCount, budgetVars, closeVars
<1>4. CASE Kill
  BY Zenon, <1>4 DEF Kill
<1>5. ASSUME NEW t \in Flushers, Flush(t) PROVE Unbudgeted' /\ UnlimitedNeverKilled'
  <2>1. CASE FlushSwap(t) \/ FlushCommit(t)
    BY <2>1 DEF FlushSwap, FlushCommit, budgetVars, closeVars, Flushers, Publishers
  <2>2. CASE FlushFail(t)
    BY Zenon, <2>2 DEF FlushFail, FlushReturns, budgetVars, Flushers, Publishers
  <2>3. CASE HookCheck(t)
    BY <2>3 DEF HookCheck, FlushReturns, OverCap, budgetVars, Flushers, Publishers
  <2> QED
    BY Zenon, <1>5, <2>1, <2>2, <2>3 DEF Flush
<1>6. CASE FlushNothing
  BY Zenon, <1>6 DEF FlushNothing, FlushReturns, budgetVars
<1>7. ASSUME NEW t \in Publishers, Publish(t) PROVE Unbudgeted' /\ UnlimitedNeverKilled'
  <2>1. CASE PublishRead(t)
    BY Zenon, <2>1 DEF PublishRead, Budget, budgetVars, closeVars
  <2>2. CASE PublishStore(t)
    BY Zenon, <2>2 DEF PublishStore, closeVars
  <2>3. CASE PublishRearm(t)
    BY Zenon, <2>3 DEF PublishRearm, closeVars
  <2>4. CASE HookFails(t)
    BY ZenonT(60), <2>4 DEF HookFails, FlushReturns, budgetVars
  <2> QED
    BY Zenon, <1>7, <2>1, <2>2, <2>3, <2>4 DEF Publish
<1>8. CASE ReloadUsers
  BY Zenon, <1>8 DEF ReloadUsers, budgetVars, closeVars
<1>9. CASE ResetQuota
  BY Zenon, <1>9 DEF ResetQuota, budgetVars, closeVars
<1>10. CASE Close
  BY <1>10 DEF Close, CloseConns, CloseWaited, CloseDB, TickerStops, budgetVars
<1>11. CASE UNCHANGED vars
  BY Zenon, <1>11 DEF vars
<1> QED
  BY Zenon, <1>1, <1>2, <1>3, <1>4, <1>5, <1>6, <1>7, <1>8, <1>9, <1>10, <1>11 DEF Next

\* What the steps above keep.
IInv == TypeOK /\ BatchInTx /\ Conserved /\ Unbudgeted /\ UnlimitedNeverKilled

\* The inductive invariant of the accounting.
THEOREM Invariance == Spec => []IInv
<1>1. Init => IInv
  <2> SUFFICES ASSUME Init PROVE IInv
    BY Zenon
  <2> USE QuotaAssumption DEF Init, Flushers, Publishers, Idle, Budget, Used, Unlimited
  <2>0. fired \in BOOLEAN /\ killing \in BOOLEAN /\ dbOpen \in BOOLEAN
    BY Zenon
  <2>1. TypeOK
    BY <2>0 DEF TypeOK
  <2>2. BatchInTx /\ Conserved
    BY DEF BatchInTx, Conserved, InFlight
  <2>3. Unbudgeted
    BY Zenon DEF Unbudgeted
  <2>4. UnlimitedNeverKilled
    BY Zenon DEF UnlimitedNeverKilled
  <2> QED
    BY Zenon, <2>1, <2>2, <2>3, <2>4 DEF IInv
<1>2. IInv /\ [Next]_vars => IInv'
  BY Zenon, TypeStep, ConservedStep, UnlimitedStep DEF IInv
<1> QED
  BY <1>1, <1>2, PTL DEF Spec

\* Accounting.Flush and Add lose no byte and count none twice, whatever fails.
THEOREM BytesConserved == Spec => []Conserved
<1>1. IInv => Conserved
  BY Zenon DEF IInv
<1> QED
  BY <1>1, Invariance, PTL

\* The -1 of an unlimited user never leads to KillUser.
THEOREM UnlimitedSafe == Spec => []UnlimitedNeverKilled
<1>1. IInv => UnlimitedNeverKilled
  BY Zenon DEF IInv
<1> QED
  BY <1>1, Invariance, PTL

\* Whatever fails and however Add, Flush, the reloads and the resets interleave, the
\* accounts are exact and only a cap cuts a user off.
THEOREM AccountingIsSafe == Spec => []QuotaSafe
<1>1. Conserved /\ UnlimitedNeverKilled => QuotaSafe
  BY Zenon DEF QuotaSafe
<1> QED
  BY <1>1, BytesConserved, UnlimitedSafe, PTL

-----------------------------------------------------------------------------
(* Proofs about a connection's handler. *)

ConnPlaces == {"none", "accepted", "gone"} \cup Handlers

ConnTypes ==
    /\ at \in [ServerConns -> ConnPlaces]
    /\ open \in [ServerConns -> BOOLEAN]
    /\ seenHellos \subseteq Keys
    /\ sessionRows \subseteq ServerConns
    /\ connPassed \in [Keys -> Nat]

\* A key outside the window has not been used in it, and a handler that comes to the
\* replay check has a key.
KeysMarked ==
    /\ \A k \in Keys : k \notin seenHellos => connPassed[k] = 0
    /\ \A c \in ServerConns : at[c] \in {"lookup", "replay"} => key[c] \in Keys
    /\ DOMAIN key = ServerConns

ConnInv == ConnTypes /\ KeysMarked /\ ConnSafe

LEMMA ConnInitInv == ConnInit => ConnInv
  BY DEF ConnInit, ConnInv, ConnTypes, KeysMarked, ConnSafe, HandshakeUsedOnce,
         SessionsMatch, ConnPlaces, Handlers, Waiting

LEMMA ConnStep == ConnInv /\ [ConnNext]_connVars => ConnInv'
  <1> SUFFICES ASSUME ConnInv, [ConnNext]_connVars PROVE ConnInv'
    BY Zenon
  <1> USE DEF ConnInv, ConnTypes, KeysMarked, ConnSafe, HandshakeUsedOnce, SessionsMatch,
              ConnPlaces, Handlers, Waiting, Authenticated, DBOpen, Go, shared
  <1>1. CASE UNCHANGED connVars
    BY Zenon, <1>1 DEF connVars
  <1>2. ASSUME NEW c \in ServerConns,
               \/ AcceptConn(c) \/ Spawn(c) \/ Register(c) \/ HelloFails(c)
               \/ HelloForeign(c) \/ HelloLimited(c) \/ Lookup(c)
        PROVE  ConnInv'
    BY <1>2, ZenonT(60) DEF AcceptConn, Spawn, Register, HelloFails, HelloForeign, HelloLimited, Lookup,
                Masquerade
  <1>3. ASSUME NEW c \in ServerConns, NEW k \in Keys, HelloAuthentic(c, k)
        PROVE  ConnInv'
    BY Zenon, <1>3 DEF HelloAuthentic
  <1>4. ASSUME NEW c \in ServerConns, Replay(c)
        PROVE  ConnInv'
    BY <1>4 DEF Replay
  <1>5. ASSUME NEW k \in Keys, Forget(k)
        PROVE  ConnInv'
    BY <1>5 DEF Forget
  <1>6. ASSUME NEW c \in ServerConns, StartUserSession(c)
        PROVE  ConnInv'
    BY Zenon, <1>6 DEF StartUserSession
  <1>7. ASSUME NEW c \in ServerConns,
               TrackConn(c) \/ TLSSucceeds(c) \/ TLSFails(c) \/ ServeEnds(c)
        PROVE  ConnInv'
    BY <1>7, ZenonT(60) DEF TrackConn, TLSSucceeds, TLSFails, ServeEnds
  <1>8. ASSUME NEW c \in ServerConns, Ending(c)
        PROVE  ConnInv'
    BY Zenon, <1>8 DEF Ending
  <1>9. ASSUME NEW c \in ServerConns,
               \/ RejectEnds(c) \/ JitterEnds(c) \/ ProxyEnds(c) \/ Return(c)
               \/ PeerCloses(c) \/ KillCloses(c)
        PROVE  ConnInv'
    BY <1>9, ZenonT(60) DEF RejectEnds, JitterEnds, ProxyEnds, Return, PeerCloses, KillCloses
  <1>10. CASE Suspend \/ KillUser
    BY Zenon, <1>10 DEF Suspend, KillUser
  <1>11. CASE CloseServer
    BY ZenonT(60), <1>11 DEF CloseServer, CancelDeadline, CloseListener, CloseActive, ConnsWaited
  <1> QED
    BY Zenon, <1>1, <1>2, <1>3, <1>4, <1>5, <1>6, <1>7, <1>8, <1>9, <1>10, <1>11
    DEF ConnNext, Step

\* For any number of connections and handshakes, whatever KillUser, peers and Close do
\* at the same time: no handshake passes the replay check twice within the window,
\* every connection in service is one KillUser reaches, and no row of user_sessions
\* outlives its handler while the database is open.
THEOREM ConnIsSafe == ConnSpec => []ConnSafe
  <1>1. ConnInv => ConnSafe
    BY Zenon DEF ConnInv
  <1> QED  BY <1>1, ConnInitInv, ConnStep, PTL DEF ConnSpec

-----------------------------------------------------------------------------
(* The relays. *)

INSTANCE Counting

Stages == {"idle", "validate", "dial", "relay", "release", "drain", "return", "over"}

RelayTypes ==
    /\ stage \in [RelayIds -> Stages]
    /\ far \in [RelayIds -> [FarEnds -> {"open", "ended", "gone", "closed"}]]
    /\ copier \in [RelayIds -> [Directions -> {"off", "call", "parked", "held", "done"}]]
    /\ moved \in [RelayIds -> [Directions -> Nat]]
    /\ billed \in [RelayIds -> [Directions -> Nat]]
    /\ trackedRelays \in [{"h2", "relay"} -> Int]
    /\ leased \subseteq RelayIds /\ released \subseteq RelayIds

\* Before the dial has succeeded nothing runs and nothing is closed, released or
\* billed; after a TCP relay its goroutines have ended and everything is billed.
OrderOf(i) ==
    /\ stage[i] \in {"idle", "validate", "dial"} =>
         /\ far[i]["target"] = "open" /\ copier[i] = PerDirection("off")
         /\ i \notin released /\ billed[i] = moved[i]
    /\ ProtoOf[i] = "tcp" /\ stage[i] \in {"release", "drain", "return", "over"} =>
         /\ \A d \in Directions : copier[i][d] \in {"off", "done"}
         /\ billed[i] = moved[i]
RelayOrder == \A i \in RelayIds : OrderOf(i)

RelayInv == RelayTypes /\ RelayOrder /\ HeldExactly

LEMMA PairFinite ==
    ASSUME NEW a, NEW b
    PROVE  IsFiniteSet({a, b})
  <1>1. IsFiniteSet({a})
    BY Zenon, FS_Singleton
  <1>2. IsFiniteSet({a} \cup {b})
    BY Zenon, <1>1, FS_AddElement
  <1>3. {a} \cup {b} = {a, b}
    BY Zenon
  <1> QED  BY Zenon, <1>2, <1>3

LEMMA RelaysFinite == IsFiniteSet(RelayIds)
  <1> DEFINE A == {"h2", "pipe", "vk"}
             B == {"tcp", "udp"}
             C == 1 .. MaxStreams
             f == [p \in A \X (B \X C) |-> <<p[1], p[2][1], p[2][2]>>]
  <1>1. IsFiniteSet(A)
    <2>1. IsFiniteSet({"h2", "pipe"})
      BY Zenon, PairFinite
    <2>2. IsFiniteSet({"h2", "pipe"} \cup {"vk"})
      BY Zenon, <2>1, FS_AddElement
    <2>3. {"h2", "pipe"} \cup {"vk"} = {"h2", "pipe", "vk"}
      BY Zenon
    <2> QED  BY Zenon, <2>2, <2>3
  <1>2. IsFiniteSet(B)
    BY Zenon, PairFinite
  <1>3. IsFiniteSet(C)
    BY FS_Interval, RelayAssumption
  <1>4. f \in Surjection(A \X (B \X C), RelayIds)
    <2>1. f \in [A \X (B \X C) -> RelayIds]
      BY Zenon DEF RelayIds
    <2>2. ASSUME NEW i \in RelayIds PROVE \E p \in A \X (B \X C) : f[p] = i
      <3>1. i = <<i[1], i[2], i[3]>> /\ i[1] \in A /\ i[2] \in B /\ i[3] \in C
        BY DEF RelayIds
      <3>2. <<i[1], <<i[2], i[3]>>>> \in A \X (B \X C)
        BY Zenon, <3>1
      <3> QED  BY Zenon, <3>1, <3>2
    <2> QED  BY Zenon, <2>1, <2>2 DEF Surjection
  <1> HIDE DEF A, B, C, f
  <1>5. IsFiniteSet(A \X (B \X C))
    BY Zenon, <1>1, <1>2, <1>3, FS_Product
  <1> QED  BY Zenon, <1>4, <1>5, FS_Surjection

\* A step of one stream moves each counted set by that stream at most.
LEMMA RelaysMove ==
    ASSUME NEW i \in RelayIds,
           \A j \in RelayIds \ {i} : /\ stage'[j] = stage[j]
                                     /\ j \in released' <=> j \in released
    PROVE  /\ Cardinality(RelaysCounted) \in Nat /\ Cardinality(StreamsServed) \in Nat
           /\ (i \in RelaysCounted <=> i \in RelaysCounted') =>
                Cardinality(RelaysCounted') = Cardinality(RelaysCounted)
           /\ i \notin RelaysCounted /\ i \in RelaysCounted' =>
                Cardinality(RelaysCounted') = Cardinality(RelaysCounted) + 1
           /\ i \in RelaysCounted /\ i \notin RelaysCounted' =>
                Cardinality(RelaysCounted') = Cardinality(RelaysCounted) - 1
           /\ (i \in StreamsServed <=> i \in StreamsServed') =>
                Cardinality(StreamsServed') = Cardinality(StreamsServed)
           /\ i \notin StreamsServed /\ i \in StreamsServed' =>
                Cardinality(StreamsServed') = Cardinality(StreamsServed) + 1
           /\ i \in StreamsServed /\ i \notin StreamsServed' =>
                Cardinality(StreamsServed') = Cardinality(StreamsServed) - 1
  <1>1. /\ RelaysCounted \in SUBSET RelayIds /\ RelaysCounted' \in SUBSET RelayIds
        /\ StreamsServed \in SUBSET RelayIds /\ StreamsServed' \in SUBSET RelayIds
    BY Zenon DEF RelaysCounted, StreamsServed
  <1>2. \A j \in RelayIds \ {i} : /\ j \in RelaysCounted <=> j \in RelaysCounted'
                                  /\ j \in StreamsServed <=> j \in StreamsServed'
    BY Zenon DEF RelaysCounted, StreamsServed, CountsRelay
  <1>3. /\ Cardinality(RelaysCounted) \in Nat
        /\ (i \in RelaysCounted <=> i \in RelaysCounted') =>
             Cardinality(RelaysCounted') = Cardinality(RelaysCounted)
        /\ i \notin RelaysCounted /\ i \in RelaysCounted' =>
             Cardinality(RelaysCounted') = Cardinality(RelaysCounted) + 1
        /\ i \in RelaysCounted /\ i \notin RelaysCounted' =>
             Cardinality(RelaysCounted') = Cardinality(RelaysCounted) - 1
    BY <1>1, <1>2, RelaysFinite, CountOne
  <1>4. /\ Cardinality(StreamsServed) \in Nat
        /\ (i \in StreamsServed <=> i \in StreamsServed') =>
             Cardinality(StreamsServed') = Cardinality(StreamsServed)
        /\ i \notin StreamsServed /\ i \in StreamsServed' =>
             Cardinality(StreamsServed') = Cardinality(StreamsServed) + 1
        /\ i \in StreamsServed /\ i \notin StreamsServed' =>
             Cardinality(StreamsServed') = Cardinality(StreamsServed) - 1
    BY <1>1, <1>2, RelaysFinite, CountOne
  <1> QED  BY Zenon, <1>3, <1>4

LEMMA RelayInitInv == RelayInit => RelayInv
  <1> SUFFICES ASSUME RelayInit PROVE RelayInv
    BY Zenon
  <1>1. RelayTypes
    BY RelayAssumption DEF RelayInit, RelayTypes, Stages, PerEnd, PerDirection, FarEnds, Directions
  <1>2. RelayOrder
    BY Zenon DEF RelayInit, RelayOrder, OrderOf, PerEnd, PerDirection, FarEnds, Directions
  <1>3. RelaysCounted = {} /\ StreamsServed = {}
    BY Zenon DEF RelayInit, RelaysCounted, StreamsServed
  <1>4. Cardinality({}) = 0
    BY Zenon, FS_EmptySet
  <1> QED
    BY <1>1, <1>2, <1>3, <1>4, RelayAssumption
    DEF RelayInv, HeldExactly, RelayInit, PerDirection, Directions

\* The lease and the bill of one stream, as HeldExactly has them.
HoldsOf(i) ==
    /\ i \in leased <=> /\ stage[i] \in {"dial", "relay", "release"}
                        /\ ProtoOf[i] = "udp" => far[i]["target"] # "closed"
    /\ \A d \in Directions : billed[i][d] <= moved[i][d]

\* A step of stream i leaves the others alone.
Apart(i) ==
    \A j \in RelayIds \ {i} :
        /\ stage'[j] = stage[j] /\ far'[j] = far[j] /\ copier'[j] = copier[j]
        /\ moved'[j] = moved[j] /\ billed'[j] = billed[j]
        /\ j \in leased' <=> j \in leased
        /\ j \in released' <=> j \in released

\* What holds of i after its step, and of the others before it, holds of all after it.
LEMMA RelayApart ==
    ASSUME RelayInv, NEW i \in RelayIds, Apart(i), OrderOf(i)', HoldsOf(i)'
    PROVE  RelayOrder' /\ \A j \in RelayIds : HoldsOf(j)'
  <1>1. ASSUME NEW j \in RelayIds, j # i PROVE OrderOf(j)' /\ HoldsOf(j)'
    <2>1. OrderOf(j) /\ HoldsOf(j)
      BY Zenon DEF RelayInv, RelayOrder, HeldExactly, HoldsOf
    <2>2. /\ stage'[j] = stage[j] /\ far'[j] = far[j] /\ copier'[j] = copier[j]
          /\ moved'[j] = moved[j] /\ billed'[j] = billed[j]
          /\ j \in leased' <=> j \in leased
          /\ j \in released' <=> j \in released
      BY Zenon, <1>1 DEF Apart
    <2> QED  BY Zenon, <2>1, <2>2 DEF OrderOf, HoldsOf
  <1>2. \A j \in RelayIds : OrderOf(j)' /\ HoldsOf(j)'
    BY Zenon, <1>1
  <1> QED  BY Zenon, <1>2 DEF RelayOrder

\* What a step leaves of the invariant when the counted sets do not move.
LEMMA RelayQuiet ==
    ASSUME RelayInv, RelayTypes', NEW i \in RelayIds, Apart(i), OrderOf(i)', HoldsOf(i)',
           UNCHANGED trackedRelays, i \in released' <=> i \in released,
           \/ stage'[i] = stage[i]
           \/ /\ stage[i] \notin {"idle", "over"} /\ stage'[i] \notin {"idle", "over"}
              /\ stage[i] \in {"relay", "release"} <=> stage'[i] \in {"relay", "release"}
    PROVE  RelayInv'
  <1>1. \A j \in RelayIds : \/ stage'[j] = stage[j]
                            \/ /\ stage[j] \notin {"idle", "over"} /\ stage'[j] \notin {"idle", "over"}
                               /\ stage[j] \in {"relay", "release"}
                                    <=> stage'[j] \in {"relay", "release"}
    BY Zenon DEF Apart
  <1>2. \A j \in RelayIds : j \in released' <=> j \in released
    BY Zenon DEF Apart
  <1>3. RelaysCounted' = RelaysCounted
    BY Zenon, <1>1, <1>2 DEF RelaysCounted, CountsRelay
  <1>4. StreamsServed' = StreamsServed
    BY Zenon, <1>1 DEF StreamsServed
  <1>5. RelayOrder' /\ \A j \in RelayIds : HoldsOf(j)'
    BY Zenon, RelayApart
  <1>6. \A j \in RelayIds : stage'[j] = "over" /\ ProtoOf[j] = "tcp" => billed'[j] = moved'[j]
    BY Zenon, <1>5 DEF RelayOrder, OrderOf
  <1> QED  BY Zenon, <1>3, <1>4, <1>5, <1>6 DEF RelayInv, HeldExactly, HoldsOf

\* The arithmetic of a counter that follows a set one element at a time.
LEMMA CounterFollows ==
    ASSUME NEW x, NEW S, NEW T, NEW c, NEW d, NEW o \in Nat, NEW m \in Nat, NEW n,
           c = o + m, d = c + (IF x \in T THEN 1 ELSE 0) - (IF x \in S THEN 1 ELSE 0),
           (x \in S <=> x \in T) => n = m,
           x \notin S /\ x \in T => n = m + 1, x \in S /\ x \notin T => n = m - 1
    PROVE  d = o + n
  <1>1. CASE x \in S /\ x \in T
    BY <1>1
  <1>2. CASE x \in S /\ x \notin T
    BY <1>2
  <1>3. CASE x \notin S /\ x \in T
    BY <1>3
  <1>4. CASE x \notin S /\ x \notin T
    BY <1>4
  <1> QED  BY Zenon, <1>1, <1>2, <1>3, <1>4

\* What a step leaves of the invariant when one stream moves the counted sets, and
\* the counters follow.
LEMMA RelayCounted ==
    ASSUME RelayInv, RelayTypes', NEW i \in RelayIds, Apart(i), OrderOf(i)', HoldsOf(i)',
           trackedRelays'["relay"] = trackedRelays["relay"]
                               + (IF i \in RelaysCounted' THEN 1 ELSE 0)
                               - (IF i \in RelaysCounted THEN 1 ELSE 0),
           trackedRelays'["h2"] = trackedRelays["h2"]
                               + (IF i \in StreamsServed' THEN 1 ELSE 0)
                               - (IF i \in StreamsServed THEN 1 ELSE 0)
    PROVE  RelayInv'
  <1>0. RelayOrder' /\ \A j \in RelayIds : HoldsOf(j)'
    BY Zenon, RelayApart
  <1>1. \A j \in RelayIds : stage'[j] = "over" /\ ProtoOf[j] = "tcp" => billed'[j] = moved'[j]
    BY Zenon, <1>0 DEF RelayOrder, OrderOf
  <1>2. /\ trackedRelays["relay"] = Others + Cardinality(RelaysCounted)
        /\ trackedRelays["h2"] = Others + Cardinality(StreamsServed)
    BY Zenon DEF RelayInv, HeldExactly
  <1>3. \A j \in RelayIds \ {i} : stage'[j] = stage[j] /\ (j \in released' <=> j \in released)
    BY Zenon DEF Apart
  <1> DEFINE S == RelaysCounted
             T == RelaysCounted'
             U == StreamsServed
             V == StreamsServed'
  <1>4. /\ Cardinality(S) \in Nat /\ Cardinality(U) \in Nat
        /\ (i \in S <=> i \in T) => Cardinality(T) = Cardinality(S)
        /\ i \notin S /\ i \in T => Cardinality(T) = Cardinality(S) + 1
        /\ i \in S /\ i \notin T => Cardinality(T) = Cardinality(S) - 1
        /\ (i \in U <=> i \in V) => Cardinality(V) = Cardinality(U)
        /\ i \notin U /\ i \in V => Cardinality(V) = Cardinality(U) + 1
        /\ i \in U /\ i \notin V => Cardinality(V) = Cardinality(U) - 1
    BY Zenon, <1>3, RelaysMove
  <1>5. /\ trackedRelays["relay"] = Others + Cardinality(S)
        /\ trackedRelays["h2"] = Others + Cardinality(U)
        /\ trackedRelays'["relay"] = trackedRelays["relay"] + (IF i \in T THEN 1 ELSE 0)
                                                          - (IF i \in S THEN 1 ELSE 0)
        /\ trackedRelays'["h2"] = trackedRelays["h2"] + (IF i \in V THEN 1 ELSE 0)
                                                    - (IF i \in U THEN 1 ELSE 0)
    BY Zenon, <1>2
  <1> HIDE DEF S, T, U, V
  <1>6. trackedRelays'["relay"] = Others + Cardinality(T)
    <2> DEFINE c == trackedRelays["relay"]
               d == trackedRelays'["relay"]
               m == Cardinality(S)
               n == Cardinality(T)
    <2>1. /\ Others \in Nat /\ m \in Nat
          /\ c = Others + m
          /\ d = c + (IF i \in T THEN 1 ELSE 0) - (IF i \in S THEN 1 ELSE 0)
          /\ (i \in S <=> i \in T) => n = m
          /\ i \notin S /\ i \in T => n = m + 1
          /\ i \in S /\ i \notin T => n = m - 1
      BY Zenon, <1>4, <1>5, RelayAssumption
    <2> SUFFICES d = Others + n
      BY Zenon
    <2> HIDE DEF c, d, m, n
    <2> QED  BY <2>1, CounterFollows
  <1>7. trackedRelays'["h2"] = Others + Cardinality(V)
    <2> DEFINE c == trackedRelays["h2"]
               d == trackedRelays'["h2"]
               m == Cardinality(U)
               n == Cardinality(V)
    <2>1. /\ Others \in Nat /\ m \in Nat
          /\ c = Others + m
          /\ d = c + (IF i \in V THEN 1 ELSE 0) - (IF i \in U THEN 1 ELSE 0)
          /\ (i \in U <=> i \in V) => n = m
          /\ i \notin U /\ i \in V => n = m + 1
          /\ i \in U /\ i \notin V => n = m - 1
      BY Zenon, <1>4, <1>5, RelayAssumption
    <2> SUFFICES d = Others + n
      BY Zenon
    <2> HIDE DEF c, d, m, n
    <2> QED  BY <2>1, CounterFollows
  <1> QED  BY Zenon, <1>0, <1>1, <1>6, <1>7 DEF RelayInv, HeldExactly, HoldsOf, T, V

LEMMA RelayIdFields ==
    ASSUME NEW i \in RelayIds
    PROVE  FrontOf[i] \in {"h2", "pipe", "vk"} /\ ProtoOf[i] \in {"tcp", "udp"}
  BY Zenon DEF RelayIds, FrontOf, ProtoOf

\* Setting one end of one stream.
LEMMA NestedSet ==
    ASSUME NEW A, NEW B, NEW C, NEW f \in [A -> [B -> C]], NEW a \in A, NEW b \in B, NEW x \in C
    PROVE  /\ [f EXCEPT ![a][b] = x] \in [A -> [B -> C]]
           /\ [f EXCEPT ![a][b] = x][a][b] = x
           /\ \A d \in B : d # b => [f EXCEPT ![a][b] = x][a][d] = f[a][d]
  <1>1. /\ f[a] \in [B -> C]
        /\ [f EXCEPT ![a][b] = x] = [f EXCEPT ![a] = [f[a] EXCEPT ![b] = x]]
    BY Zenon
  <1>2. [f EXCEPT ![a] = [f[a] EXCEPT ![b] = x]] \in [A -> [B -> C]]
    BY <1>1
  <1>3. [f EXCEPT ![a] = [f[a] EXCEPT ![b] = x]][a] = [f[a] EXCEPT ![b] = x]
    BY <1>1
  <1>4. /\ [f[a] EXCEPT ![b] = x][b] = x
        /\ \A d \in B : d # b => [f[a] EXCEPT ![b] = x][d] = f[a][d]
    BY <1>1
  <1> QED  BY <1>1, <1>2, <1>3, <1>4

LEMMA FarSet ==
    ASSUME RelayTypes, NEW i \in RelayIds, NEW e \in FarEnds,
           NEW x \in {"open", "ended", "gone", "closed"},
           far' = [far EXCEPT ![i][e] = x]
    PROVE  /\ far' \in [RelayIds -> [FarEnds -> {"open", "ended", "gone", "closed"}]]
           /\ far'[i][e] = x
           /\ \A d \in FarEnds : d # e => far'[i][d] = far[i][d]
  <1>1. far \in [RelayIds -> [FarEnds -> {"open", "ended", "gone", "closed"}]]
    BY Zenon DEF RelayTypes
  <1> DEFINE C == {"open", "ended", "gone", "closed"}
             g == far
             h == far'
  <1>2. g \in [RelayIds -> [FarEnds -> C]] /\ x \in C /\ h = [g EXCEPT ![i][e] = x]
    BY Zenon, <1>1
  <1> SUFFICES /\ h \in [RelayIds -> [FarEnds -> C]]
               /\ h[i][e] = x
               /\ \A d \in FarEnds : d # e => h[i][d] = g[i][d]
    BY Zenon
  <1> HIDE DEF C, g, h
  <1>3. /\ [g EXCEPT ![i][e] = x] \in [RelayIds -> [FarEnds -> C]]
        /\ [g EXCEPT ![i][e] = x][i][e] = x
        /\ \A d \in FarEnds : d # e => [g EXCEPT ![i][e] = x][i][d] = g[i][d]
    BY <1>2, NestedSet
  <1> QED  BY <1>2, <1>3

LEMMA AtMostItself ==
    ASSUME NEW D, NEW f \in [D -> Nat]
    PROVE  \A d \in D : f[d] <= f[d]
  OBVIOUS

\* A request of the HTTP/2 front is counted when it is accepted.
LEMMA StreamCountedIn ==
    ASSUME RelayTypes, NEW i \in RelayIds, AcceptStream(i)
    PROVE  /\ trackedRelays' \in [{"h2", "relay"} -> Int]
           /\ trackedRelays'["relay"] = trackedRelays["relay"]
           /\ trackedRelays'["h2"] = trackedRelays["h2"] + (IF FrontOf[i] = "h2" THEN 1 ELSE 0)
           /\ trackedRelays["relay"] \in Int /\ trackedRelays["h2"] \in Int
  <1> DEFINE b == FrontOf[i] = "h2"
             u == trackedRelays
             v == trackedRelays'
  <1>1. u \in [{"h2", "relay"} -> Int] /\ v = [u EXCEPT !["h2"] = IF b THEN @ + 1 ELSE @]
    BY Zenon DEF RelayTypes, AcceptStream
  <1> SUFFICES /\ v \in [{"h2", "relay"} -> Int] /\ v["relay"] = u["relay"]
               /\ v["h2"] = u["h2"] + (IF b THEN 1 ELSE 0)
               /\ u["relay"] \in Int /\ u["h2"] \in Int
    BY Zenon
  <1> HIDE DEF b, u, v
  <1>2. CASE b
    BY <1>1, <1>2
  <1>3. CASE ~b
    BY <1>1, <1>3
  <1> QED  BY Zenon, <1>2, <1>3

\* A relay is counted once its dial has succeeded.
LEMMA RelayCountedIn ==
    ASSUME RelayTypes, NEW i \in RelayIds, RelayDialSucceeds(i)
    PROVE  /\ trackedRelays' \in [{"h2", "relay"} -> Int]
           /\ trackedRelays'["h2"] = trackedRelays["h2"]
           /\ trackedRelays'["relay"] = trackedRelays["relay"] + (IF CountsRelay(i) THEN 1 ELSE 0)
           /\ trackedRelays["relay"] \in Int /\ trackedRelays["h2"] \in Int
  <1> DEFINE b == CountsRelay(i)
             u == trackedRelays
             v == trackedRelays'
  <1>1. u \in [{"h2", "relay"} -> Int] /\ v = [u EXCEPT !["relay"] = IF b THEN @ + 1 ELSE @]
    BY Zenon DEF RelayTypes, RelayDialSucceeds
  <1> SUFFICES /\ v \in [{"h2", "relay"} -> Int] /\ v["h2"] = u["h2"]
               /\ v["relay"] = u["relay"] + (IF b THEN 1 ELSE 0)
               /\ u["relay"] \in Int /\ u["h2"] \in Int
    BY Zenon
  <1> HIDE DEF b, u, v
  <1>2. CASE b
    BY <1>1, <1>2
  <1>3. CASE ~b
    BY <1>1, <1>3
  <1> QED  BY Zenon, <1>2, <1>3

\* The one place that counts a relay out.
LEMMA CountedOut ==
    ASSUME RelayTypes, NEW i \in RelayIds, ReleaseRelay(i)
    PROVE  /\ trackedRelays' \in [{"h2", "relay"} -> Int]
           /\ trackedRelays'["h2"] = trackedRelays["h2"]
           /\ trackedRelays'["relay"] =
                trackedRelays["relay"] - (IF CountsRelay(i) /\ i \notin released THEN 1 ELSE 0)
           /\ trackedRelays["relay"] \in Int /\ trackedRelays["h2"] \in Int
  <1> DEFINE b == CountsRelay(i) /\ i \notin released
             u == trackedRelays
             v == trackedRelays'
  <1>1. u \in [{"h2", "relay"} -> Int] /\ v = [u EXCEPT !["relay"] = IF b THEN @ - 1 ELSE @]
    BY Zenon DEF RelayTypes, ReleaseRelay
  <1> SUFFICES /\ v \in [{"h2", "relay"} -> Int] /\ v["h2"] = u["h2"]
               /\ v["relay"] = u["relay"] - (IF b THEN 1 ELSE 0)
               /\ u["relay"] \in Int /\ u["h2"] \in Int
    BY Zenon
  <1> HIDE DEF b, u, v
  <1>2. CASE b
    BY <1>1, <1>2
  <1>3. CASE ~b
    BY <1>1, <1>3
  <1> QED  BY Zenon, <1>2, <1>3

\* Setting up: the steps before the relay.
LEMMA RelaySetup ==
    ASSUME RelayInv, NEW i \in RelayIds,
           \/ AcceptStream(i) \/ RejectStream(i) \/ ResolveOutbound(i)
           \/ RelayDialFails(i) \/ RelayDialSucceeds(i)
    PROVE  RelayInv'
  <1> USE RelayIdFields
  <1>1. RelayTypes /\ OrderOf(i) /\ HoldsOf(i)
    BY Zenon DEF RelayInv, RelayOrder, HeldExactly, HoldsOf
  <1>2. CASE AcceptStream(i)
    <2>1. RelayTypes'
      BY Zenon, <1>1, <1>2, StreamCountedIn DEF AcceptStream, RelayTypes, Stages
    <2>2. /\ stage[i] = "idle" /\ stage'[i] = "validate"
          /\ i \in leased' <=> i \in leased
          /\ far'[i]["target"] = far[i]["target"]
          /\ copier'[i] = copier[i] /\ moved'[i] = moved[i] /\ billed'[i] = billed[i]
          /\ i \in released' <=> i \in released
      BY Zenon, <1>1, <1>2 DEF AcceptStream, RelayTypes, FarEnds
    <2>3. Apart(i)
      BY Zenon, <1>1, <1>2 DEF AcceptStream, RelayTypes, Apart
    <2>4. OrderOf(i)'
      BY Zenon, <1>1, <2>2 DEF OrderOf, PerDirection
    <2>5. HoldsOf(i)'
      BY Zenon, <1>1, <2>2 DEF OrderOf, HoldsOf
    <2>6. /\ i \notin RelaysCounted /\ i \notin RelaysCounted'
          /\ i \notin StreamsServed
          /\ i \in StreamsServed' <=> FrontOf[i] = "h2"
      BY ZenonT(60), <1>1, <2>2 DEF OrderOf, RelaysCounted, StreamsServed, CountsRelay
    <2>7. /\ trackedRelays'["relay"] = trackedRelays["relay"]
          /\ trackedRelays'["h2"] = trackedRelays["h2"] + (IF FrontOf[i] = "h2" THEN 1 ELSE 0)
          /\ trackedRelays["relay"] \in Int /\ trackedRelays["h2"] \in Int
      BY Zenon, <1>1, <1>2, StreamCountedIn
    <2>11. /\ trackedRelays'["relay"] = trackedRelays["relay"]
                               + (IF i \in RelaysCounted' THEN 1 ELSE 0)
                               - (IF i \in RelaysCounted THEN 1 ELSE 0)
          /\ trackedRelays'["h2"] = trackedRelays["h2"]
                               + (IF i \in StreamsServed' THEN 1 ELSE 0)
                               - (IF i \in StreamsServed THEN 1 ELSE 0)
      BY SMTT(60), <2>6, <2>7
    <2> QED  BY ZenonT(60), <2>1, <2>3, <2>4, <2>5, <2>11, RelayCounted
  <1>3. CASE RejectStream(i)
    <2>1. RelayTypes'
      BY Zenon, <1>1, <1>3 DEF RejectStream, Leaves, RelayTypes, Stages
    <2>2. /\ stage[i] = "validate" /\ stage'[i] \in {"drain", "return"}
          /\ i \in leased' <=> i \in leased
          /\ far'[i]["target"] = far[i]["target"]
          /\ copier'[i] = copier[i] /\ moved'[i] = moved[i] /\ billed'[i] = billed[i]
          /\ UNCHANGED trackedRelays /\ (i \in released' <=> i \in released)
      BY Zenon, <1>1, <1>3 DEF RejectStream, Leaves, RelayTypes, FarEnds
    <2>3. Apart(i)
      BY ZenonT(60), <1>1, <1>3 DEF RejectStream, Leaves, RelayTypes, Apart
    <2>4. OrderOf(i)'
      BY <1>1, <2>2 DEF OrderOf, PerDirection
    <2>5. HoldsOf(i)'
      BY Zenon, <1>1, <2>2 DEF OrderOf, HoldsOf
    <2> QED  BY ZenonT(60), <2>1, <2>2, <2>3, <2>4, <2>5, RelayQuiet
  <1>4. CASE ResolveOutbound(i)
    <2>1. RelayTypes'
      BY Zenon, <1>1, <1>4 DEF ResolveOutbound, RelayTypes, Stages
    <2>2. /\ stage[i] = "validate" /\ stage'[i] = "dial"
          /\ i \in leased'
          /\ far'[i]["target"] = far[i]["target"]
          /\ copier'[i] = copier[i] /\ moved'[i] = moved[i] /\ billed'[i] = billed[i]
          /\ UNCHANGED trackedRelays /\ (i \in released' <=> i \in released)
      BY Zenon, <1>1, <1>4 DEF ResolveOutbound, RelayTypes, FarEnds
    <2>3. Apart(i)
      BY Zenon, <1>1, <1>4 DEF ResolveOutbound, RelayTypes, Apart
    <2>4. OrderOf(i)'
      BY Zenon, <1>1, <2>2 DEF OrderOf, PerDirection
    <2>5. HoldsOf(i)'
      BY Zenon, <1>1, <2>2 DEF OrderOf, HoldsOf
    <2> QED  BY ZenonT(60), <2>1, <2>2, <2>3, <2>4, <2>5, RelayQuiet
  <1>5. CASE RelayDialFails(i)
    <2>1. RelayTypes'
      BY Zenon, <1>1, <1>5 DEF RelayDialFails, Leaves, RelayTypes, Stages
    <2>2. /\ stage[i] = "dial" /\ stage'[i] \in {"drain", "return"}
          /\ i \notin leased'
          /\ far'[i]["target"] = far[i]["target"]
          /\ copier'[i] = copier[i] /\ moved'[i] = moved[i] /\ billed'[i] = billed[i]
          /\ UNCHANGED trackedRelays /\ (i \in released' <=> i \in released)
      BY Zenon, <1>1, <1>5 DEF RelayDialFails, Leaves, RelayTypes, FarEnds
    <2>3. Apart(i)
      BY ZenonT(60), <1>1, <1>5 DEF RelayDialFails, Leaves, RelayTypes, Apart
    <2>4. OrderOf(i)'
      BY <1>1, <2>2 DEF OrderOf, PerDirection
    <2>5. HoldsOf(i)'
      BY ZenonT(60), <1>1, <2>2 DEF OrderOf, HoldsOf
    <2> QED  BY Zenon, <2>1, <2>2, <2>3, <2>4, <2>5, RelayQuiet
  <1>6. CASE RelayDialSucceeds(i)
    <2>1. RelayTypes'
      <3>1. trackedRelays' \in [{"h2", "relay"} -> Int]
        BY Zenon, <1>1, <1>6, RelayCountedIn
      <3>2. PerDirection("call") \in [Directions -> {"off", "call", "parked", "held", "done"}]
        BY Zenon DEF PerDirection
      <3> QED  BY Zenon, <1>1, <1>6, <3>1, <3>2 DEF RelayDialSucceeds, RelayTypes, Stages
    <2>2. /\ stage[i] = "dial" /\ stage'[i] = "relay"
          /\ i \in leased' <=> i \in leased
          /\ far'[i]["target"] = far[i]["target"]
          /\ moved'[i] = moved[i] /\ billed'[i] = billed[i]
          /\ i \in released' <=> i \in released
      BY Zenon, <1>1, <1>6 DEF RelayDialSucceeds, RelayTypes, FarEnds
    <2>3. Apart(i)
      BY Zenon, <1>1, <1>6 DEF RelayDialSucceeds, RelayTypes, Apart
    <2>4. OrderOf(i)'
      BY Zenon, <1>1, <2>2 DEF OrderOf, PerDirection
    <2>5. HoldsOf(i)'
      BY Zenon, <1>1, <2>2 DEF OrderOf, HoldsOf
    <2>6. /\ i \notin RelaysCounted
          /\ i \in RelaysCounted' <=> CountsRelay(i)
          /\ i \in StreamsServed <=> i \in StreamsServed'
      BY ZenonT(60), <1>1, <2>2 DEF OrderOf, RelaysCounted, StreamsServed, CountsRelay
    <2>7. /\ trackedRelays'["h2"] = trackedRelays["h2"]
          /\ trackedRelays'["relay"] = trackedRelays["relay"] + (IF CountsRelay(i) THEN 1 ELSE 0)
          /\ trackedRelays["relay"] \in Int /\ trackedRelays["h2"] \in Int
      BY Zenon, <1>1, <1>6, RelayCountedIn
    <2>11. /\ trackedRelays'["relay"] = trackedRelays["relay"]
                               + (IF i \in RelaysCounted' THEN 1 ELSE 0)
                               - (IF i \in RelaysCounted THEN 1 ELSE 0)
          /\ trackedRelays'["h2"] = trackedRelays["h2"]
                               + (IF i \in StreamsServed' THEN 1 ELSE 0)
                               - (IF i \in StreamsServed THEN 1 ELSE 0)
      BY SMTT(60), <2>6, <2>7
    <2> QED  BY Zenon, <2>1, <2>3, <2>4, <2>5, <2>11, RelayCounted
  <1> QED  BY ZenonT(60), <1>2, <1>3, <1>4, <1>5, <1>6

\* The two goroutines: one that reads the target of a TCP stream to its end releases
\* the counter, once.
LEMMA RelayPump ==
    ASSUME RelayInv, NEW i \in RelayIds, NEW d \in Directions, Pump(i, d) \/ SinkTakes(i, d)
    PROVE  RelayInv'
  <1> USE RelayIdFields
  <1>1. RelayTypes /\ OrderOf(i) /\ HoldsOf(i)
    BY Zenon DEF RelayInv, RelayOrder, HeldExactly, HoldsOf
  <1>2. /\ UNCHANGED <<stage, far, leased, billed>>
        /\ copier[i][d] \in {"call", "parked", "held"}
        /\ \E x \in {"call", "parked", "held", "done"} : copier' = [copier EXCEPT ![i][d] = x]
        /\ moved' = moved \/ moved' = [moved EXCEPT ![i][d] = @ + 1]
        /\ ProtoOf[i] = "udp" => UNCHANGED <<trackedRelays, released>>
        /\ \/ UNCHANGED <<trackedRelays, released>>
           \/ ReleaseRelay(i) /\ ProtoOf[i] = "tcp"
    BY Zenon, <1>1
    DEF Pump, CallRead, CopyChunk, ReadFails, RelayWriteFails, SinkTakes, EndDirection, RelayTypes
  <1>3. /\ stage[i] \notin {"idle", "validate", "dial"}
        /\ ProtoOf[i] = "tcp" => stage[i] = "relay"
    <2>1. stage[i] \in Stages /\ PerDirection("off")[d] = "off"
      BY Zenon, <1>1 DEF RelayTypes, PerDirection
    <2> QED  BY Zenon, <1>1, <1>2, <2>1 DEF OrderOf, Stages
  <1>9. /\ moved' \in [RelayIds -> [Directions -> Nat]]
        /\ \A j \in RelayIds, e \in Directions : moved[j][e] <= moved'[j][e]
    <2>1. moved \in [RelayIds -> [Directions -> Nat]] /\ moved[i][d] + 1 \in Nat
      BY <1>1 DEF RelayTypes
    <2>2. CASE moved' = moved
      BY <2>1, <2>2
    <2>3. CASE moved' = [moved EXCEPT ![i][d] = @ + 1]
      <3>1. [moved[i] EXCEPT ![d] = moved[i][d] + 1] \in [Directions -> Nat]
        BY Zenon, <2>1
      <3>2. moved' = [moved EXCEPT ![i] = [moved[i] EXCEPT ![d] = moved[i][d] + 1]]
        BY Zenon, <2>3
      <3> QED  BY <2>1, <3>1, <3>2
    <2> QED  BY ZenonT(60), <1>2, <2>2, <2>3
  <1>4. RelayTypes'
    <2>1. trackedRelays' \in [{"h2", "relay"} -> Int] /\ released' \subseteq RelayIds
      BY <1>1, <1>2 DEF RelayTypes, ReleaseRelay
    <2>2. copier' \in [RelayIds -> [Directions -> {"off", "call", "parked", "held", "done"}]]
      BY <1>1, <1>2 DEF RelayTypes
    <2>3. moved' \in [RelayIds -> [Directions -> Nat]]
      BY Zenon, <1>9
    <2> QED  BY ZenonT(60), <1>1, <1>2, <2>1, <2>2, <2>3 DEF RelayTypes
  <1>5. Apart(i)
    BY Zenon, <1>1, <1>2 DEF Apart, RelayTypes, ReleaseRelay
  <1>6. OrderOf(i)'
    BY Zenon, <1>1, <1>2, <1>3 DEF OrderOf
  <1>10. HoldsOf(i)'
    <2>1. \A e \in Directions : /\ moved[i][e] <= moved'[i][e]
                                /\ moved[i][e] \in Nat /\ moved'[i][e] \in Nat
                                /\ billed[i][e] \in Nat /\ billed[i][e] <= moved[i][e]
      BY <1>1, <1>9 DEF RelayTypes, HoldsOf
    <2>2. \A e \in Directions : billed'[i][e] <= moved'[i][e]
      BY <1>2, <2>1
    <2> QED  BY ZenonT(60), <1>1, <1>2, <2>2 DEF HoldsOf
  <1>7. CASE UNCHANGED <<trackedRelays, released>>
    BY ZenonT(60), <1>2, <1>4, <1>5, <1>6, <1>7, <1>10, RelayQuiet
  <1>8. CASE ReleaseRelay(i) /\ ProtoOf[i] = "tcp"
    <2>1. /\ i \notin RelaysCounted'
          /\ i \in RelaysCounted <=> i \notin released
          /\ i \in StreamsServed <=> i \in StreamsServed'
      BY Zenon, <1>2, <1>3, <1>8 DEF ReleaseRelay, RelaysCounted, StreamsServed, CountsRelay
    <2>2. /\ trackedRelays'["h2"] = trackedRelays["h2"]
          /\ trackedRelays'["relay"] =
               trackedRelays["relay"] - (IF CountsRelay(i) /\ i \notin released THEN 1 ELSE 0)
          /\ trackedRelays["relay"] \in Int /\ trackedRelays["h2"] \in Int
      BY Zenon, <1>1, <1>8, CountedOut
    <2>4. CountsRelay(i)
      BY ZenonT(60), <1>8 DEF CountsRelay
    <2>3. /\ trackedRelays'["relay"] = trackedRelays["relay"]
                               + (IF i \in RelaysCounted' THEN 1 ELSE 0)
                               - (IF i \in RelaysCounted THEN 1 ELSE 0)
          /\ trackedRelays'["h2"] = trackedRelays["h2"]
                               + (IF i \in StreamsServed' THEN 1 ELSE 0)
                               - (IF i \in StreamsServed THEN 1 ELSE 0)
      BY SMTT(60), <2>1, <2>2, <2>4
    <2> QED  BY ZenonT(60), <1>4, <1>5, <1>6, <1>10, <2>3, RelayCounted
  <1> QED  BY Zenon, <1>2, <1>7, <1>8

\* The watchdog, the bill, and the steps of the far ends.
LEMMA RelayWatched ==
    ASSUME RelayInv, NEW i \in RelayIds,
           \/ WatchdogFires(i) \/ CancelCloses(i) \/ CloseGoesOn(i) \/ Account(i) \/ DrainBody(i)
           \/ \E e \in FarEnds : FarSends(i, e) \/ FarStops(i, e)
    PROVE  RelayInv'
  <1> USE RelayIdFields
  <1>1. RelayTypes /\ OrderOf(i) /\ HoldsOf(i)
    BY Zenon DEF RelayInv, RelayOrder, HeldExactly, HoldsOf
  <1>2. CASE WatchdogFires(i) \/ CancelCloses(i) \/ CloseGoesOn(i)
    <2>0. /\ "target" \in FarEnds
          /\ \/ far' = [far EXCEPT ![i]["target"] = "closed"]
             \/ far' = far /\ ProtoOf[i] = "tcp"
      BY Zenon, <1>2 DEF WatchdogFires, CancelCloses, CloseGoesOn, CloseEnds, FarEnds
    <2>8. /\ far' \in [RelayIds -> [FarEnds -> {"open", "ended", "gone", "closed"}]]
          /\ ProtoOf[i] = "udp" => far'[i]["target"] = "closed"
      <3>1. CASE far' = [far EXCEPT ![i]["target"] = "closed"]
        BY Zenon, <1>1, <2>0, <3>1, FarSet
      <3>2. CASE far' = far /\ ProtoOf[i] = "tcp"
        BY Zenon, <1>1, <3>2 DEF RelayTypes
      <3> QED  BY Zenon, <2>0, <3>1, <3>2
    <2>9. /\ stage[i] = "relay"
          /\ leased' = (IF ProtoOf[i] = "udp" THEN leased \ {i} ELSE leased)
          /\ UNCHANGED <<stage, copier, trackedRelays, released, moved, billed>>
      BY Zenon, <1>2 DEF WatchdogFires, CancelCloses, CloseGoesOn, CloseEnds, CloseLeased
    <2>1. RelayTypes'
      BY Zenon, <1>1, <2>8, <2>9 DEF RelayTypes
    <2>2. /\ stage[i] = "relay" /\ stage'[i] = "relay"
          /\ i \in leased' <=> i \in leased /\ ProtoOf[i] # "udp"
          /\ copier'[i] = copier[i] /\ moved'[i] = moved[i] /\ billed'[i] = billed[i]
          /\ UNCHANGED trackedRelays /\ (i \in released' <=> i \in released)
      BY Zenon, <2>9
    <2>3. Apart(i)
      BY Zenon, <1>1, <2>0, <2>9 DEF RelayTypes, Apart
    <2>4. OrderOf(i)'
      BY Zenon, <1>1, <2>2 DEF OrderOf, PerDirection
    <2>5. HoldsOf(i)'
      BY Zenon, <1>1, <2>2, <2>8 DEF OrderOf, HoldsOf
    <2> QED  BY Zenon, <2>1, <2>2, <2>3, <2>4, <2>5, RelayQuiet
  <1>3. CASE Account(i)
    <2>1. RelayTypes'
      BY Zenon, <1>1, <1>3 DEF Account, RelayTypes, Stages
    <2>2. /\ stage[i] = "relay" /\ stage'[i] = "release" /\ billed'[i] = moved[i]
          /\ i \in leased' <=> i \in leased
          /\ far'[i]["target"] = far[i]["target"]
          /\ copier'[i] = copier[i] /\ moved'[i] = moved[i]
          /\ UNCHANGED trackedRelays /\ (i \in released' <=> i \in released)
      BY Zenon, <1>1, <1>3 DEF Account, RelayTypes, FarEnds
    <2>3. Apart(i)
      BY Zenon, <1>1, <1>3 DEF Account, RelayTypes, Apart
    <2>4. OrderOf(i)'
      <3>1. ProtoOf[i] = "tcp" => \A d \in Directions : copier[i][d] = "done"
        BY Zenon, <1>3 DEF Account, RelayOver
      <3> QED  BY Zenon, <2>2, <3>1 DEF OrderOf
    <2>5. HoldsOf(i)'
      <3>0. moved[i] \in [Directions -> Nat]
        BY Zenon, <1>1 DEF RelayTypes
      <3>1. \A d \in Directions : moved[i][d] <= moved[i][d]
        BY Zenon, <3>0, AtMostItself
      <3>2. \A d \in Directions : billed'[i][d] <= moved'[i][d]
        BY Zenon, <2>2, <3>1
      <3> QED  BY Zenon, <1>1, <2>2, <3>2 DEF HoldsOf
    <2> QED  BY Zenon, <2>1, <2>2, <2>3, <2>4, <2>5, RelayQuiet
  <1>4. CASE DrainBody(i)
    <2>1. RelayTypes'
      BY Zenon, <1>1, <1>4 DEF DrainBody, RelayTypes, Stages
    <2>2. /\ stage[i] = "drain" /\ stage'[i] = "return"
          /\ i \in leased' <=> i \in leased
          /\ far'[i]["target"] = far[i]["target"]
          /\ copier'[i] = copier[i] /\ moved'[i] = moved[i] /\ billed'[i] = billed[i]
          /\ UNCHANGED trackedRelays /\ (i \in released' <=> i \in released)
      BY Zenon, <1>1, <1>4 DEF DrainBody, RelayTypes, FarEnds
    <2>3. Apart(i)
      BY Zenon, <1>1, <1>4 DEF DrainBody, RelayTypes, Apart
    <2>4. OrderOf(i)'
      BY Zenon, <1>1, <2>2 DEF OrderOf, PerDirection
    <2>5. HoldsOf(i)'
      BY Zenon, <1>1, <2>2 DEF OrderOf, HoldsOf
    <2> QED  BY ZenonT(60), <2>1, <2>2, <2>3, <2>4, <2>5, RelayQuiet
  <1>5. ASSUME NEW e \in FarEnds, FarSends(i, e)
        PROVE  RelayInv'
    <2>1. UNCHANGED <<stage, far, copier, leased, trackedRelays, released, moved, billed>>
      BY Zenon, <1>5 DEF FarSends
    <2>2. RelayTypes'
      BY Zenon, <1>1, <2>1 DEF RelayTypes
    <2>3. Apart(i)
      BY Zenon, <2>1 DEF Apart
    <2>4. OrderOf(i)'
      BY Zenon, <1>1, <2>1 DEF OrderOf
    <2>5. HoldsOf(i)'
      BY Zenon, <1>1, <2>1 DEF HoldsOf
    <2> QED  BY ZenonT(60), <2>1, <2>2, <2>3, <2>4, <2>5, RelayQuiet
  <1>6. ASSUME NEW e \in FarEnds, FarStops(i, e)
        PROVE  RelayInv'
    <2>1. /\ UNCHANGED <<stage, copier, leased, trackedRelays, released, moved, billed>>
          /\ \E x \in {"ended", "gone"} : far' = [far EXCEPT ![i][e] = x]
          /\ far[i][e] # "closed"
          /\ e = "target" => stage[i] = "relay"
      BY Zenon, <1>1, <1>6 DEF FarStops, Reachable, FarEnds, RelayTypes
    <2>7. PICK x \in {"ended", "gone"} : far' = [far EXCEPT ![i][e] = x]
      BY Zenon, <2>1
    <2>8. /\ far' \in [RelayIds -> [FarEnds -> {"open", "ended", "gone", "closed"}]]
          /\ far'[i][e] = x
          /\ \A d \in FarEnds : d # e => far'[i][d] = far[i][d]
      BY Zenon, <1>1, <1>6, <2>7, FarSet
    <2>2. RelayTypes'
      BY Zenon, <1>1, <2>1, <2>8 DEF RelayTypes
    <2>3. Apart(i)
      BY Zenon, <1>1, <2>1 DEF RelayTypes, Apart
    <2>4. /\ far'[i]["target"] = "closed" <=> far[i]["target"] = "closed"
          /\ stage[i] # "relay" => far'[i]["target"] = far[i]["target"]
      BY Zenon, <2>1, <2>7, <2>8 DEF FarEnds
    <2>5. OrderOf(i)'
      BY Zenon, <1>1, <2>1, <2>4 DEF OrderOf
    <2>6. HoldsOf(i)'
      BY Zenon, <1>1, <2>1, <2>4 DEF HoldsOf
    <2> QED  BY ZenonT(60), <2>1, <2>2, <2>3, <2>5, <2>6, RelayQuiet
  <1> QED  BY ZenonT(60), <1>2, <1>3, <1>4, <1>5, <1>6

\* The end of a handler gives back what it holds.
LEMMA RelayLeaves ==
    ASSUME RelayInv, NEW i \in RelayIds,
           GiveBack(i) \/ HandlerReturns(i)
    PROVE  RelayInv'
  <1> USE RelayIdFields
  <1>1. RelayTypes /\ OrderOf(i) /\ HoldsOf(i)
    BY Zenon DEF RelayInv, RelayOrder, HeldExactly, HoldsOf
  <1>2. CASE GiveBack(i)
    <2>8. far' \in [RelayIds -> [FarEnds -> {"open", "ended", "gone", "closed"}]]
      <3>1. "target" \in FarEnds /\ far' = [far EXCEPT ![i]["target"] = "closed"]
        BY Zenon, <1>2 DEF GiveBack, FarEnds
      <3> QED  BY Zenon, <1>1, <3>1, FarSet
    <2>9. trackedRelays' \in [{"h2", "relay"} -> Int]
      BY Zenon, <1>1, <1>2, CountedOut DEF GiveBack
    <2>10. stage' \in [RelayIds -> Stages]
      BY Zenon, <1>1, <1>2 DEF GiveBack, Leaves, RelayTypes, Stages
    <2>1. RelayTypes'
      BY Zenon, <1>1, <1>2, <2>8, <2>9, <2>10 DEF GiveBack, ReleaseRelay, RelayTypes
    <2>2. /\ stage[i] = "release" /\ stage'[i] \in {"drain", "return"} /\ i \notin leased'
          /\ copier'[i] = copier[i] /\ moved'[i] = moved[i] /\ billed'[i] = billed[i]
      BY Zenon, <1>1, <1>2 DEF GiveBack, ReleaseRelay, Leaves, RelayTypes, FarEnds
    <2>3. Apart(i)
      BY Zenon, <1>1, <1>2 DEF GiveBack, ReleaseRelay, Leaves, RelayTypes, Apart
    <2>4. OrderOf(i)'
      BY Zenon, <1>1, <2>2 DEF OrderOf, PerDirection
    <2>5. HoldsOf(i)'
      BY Zenon, <1>1, <2>2 DEF OrderOf, HoldsOf
    <2>6. /\ i \notin RelaysCounted'
          /\ i \in RelaysCounted <=> CountsRelay(i) /\ i \notin released
          /\ i \in StreamsServed <=> i \in StreamsServed'
      BY Zenon, <1>1, <2>2 DEF OrderOf, RelaysCounted, StreamsServed, CountsRelay
    <2>7. /\ trackedRelays'["h2"] = trackedRelays["h2"]
          /\ trackedRelays'["relay"] =
               trackedRelays["relay"] - (IF CountsRelay(i) /\ i \notin released THEN 1 ELSE 0)
          /\ trackedRelays["relay"] \in Int /\ trackedRelays["h2"] \in Int
      BY ZenonT(60), <1>1, <1>2, CountedOut DEF GiveBack
    <2>11. /\ trackedRelays'["relay"] = trackedRelays["relay"]
                               + (IF i \in RelaysCounted' THEN 1 ELSE 0)
                               - (IF i \in RelaysCounted THEN 1 ELSE 0)
          /\ trackedRelays'["h2"] = trackedRelays["h2"]
                               + (IF i \in StreamsServed' THEN 1 ELSE 0)
                               - (IF i \in StreamsServed THEN 1 ELSE 0)
      BY SMTT(60), <2>6, <2>7
    <2> QED  BY ZenonT(60), <2>1, <2>3, <2>4, <2>5, <2>11, RelayCounted
  <1>3. CASE HandlerReturns(i)
    <2>1. RelayTypes'
      BY <1>1, <1>3 DEF HandlerReturns, RelayTypes, Stages, FarEnds
    <2>2. /\ stage[i] = "return" /\ stage'[i] = "over" /\ (i \in leased' <=> i \in leased)
          /\ copier'[i] = copier[i] /\ moved'[i] = moved[i] /\ billed'[i] = billed[i]
      BY Zenon, <1>1, <1>3 DEF HandlerReturns, RelayTypes, FarEnds
    <2>3. Apart(i)
      BY Zenon, <1>1, <1>3 DEF HandlerReturns, RelayTypes, Apart
    <2>4. OrderOf(i)'
      BY Zenon, <1>1, <2>2 DEF OrderOf, PerDirection
    <2>5. HoldsOf(i)'
      BY Zenon, <1>1, <2>2 DEF OrderOf, HoldsOf
    <2>6. /\ i \notin RelaysCounted /\ i \notin RelaysCounted'
          /\ i \notin StreamsServed'
          /\ i \in StreamsServed <=> FrontOf[i] = "h2"
      BY Zenon, <1>1, <2>2 DEF OrderOf, RelaysCounted, StreamsServed, CountsRelay
    <2>7. /\ trackedRelays'["relay"] = trackedRelays["relay"]
          /\ trackedRelays'["h2"] = trackedRelays["h2"] - (IF FrontOf[i] = "h2" THEN 1 ELSE 0)
          /\ trackedRelays["relay"] \in Int /\ trackedRelays["h2"] \in Int
      BY SMTT(60), <1>1, <1>3 DEF HandlerReturns, RelayTypes
    <2>11. /\ trackedRelays'["relay"] = trackedRelays["relay"]
                               + (IF i \in RelaysCounted' THEN 1 ELSE 0)
                               - (IF i \in RelaysCounted THEN 1 ELSE 0)
          /\ trackedRelays'["h2"] = trackedRelays["h2"]
                               + (IF i \in StreamsServed' THEN 1 ELSE 0)
                               - (IF i \in StreamsServed THEN 1 ELSE 0)
      BY SMTT(60), <2>6, <2>7
    <2> QED  BY Zenon, <2>1, <2>3, <2>4, <2>5, <2>11, RelayCounted
  <1> QED  BY Zenon, <1>2, <1>3

LEMMA RelayStepInv == RelayInv /\ [RelayNext]_relayVars => RelayInv'
  <1> SUFFICES ASSUME RelayInv, [RelayNext]_relayVars PROVE RelayInv'
    BY Zenon
  <1>1. CASE UNCHANGED relayVars
    <2>1. UNCHANGED <<stage, far, copier, leased, trackedRelays, released, moved, billed>>
      BY Zenon, <1>1 DEF relayVars
    <2>2. RelayTypes'
      BY Zenon, <2>1 DEF RelayInv, RelayTypes
    <2>3. RelayOrder'
      BY Zenon, <2>1 DEF RelayInv, RelayOrder, OrderOf
    <2>4. RelaysCounted' = RelaysCounted /\ StreamsServed' = StreamsServed
      BY Zenon, <2>1 DEF RelaysCounted, StreamsServed, CountsRelay
    <2>5. HeldExactly'
      BY Zenon, <2>1, <2>4 DEF RelayInv, HeldExactly
    <2> QED  BY Zenon, <2>2, <2>3, <2>5 DEF RelayInv
  <1>2. CASE RelayNext
    <2>1. PICK i \in RelayIds : \/ AcceptStream(i) \/ RelayStep(i)
                                \/ \E e \in FarEnds : FarSends(i, e) \/ FarStops(i, e)
                                \/ \E d \in Directions : SinkTakes(i, d)
      BY Zenon, <1>2 DEF RelayNext
    <2> QED
      BY Zenon, <2>1, RelaySetup, RelayPump, RelayWatched, RelayLeaves
      DEF RelayStep, TcpCopiers, UdpPumps, FragUdpPumps
  <1> QED  BY Zenon, <1>1, <1>2

\* For any number of streams of every front and protocol, with far ends that send, end
\* or vanish at any time: a lease is held exactly while its upstream may be used, the
\* two counters are the numbers of relays and of requests in progress (never released
\* twice, never forgotten), and no bill exceeds what was moved.
THEOREM RelayIsExact == RelaySpec => []HeldExactly
  <1>1. RelayInv => HeldExactly
    BY Zenon DEF RelayInv
  <1> QED  BY <1>1, RelayInitInv, RelayStepInv, PTL DEF RelaySpec
=============================================================================
