--------------------------- MODULE ConnPoolProofs ---------------------------
(***************************************************************************)
(* Proofs about ConnPool for any number of transports, dialers, refresh    *)
(* loops and topUp goroutines, any stream cap, overlap and pushed bounds.  *)
(***************************************************************************)
EXTENDS ConnPool, Counting, FiniteSetTheorems, TLAPS


\* A goroutine that is past the lookup refers to a transport; the one inside
\* reserveStreamSlot, and only that one, owns p.mu.
HoldInv ==
    \A p \in Procs :
        /\ pc[p] \in {"increment", "lastcheck"} \cup SlotPlaces \cup FreshPlaces
              => hold[p] \in Transports
        /\ pc[p] = "increment" <=> mu = p

\* The steps of one goroutine.
ProcStep(p) ==
    \/ GetStart(p) \/ GetClosed(p)
    \/ ReserveCheck(p) \/ ReserveClaim(p) \/ ReserveRetry(p)
    \/ GetCancelled(p) \/ GetBackpressure(p) \/ GetInlineCleanup(p)
    \/ GetCreate(p) \/ CreateOk(p) \/ CreateFailed(p)
    \/ FreshReserve(p) \/ FreshRejected(p)
    \/ AppendRefused(p) \/ AppendOk(p)
    \/ OpenRefused(p) \/ OpenStart(p)
    \/ TripOk(p) \/ TripFailed(p) \/ TripDead(p)
    \/ StreamClose(p) \/ LastStreamGone(p) \/ FetchDone(p)
    \/ TopUpDone(p) \/ TopUpCreate(p)
    \/ TopUpRefused(p) \/ TopUpAppend(p)

\* Next splits into the steps of goroutines, of transports and of the pool.
LEMMA NextCases ==
    ASSUME Next
    PROVE  \/ \E p \in Procs : ProcStep(p)
           \/ \E t \in Transports : TransportStep(t)
           \/ ReaperTick \/ Cleanup \/ ApplyBounds \/ PoolClose
  BY Zenon DEF Next, GetStep, TunnelStep, TopUpStep, ProcStep, Procs

\* The normalised bounds of newConnPool and resize are at least 1.
LEMMA NormPositive ==
    ASSUME NEW m \in Int, NEW n \in Int
    PROVE  NormMin(m) \in Nat \ {0} /\ NormMax(m, n) \in Nat \ {0}
  BY DEF NormMin, NormMax, AtLeast

\* The bookkeeping invariant the others rest on.
BaseInv == TypeOK /\ HoldInv

\* Every step of the pool keeps the types and the goroutines' bookkeeping.
LEMMA BaseStep ==
    ASSUME BaseInv, [Next]_vars
    PROVE  BaseInv'
  <1> USE ConnPoolAssumption
      DEF BaseInv, TypeOK, HoldInv, Places, SlotPlaces, FreshPlaces, Goto, Take,
          AddStream, Abandon, Close, poolVars, flagVars, NothingToReserve
  <1>1. ASSUME NEW p \in Procs PROVE ProcStep(p) => BaseInv'
    <2>1. CASE GetStart(p)
      BY Zenon, <2>1 DEF GetStart
    <2>2. CASE GetClosed(p)
      BY Zenon, <2>2 DEF GetClosed
    <2>3. CASE ReserveCheck(p)
      BY <2>3 DEF ReserveCheck, Reservable
    <2>4. CASE ReserveClaim(p)
      BY <2>4 DEF ReserveClaim
    <2>5. CASE ReserveRetry(p)
      BY <2>5 DEF ReserveRetry
    <2>6. CASE GetCancelled(p)
      BY Zenon, <2>6 DEF GetCancelled
    <2>7. CASE GetBackpressure(p)
      BY Zenon, <2>7 DEF GetBackpressure
    <2>8. CASE GetInlineCleanup(p)
      BY Zenon, <2>8 DEF GetInlineCleanup, Spent
    <2>9. CASE GetCreate(p)
      BY <2>9 DEF GetCreate
    <2>10. CASE CreateOk(p)
      BY <2>10 DEF CreateOk, NewTransport
    <2>11. CASE CreateFailed(p)
      BY <2>11 DEF CreateFailed
    <2>12. CASE FreshReserve(p)
      BY <2>12 DEF FreshReserve
    <2>13. CASE FreshRejected(p)
      BY <2>13 DEF FreshRejected
    <2>14. CASE AppendRefused(p)
      BY <2>14 DEF AppendRefused
    <2>15. CASE AppendOk(p)
      BY Zenon, <2>15 DEF AppendOk
    <2>16. CASE OpenRefused(p)
      BY <2>16 DEF OpenRefused
    <2>17. CASE OpenStart(p)
      BY Zenon, <2>17 DEF OpenStart
    <2>18. CASE TripOk(p)
      BY Zenon, <2>18 DEF TripOk
    <2>19. CASE TripFailed(p)
      BY <2>19 DEF TripFailed
    <2>20. CASE TripDead(p)
      BY <2>20 DEF TripDead
    <2>21. CASE StreamClose(p)
      BY <2>21 DEF StreamClose
    <2>22. CASE LastStreamGone(p)
      BY <2>22 DEF LastStreamGone
    <2>23. CASE FetchDone(p)
      BY <2>23 DEF FetchDone
    <2>24. CASE TopUpDone(p)
      BY Zenon, <2>24 DEF TopUpDone
    <2>25. CASE TopUpCreate(p)
      BY <2>25 DEF TopUpCreate
    <2>26. CASE TopUpRefused(p)
      BY Zenon, <2>26 DEF TopUpRefused
    <2>27. CASE TopUpAppend(p)
      BY Zenon, <2>27 DEF TopUpAppend
    <2> QED  BY ZenonT(60), <2>1, <2>2, <2>3, <2>4, <2>5, <2>6, <2>7, <2>8, <2>9, <2>10, <2>11, <2>12, <2>13, <2>14, <2>15, <2>16, <2>17, <2>18, <2>19, <2>20, <2>21, <2>22, <2>23, <2>24, <2>25, <2>26, <2>27 DEF ProcStep
  <1>2. ASSUME NEW t \in Transports PROVE TransportStep(t) => BaseInv'
    <2>1. CASE MarkDraining(t)
      BY Zenon, <2>1 DEF MarkDraining
    <2>2. CASE GracefulDrainClose(t)
      BY Zenon, <2>2 DEF GracefulDrainClose
    <2>3. CASE ErrorTeardown(t)
      BY Zenon, <2>3 DEF ErrorTeardown
    <2> QED  BY Zenon, <2>1, <2>2, <2>3 DEF TransportStep
  <1>3. CASE ReaperTick
    BY Zenon, <1>3 DEF ReaperTick, Procs, TopUps
  <1>4. CASE Cleanup
    BY Zenon, <1>4 DEF Cleanup, Spent
  <1>5. CASE ApplyBounds
    <2>1. PICK b \in PushedBounds : Resize(NormMin(b[1]), NormMax(b[1], b[2]))
      BY Zenon, <1>5 DEF ApplyBounds
    <2> DEFINE newMin == NormMin(b[1])
               newMax == NormMax(b[1], b[2])
    <2>2. newMin \in Nat \ {0} /\ newMax \in Nat \ {0}
      BY Zenon, NormPositive
    <2>3. Resize(newMin, newMax)
      BY Zenon, <2>1
    <2> HIDE DEF newMin, newMax
    <2>4. /\ transports' \subseteq Transports /\ draining' \subseteq Transports
          /\ shut' \subseteq Transports /\ conns' \subseteq Transports
      BY <2>3 DEF Resize, EnforceMax, Usable
    <2>5. /\ pc' \in [Procs -> Places]
          /\ \A p \in Procs : pc'[p] = pc[p] \/ (pc[p] = "idle" /\ pc'[p] = "top")
      BY <2>3 DEF Resize, Procs, TopUps
    <2> QED
      BY Zenon, <2>2, <2>3, <2>4, <2>5 DEF Resize
  <1>6. CASE PoolClose
    BY Zenon, <1>6 DEF PoolClose
  <1>7. CASE UNCHANGED vars
    BY Zenon, <1>7 DEF vars
  <1> QED  BY Zenon, <1>1, <1>2, <1>3, <1>4, <1>5, <1>6, <1>7, NextCases

\* Ownership of connections.
OwnInv == ClosedPoolEmpty /\ NoOrphan

\* No step orphans a connection or puts a transport into a closed pool.
LEMMA OwnStep ==
    ASSUME BaseInv, OwnInv, [Next]_vars
    PROVE  OwnInv'
  <1> USE ConnPoolAssumption
      DEF BaseInv, TypeOK, HoldInv, OwnInv, ClosedPoolEmpty, NoOrphan, Places,
          SlotPlaces, FreshPlaces, Goto, Take, AddStream, Abandon, Close,
          poolVars, flagVars, NothingToReserve
  <1>1. ASSUME NEW p \in Procs PROVE ProcStep(p) => OwnInv'
    <2>1. CASE GetStart(p)
      BY Zenon, <2>1 DEF GetStart
    <2>2. CASE GetClosed(p)
      BY Zenon, <2>2 DEF GetClosed
    <2>3. CASE ReserveCheck(p)
      BY <2>3 DEF ReserveCheck, Reservable
    <2>4. CASE ReserveClaim(p)
      BY Zenon, <2>4 DEF ReserveClaim
    <2>5. CASE ReserveRetry(p)
      BY Zenon, <2>5 DEF ReserveRetry
    <2>6. CASE GetCancelled(p)
      BY Zenon, <2>6 DEF GetCancelled
    <2>7. CASE GetBackpressure(p)
      BY Zenon, <2>7 DEF GetBackpressure
    <2>8. CASE GetInlineCleanup(p)
      BY Zenon, <2>8 DEF GetInlineCleanup, Spent
    <2>9. CASE GetCreate(p)
      BY Zenon, <2>9 DEF GetCreate
    <2>10. CASE CreateOk(p)
      BY <2>10 DEF CreateOk, NewTransport, Unreferenced
    <2>11. CASE CreateFailed(p)
      BY Zenon, <2>11 DEF CreateFailed
    <2>12. CASE FreshReserve(p)
      BY Zenon, <2>12 DEF FreshReserve
    <2>13. CASE FreshRejected(p)
      BY ZenonT(60), <2>13 DEF FreshRejected
    <2>14. CASE AppendRefused(p)
      BY Zenon, <2>14 DEF AppendRefused
    <2>15. CASE AppendOk(p)
      BY Zenon, <2>15 DEF AppendOk
    <2>16. CASE OpenRefused(p)
      BY Zenon, <2>16 DEF OpenRefused
    <2>17. CASE OpenStart(p)
      BY Zenon, <2>17 DEF OpenStart
    <2>18. CASE TripOk(p)
      BY Zenon, <2>18 DEF TripOk
    <2>19. CASE TripFailed(p)
      BY Zenon, <2>19 DEF TripFailed
    <2>20. CASE TripDead(p)
      BY Zenon, <2>20 DEF TripDead
    <2>21. CASE StreamClose(p)
      BY <2>21 DEF StreamClose
    <2>22. CASE LastStreamGone(p)
      BY <2>22 DEF LastStreamGone
    <2>23. CASE FetchDone(p)
      BY Zenon, <2>23 DEF FetchDone
    <2>24. CASE TopUpDone(p)
      BY Zenon, <2>24 DEF TopUpDone
    <2>25. CASE TopUpCreate(p)
      BY Zenon, <2>25 DEF TopUpCreate
    <2>26. CASE TopUpRefused(p)
      BY Zenon, <2>26 DEF TopUpRefused
    <2>27. CASE TopUpAppend(p)
      BY ZenonT(60), <2>27 DEF TopUpAppend
    <2> QED  BY ZenonT(60), <2>1, <2>2, <2>3, <2>4, <2>5, <2>6, <2>7, <2>8, <2>9, <2>10, <2>11, <2>12, <2>13, <2>14, <2>15, <2>16, <2>17, <2>18, <2>19, <2>20, <2>21, <2>22, <2>23, <2>24, <2>25, <2>26, <2>27 DEF ProcStep
  <1>2. ASSUME NEW t \in Transports PROVE TransportStep(t) => OwnInv'
    <2>1. CASE MarkDraining(t)
      BY Zenon, <2>1 DEF MarkDraining
    <2>2. CASE GracefulDrainClose(t)
      BY Zenon, <2>2 DEF GracefulDrainClose
    <2>3. CASE ErrorTeardown(t)
      BY Zenon, <2>3 DEF ErrorTeardown
    <2> QED  BY Zenon, <2>1, <2>2, <2>3 DEF TransportStep
  <1>3. CASE ReaperTick
    BY ZenonT(60), <1>3 DEF ReaperTick, Procs, TopUps
  <1>4. CASE Cleanup
    BY Zenon, <1>4 DEF Cleanup, Spent
  <1>5. CASE ApplyBounds
    BY <1>5 DEF ApplyBounds, Resize, EnforceMax, Usable, Procs, TopUps
  <1>6. CASE PoolClose
    BY Zenon, <1>6 DEF PoolClose
  <1>7. CASE UNCHANGED vars
    BY Zenon, <1>7 DEF vars
  <1> QED  BY Zenon, <1>1, <1>2, <1>3, <1>4, <1>5, <1>6, <1>7, NextCases

-----------------------------------------------------------------------------
(* The cap on usable transports. *)

\* The pool and its usable part are finite.
LEMMA PoolFinite ==
    ASSUME BaseInv
    PROVE  /\ IsFiniteSet(transports) /\ Cardinality(transports) \in Nat
           /\ IsFiniteSet(Usable) /\ Cardinality(Usable) \in Nat
  <1>1. IsFiniteSet(transports) /\ IsFiniteSet(Usable)
    BY Zenon, ConnPoolAssumption, FS_Subset DEF BaseInv, TypeOK, Usable
  <1> QED  BY Zenon, <1>1, FS_CardinalityType

\* A step that makes no transport usable keeps the bound.
LEMMA UsableShrinks ==
    ASSUME BaseInv, UsableBound, Usable' \subseteq Usable, maxT' = maxT
    PROVE  UsableBound'
  <1>1. Cardinality(Usable') <= Cardinality(Usable) /\ Cardinality(Usable') \in Nat
    BY Zenon, PoolFinite, FS_Subset, FS_CardinalityType
  <1>2. maxT \in Nat /\ Overlap \in Nat
    BY Zenon, ConnPoolAssumption DEF BaseInv, TypeOK
  <1> QED  BY <1>1, <1>2, PoolFinite DEF UsableBound

\* Appending below the capacity keeps the bound: the overlap is granted only
\* while some pooled transport drains, and that one is not usable.
LEMMA UsableGrows ==
    ASSUME BaseInv, UsableBound, NEW t, Cardinality(transports) < Capacity,
           transports' = transports \cup {t}, UNCHANGED <<shut, draining, maxT>>
    PROVE  UsableBound'
  <1> DEFINE n == Cardinality(transports)
             u == Cardinality(Usable)
  <1>1. /\ n \in Nat /\ u \in Nat /\ IsFiniteSet(transports) /\ IsFiniteSet(Usable)
        /\ maxT \in Nat /\ Overlap \in Nat
    BY Zenon, PoolFinite, ConnPoolAssumption DEF BaseInv, TypeOK
  <1>2. Usable' \subseteq Usable \cup {t}
    BY Zenon DEF Usable
  <1>3. Cardinality(Usable') \in Nat /\ Cardinality(Usable') <= u + 1
    <2>1. IsFiniteSet(Usable \cup {t}) /\ Cardinality(Usable \cup {t}) <= u + 1
      <3>1. /\ IsFiniteSet(Usable \cup {t})
            /\ Cardinality(Usable \cup {t}) = IF t \in Usable THEN u ELSE u + 1
        BY <1>1, FS_AddElement, Zenon
      <3> QED  BY <3>1, <1>1
    <2>2. Cardinality(Usable \cup {t}) \in Nat
      BY Zenon, <2>1, FS_CardinalityType
    <2>3. IsFiniteSet(Usable') /\ Cardinality(Usable') <= Cardinality(Usable \cup {t})
      BY Zenon, <2>1, <1>2, FS_Subset
    <2>4. Cardinality(Usable') \in Nat
      BY Zenon, <2>3, FS_CardinalityType
    <2> QED  BY <2>1, <2>2, <2>3, <2>4, <1>1
  <1>4. CASE Overlap > 0 /\ transports \cap draining # {}
    <2>1. PICK x \in transports : x \in draining
      BY Zenon, <1>4
    <2>2. Usable \subseteq transports \ {x}
      BY Zenon, <2>1 DEF Usable
    <2>3. IsFiniteSet(transports \ {x}) /\ Cardinality(transports \ {x}) = n - 1
      BY Zenon, <2>1, <1>1, FS_RemoveElement
    <2>4. u <= n - 1
      BY <2>2, <2>3, FS_Subset
    <2>5. n < maxT + Overlap
      BY Zenon, <1>4 DEF Capacity
    <2> QED  BY <2>4, <2>5, <1>1, <1>3, <1>4 DEF UsableBound
  <1>5. CASE ~(Overlap > 0 /\ transports \cap draining # {})
    <2>1. u <= n
      BY Zenon, <1>1, FS_Subset DEF Usable
    <2>2. n < maxT
      BY <1>5, <1>1 DEF Capacity
    <2> QED  BY <2>1, <2>2, <1>1, <1>3 DEF UsableBound
  <1> QED  BY Zenon, <1>4, <1>5

\* No step breaks the cap.
LEMMA UsableStep ==
    ASSUME BaseInv, UsableBound, [Next]_vars
    PROVE  UsableBound'
  <1> USE DEF Usable, Goto, Take, AddStream, Abandon, Close, poolVars, flagVars,
          NothingToReserve
  <1>1. ASSUME NEW p \in Procs PROVE ProcStep(p) => UsableBound'
    <2>1. CASE GetStart(p)
      BY Zenon, <2>1, UsableShrinks DEF GetStart
    <2>2. CASE GetClosed(p)
      BY Zenon, <2>2, UsableShrinks DEF GetClosed
    <2>3. CASE ReserveCheck(p)
      BY Zenon, <2>3, UsableShrinks DEF ReserveCheck
    <2>4. CASE ReserveClaim(p)
      BY Zenon, <2>4, UsableShrinks DEF ReserveClaim
    <2>5. CASE ReserveRetry(p)
      BY Zenon, <2>5, UsableShrinks DEF ReserveRetry
    <2>6. CASE GetCancelled(p)
      BY Zenon, <2>6, UsableShrinks DEF GetCancelled
    <2>7. CASE GetBackpressure(p)
      BY Zenon, <2>7, UsableShrinks DEF GetBackpressure
    <2>8. CASE GetInlineCleanup(p)
      BY Zenon, <2>8, UsableShrinks DEF GetInlineCleanup
    <2>9. CASE GetCreate(p)
      BY Zenon, <2>9, UsableShrinks DEF GetCreate
    <2>10. CASE CreateOk(p)
      BY Zenon, <2>10, UsableShrinks DEF CreateOk, NewTransport, Unreferenced
    <2>11. CASE CreateFailed(p)
      BY Zenon, <2>11, UsableShrinks DEF CreateFailed
    <2>12. CASE FreshReserve(p)
      BY Zenon, <2>12, UsableShrinks DEF FreshReserve
    <2>13. CASE FreshRejected(p)
      BY Zenon, <2>13, UsableShrinks DEF FreshRejected
    <2>14. CASE AppendRefused(p)
      BY Zenon, <2>14, UsableShrinks DEF AppendRefused
    <2>15. CASE AppendOk(p)
      BY Zenon, <2>15, UsableGrows DEF AppendOk
    <2>16. CASE OpenRefused(p)
      BY Zenon, <2>16, UsableShrinks DEF OpenRefused
    <2>17. CASE OpenStart(p)
      BY Zenon, <2>17, UsableShrinks DEF OpenStart
    <2>18. CASE TripOk(p)
      BY Zenon, <2>18, UsableShrinks DEF TripOk
    <2>19. CASE TripFailed(p)
      BY Zenon, <2>19, UsableShrinks DEF TripFailed
    <2>20. CASE TripDead(p)
      BY Zenon, <2>20, UsableShrinks DEF TripDead
    <2>21. CASE StreamClose(p)
      BY Zenon, <2>21, UsableShrinks DEF StreamClose
    <2>22. CASE LastStreamGone(p)
      BY Zenon, <2>22, UsableShrinks DEF LastStreamGone
    <2>23. CASE FetchDone(p)
      BY Zenon, <2>23, UsableShrinks DEF FetchDone
    <2>24. CASE TopUpDone(p)
      BY Zenon, <2>24, UsableShrinks DEF TopUpDone
    <2>25. CASE TopUpCreate(p)
      BY Zenon, <2>25, UsableShrinks DEF TopUpCreate
    <2>26. CASE TopUpRefused(p)
      BY Zenon, <2>26, UsableShrinks DEF TopUpRefused
    <2>27. CASE TopUpAppend(p)
      BY Zenon, <2>27, UsableGrows DEF TopUpAppend
    <2> QED  BY ZenonT(60), <2>1, <2>2, <2>3, <2>4, <2>5, <2>6, <2>7, <2>8, <2>9, <2>10, <2>11, <2>12, <2>13, <2>14, <2>15, <2>16, <2>17, <2>18, <2>19, <2>20, <2>21, <2>22, <2>23, <2>24, <2>25, <2>26, <2>27 DEF ProcStep
  <1>2. ASSUME NEW t \in Transports PROVE TransportStep(t) => UsableBound'
    <2>1. CASE MarkDraining(t)
      BY Zenon, <2>1, UsableShrinks DEF MarkDraining
    <2>2. CASE GracefulDrainClose(t)
      BY Zenon, <2>2, UsableShrinks DEF GracefulDrainClose
    <2>3. CASE ErrorTeardown(t)
      BY Zenon, <2>3, UsableShrinks DEF ErrorTeardown
    <2> QED  BY Zenon, <2>1, <2>2, <2>3 DEF TransportStep
  <1>3. CASE ReaperTick
    BY Zenon, <1>3, UsableShrinks DEF ReaperTick
  <1>4. CASE Cleanup
    BY Zenon, <1>4, UsableShrinks DEF Cleanup
  <1>5. CASE ApplyBounds
    <2>1. PICK b \in PushedBounds : Resize(NormMin(b[1]), NormMax(b[1], b[2]))
      BY Zenon, <1>5 DEF ApplyBounds
    <2> DEFINE newMax == NormMax(b[1], b[2])
    <2>2. newMax \in Nat /\ maxT' = newMax /\ maxT \in Nat /\ Overlap \in Nat
      BY Zenon, <2>1, NormPositive, ConnPoolAssumption DEF Resize, BaseInv, TypeOK
    <2>3. CASE newMax < maxT
      <3>1. PICK keep \in SUBSET Usable :
               Cardinality(keep) <= newMax /\ Usable' \subseteq keep
        BY Zenon, <2>1, <2>3 DEF Resize, EnforceMax
      <3>2. IsFiniteSet(keep) /\ Cardinality(keep) \in Nat
        BY Zenon, PoolFinite, FS_Subset, FS_CardinalityType
      <3>3. Cardinality(Usable') <= Cardinality(keep) /\ Cardinality(Usable') \in Nat
        BY Zenon, <3>1, <3>2, FS_Subset, FS_CardinalityType
      <3> QED  BY <3>1, <3>2, <3>3, <2>2 DEF UsableBound
    <2>4. CASE ~(newMax < maxT)
      <3>1. Usable' = Usable
        BY Zenon, <2>1, <2>4 DEF Resize
      <3>2. Cardinality(Usable) \in Nat
        BY Zenon, PoolFinite
      <3>3. Cardinality(Usable') = Cardinality(Usable)
        BY Zenon, <3>1
      <3> HIDE DEF Usable
      <3> QED  BY <3>2, <3>3, <2>2, <2>4 DEF UsableBound
    <2> QED  BY Zenon, <2>3, <2>4
  <1>6. CASE PoolClose
    BY Zenon, <1>6, UsableShrinks DEF PoolClose
  <1>7. CASE UNCHANGED vars
    BY Zenon, <1>7, UsableShrinks DEF vars
  <1> QED  BY Zenon, <1>1, <1>2, <1>3, <1>4, <1>5, <1>6, <1>7, NextCases

-----------------------------------------------------------------------------
(* Counting goroutines. *)

\* 1 when p owns a slot of t, else 0.
SlotsOf(p, t) == IF hold[p] = t /\ pc[p] \in SlotPlaces THEN 1 ELSE 0

\* CountOne for sets of goroutines.
LEMMA ProcCount ==
    ASSUME NEW S \in SUBSET Procs, NEW T \in SUBSET Procs, NEW p \in Procs,
           \A q \in Procs \ {p} : q \in S <=> q \in T
    PROVE  /\ Cardinality(S) \in Nat /\ Cardinality(T) \in Nat
           /\ (p \in S <=> p \in T) => Cardinality(T) = Cardinality(S)
           /\ p \notin S /\ p \in T => Cardinality(T) = Cardinality(S) + 1
           /\ p \in S /\ p \notin T => Cardinality(T) = Cardinality(S) - 1
  <1>1. IsFiniteSet(Procs)
    BY Zenon, ConnPoolAssumption
  <1> QED  BY <1>1, CountOne

LEMMA SlotArithmetic ==
    ASSUME NEW a \in Int, NEW l \in Int, NEW c \in Int, NEW x \in Int,
           NEW b \in Int, NEW m \in Int, NEW d \in Int, NEW y \in Int,
           a = c + l, b - m - y = a - l - x, d - y = c - x
    PROVE  b = d + m
  OBVIOUS

\* When only p moves, the accounting survives if counter and leak account for
\* exactly the slot p took or gave up.
LEMMA SlotMove ==
    ASSUME BaseInv, BaseInv', SlotAccounting, NEW p \in Procs,
           \A q \in Procs \ {p} : pc'[q] = pc[q] /\ hold'[q] = hold[q],
           \A t \in Transports :
              active'[t] - leaked'[t] - SlotsOf(p, t)' =
              active[t] - leaked[t] - SlotsOf(p, t)
    PROVE  SlotAccounting'
  <1> SUFFICES ASSUME NEW t \in Transports
               PROVE  active'[t] = Cardinality(SlotHolders(t)') + leaked'[t]
    BY Zenon DEF SlotAccounting
  <1> DEFINE S == SlotHolders(t)
             T == SlotHolders(t)'
  <1>1. /\ S \in SUBSET Procs /\ T \in SUBSET Procs
        /\ \A q \in Procs \ {p} : q \in S <=> q \in T
    BY Zenon DEF SlotHolders
  <1>2. /\ SlotsOf(p, t) = IF p \in S THEN 1 ELSE 0
        /\ SlotsOf(p, t)' = IF p \in T THEN 1 ELSE 0
    BY Zenon DEF SlotsOf, SlotHolders
  <1>3. /\ active[t] \in Int /\ active'[t] \in Int
        /\ leaked[t] \in Int /\ leaked'[t] \in Int
        /\ active[t] = Cardinality(S) + leaked[t]
    BY DEF BaseInv, TypeOK, SlotAccounting
  <1>4. active'[t] - leaked'[t] - (IF p \in T THEN 1 ELSE 0) =
        active[t] - leaked[t] - (IF p \in S THEN 1 ELSE 0)
    BY Zenon, <1>2
  <1>5. /\ Cardinality(S) \in Nat /\ Cardinality(T) \in Nat
        /\ (p \in S <=> p \in T) => Cardinality(T) = Cardinality(S)
        /\ p \notin S /\ p \in T => Cardinality(T) = Cardinality(S) + 1
        /\ p \in S /\ p \notin T => Cardinality(T) = Cardinality(S) - 1
    <2> HIDE DEF S, T
    <2> QED  BY Zenon, <1>1, ProcCount
  <1> HIDE DEF S, T
  <1> DEFINE x == IF p \in S THEN 1 ELSE 0
             y == IF p \in T THEN 1 ELSE 0
  <1>6. x \in Int /\ y \in Int /\ Cardinality(T) - y = Cardinality(S) - x
    BY <1>5
  <1>7. active'[t] - leaked'[t] - y = active[t] - leaked[t] - x
    BY Zenon, <1>4
  <1> HIDE DEF x, y
  <1> DEFINE a == active[t]
             b == active'[t]
             l == leaked[t]
             m == leaked'[t]
             c == Cardinality(S)
             d == Cardinality(T)
  <1>8. /\ a \in Int /\ b \in Int /\ l \in Int /\ m \in Int /\ x \in Int /\ y \in Int
        /\ a = c + l /\ b - m - y = a - l - x /\ d - y = c - x
    BY Zenon, <1>3, <1>6, <1>7
  <1>9. c \in Int /\ d \in Int
    BY <1>5
  <1> SUFFICES b = d + m
    BY Zenon DEF T
  <1> HIDE DEF a, b, l, m, c, d
  <1> QED  BY <1>8, <1>9, SlotArithmetic

\* No goroutine but p moves.
Alone(p) == \A q \in Procs \ {p} : pc'[q] = pc[q] /\ hold'[q] = hold[q]

\* What a step of p does to its slot: nothing, with or without one ...
OffSlot(p) ==
    pc[p] \notin SlotPlaces /\ pc'[p] \notin SlotPlaces /\ UNCHANGED <<active, leaked>>
OnSlot(p) ==
    pc[p] \in SlotPlaces /\ pc'[p] \in SlotPlaces /\ UNCHANGED <<active, leaked, hold>>
\* ... it takes one, gives it back, or leaves it counted ...
TakesSlot(p) ==
    /\ pc[p] \in {"increment", "fresh"} /\ pc'[p] \in SlotPlaces
    /\ active' = [active EXCEPT ![hold[p]] = @ + 1] /\ UNCHANGED <<hold, leaked>>
GivesSlot(p) ==
    /\ pc[p] \in SlotPlaces /\ pc'[p] \notin SlotPlaces
    /\ active' = [active EXCEPT ![hold[p]] = @ + (-1)] /\ UNCHANGED leaked
LosesSlot(p) ==
    /\ pc[p] \in SlotPlaces /\ pc'[p] \notin SlotPlaces
    /\ leaked' = [leaked EXCEPT ![hold[p]] = @ + 1] /\ UNCHANGED active
\* ... or it has a new transport, which no goroutine holds.
FreshSlots(p) ==
    /\ pc[p] \notin SlotPlaces /\ pc'[p] \notin SlotPlaces
    /\ \E t \in Transports :
         /\ \A q \in Procs : hold[q] # t
         /\ active' = [active EXCEPT ![t] = 0] /\ leaked' = [leaked EXCEPT ![t] = 0]

SlotEffect(p) ==
    OffSlot(p) \/ OnSlot(p) \/ TakesSlot(p) \/ GivesSlot(p) \/ LosesSlot(p) \/ FreshSlots(p)

\* Every step of a goroutine is one of these.
LEMMA SlotEffects ==
    ASSUME TypeOK, NEW p \in Procs, ProcStep(p)
    PROVE  Alone(p) /\ SlotEffect(p)
  <1>0. /\ pc \in [Procs -> Places] /\ hold \in [Procs -> Transports \cup {None}]
    BY Zenon DEF TypeOK
  <1> USE DEF Alone, SlotPlaces, Goto
  <1>1. CASE GetStart(p)
    <2>1. Alone(p) /\ OffSlot(p)
      BY Zenon, <1>0, <1>1 DEF GetStart, OffSlot
    <2> QED  BY Zenon, <2>1 DEF SlotEffect
  <1>2. CASE GetClosed(p)
    <2>1. Alone(p) /\ OffSlot(p)
      BY Zenon, <1>0, <1>2 DEF GetClosed, OffSlot
    <2> QED  BY Zenon, <2>1 DEF SlotEffect
  <1>3. CASE ReserveCheck(p)
    <2>1. Alone(p) /\ OffSlot(p)
      BY Zenon, <1>0, <1>3 DEF ReserveCheck, OffSlot, Take
    <2> QED  BY Zenon, <2>1 DEF SlotEffect
  <1>4. CASE ReserveClaim(p)
    <2>1. Alone(p) /\ TakesSlot(p)
      BY Zenon, <1>0, <1>4 DEF ReserveClaim, TakesSlot, AddStream
    <2> QED  BY Zenon, <2>1 DEF SlotEffect
  <1>5. CASE ReserveRetry(p)
    <2>1. Alone(p) /\ OffSlot(p)
      BY Zenon, <1>0, <1>5 DEF ReserveRetry, OffSlot, Take
    <2> QED  BY Zenon, <2>1 DEF SlotEffect
  <1>6. CASE GetCancelled(p)
    <2>1. Alone(p) /\ OffSlot(p)
      BY Zenon, <1>0, <1>6 DEF GetCancelled, OffSlot, NothingToReserve
    <2> QED  BY Zenon, <2>1 DEF SlotEffect
  <1>7. CASE GetBackpressure(p)
    <2>1. Alone(p) /\ OffSlot(p)
      BY Zenon, <1>0, <1>7 DEF GetBackpressure, OffSlot, NothingToReserve
    <2> QED  BY Zenon, <2>1 DEF SlotEffect
  <1>8. CASE GetInlineCleanup(p)
    <2>1. Alone(p) /\ OffSlot(p)
      BY Zenon, <1>0, <1>8 DEF GetInlineCleanup, OffSlot, NothingToReserve
    <2> QED  BY Zenon, <2>1 DEF SlotEffect
  <1>9. CASE GetCreate(p)
    <2>1. Alone(p) /\ OffSlot(p)
      BY Zenon, <1>0, <1>9 DEF GetCreate, OffSlot, NothingToReserve
    <2> QED  BY Zenon, <2>1 DEF SlotEffect
  <1>10. CASE CreateOk(p)
    <2>1. Alone(p) /\ FreshSlots(p)
      BY Zenon, <1>0, <1>10 DEF CreateOk, FreshSlots, Take, NewTransport, Unreferenced
    <2> QED  BY Zenon, <2>1 DEF SlotEffect
  <1>11. CASE CreateFailed(p)
    <2>1. Alone(p) /\ OffSlot(p)
      BY Zenon, <1>0, <1>11 DEF CreateFailed, OffSlot
    <2> QED  BY Zenon, <2>1 DEF SlotEffect
  <1>12. CASE FreshReserve(p)
    <2>1. Alone(p) /\ TakesSlot(p)
      BY Zenon, <1>0, <1>12 DEF FreshReserve, TakesSlot, AddStream
    <2> QED  BY Zenon, <2>1 DEF SlotEffect
  <1>13. CASE FreshRejected(p)
    <2>1. Alone(p) /\ OffSlot(p)
      BY Zenon, <1>0, <1>13 DEF FreshRejected, OffSlot, Take
    <2> QED  BY Zenon, <2>1 DEF SlotEffect
  <1>14. CASE AppendRefused(p)
    <2>1. Alone(p) /\ LosesSlot(p)
      BY Zenon, <1>0, <1>14 DEF AppendRefused, LosesSlot, Take, Abandon
    <2> QED  BY Zenon, <2>1 DEF SlotEffect
  <1>15. CASE AppendOk(p)
    <2>1. Alone(p) /\ OnSlot(p)
      BY Zenon, <1>0, <1>15 DEF AppendOk, OnSlot
    <2> QED  BY Zenon, <2>1 DEF SlotEffect
  <1>16. CASE OpenRefused(p)
    <2>1. Alone(p) /\ GivesSlot(p)
      BY Zenon, <1>0, <1>16 DEF OpenRefused, GivesSlot, Take, AddStream
    <2> QED  BY Zenon, <2>1 DEF SlotEffect
  <1>17. CASE OpenStart(p)
    <2>1. Alone(p) /\ OnSlot(p)
      BY Zenon, <1>0, <1>17 DEF OpenStart, OnSlot
    <2> QED  BY Zenon, <2>1 DEF SlotEffect
  <1>18. CASE TripOk(p)
    <2>1. Alone(p) /\ OnSlot(p)
      BY Zenon, <1>0, <1>18 DEF TripOk, OnSlot
    <2> QED  BY Zenon, <2>1 DEF SlotEffect
  <1>19. CASE TripFailed(p)
    <2>1. Alone(p) /\ GivesSlot(p)
      BY Zenon, <1>0, <1>19 DEF TripFailed, GivesSlot, Take, AddStream
    <2> QED  BY Zenon, <2>1 DEF SlotEffect
  <1>20. CASE TripDead(p)
    <2>1. Alone(p) /\ GivesSlot(p)
      BY Zenon, <1>0, <1>20 DEF TripDead, GivesSlot, Take, AddStream
    <2> QED  BY Zenon, <2>1 DEF SlotEffect
  <1>21. CASE StreamClose(p)
    <2>1. Alone(p) /\ GivesSlot(p)
      BY Zenon, <1>0, <1>21 DEF StreamClose, GivesSlot, Take, AddStream
    <2> QED  BY Zenon, <2>1 DEF SlotEffect
  <1>22. CASE LastStreamGone(p)
    <2>1. Alone(p) /\ OffSlot(p)
      BY Zenon, <1>0, <1>22 DEF LastStreamGone, OffSlot, Take
    <2> QED  BY Zenon, <2>1 DEF SlotEffect
  <1>23. CASE FetchDone(p)
    <2>1. Alone(p) /\ LosesSlot(p)
      BY Zenon, <1>0, <1>23 DEF FetchDone, LosesSlot, Take, Abandon
    <2> QED  BY Zenon, <2>1 DEF SlotEffect
  <1>24. CASE TopUpDone(p)
    <2>1. Alone(p) /\ OffSlot(p)
      BY Zenon, <1>0, <1>24 DEF TopUpDone, OffSlot
    <2> QED  BY Zenon, <2>1 DEF SlotEffect
  <1>25. CASE TopUpCreate(p)
    <2>1. Alone(p) /\ OffSlot(p)
      BY Zenon, <1>0, <1>25 DEF TopUpCreate, OffSlot
    <2> QED  BY Zenon, <2>1 DEF SlotEffect
  <1>26. CASE TopUpRefused(p)
    <2>1. Alone(p) /\ OffSlot(p)
      BY Zenon, <1>0, <1>26 DEF TopUpRefused, OffSlot, Take
    <2> QED  BY Zenon, <2>1 DEF SlotEffect
  <1>27. CASE TopUpAppend(p)
    <2>1. Alone(p) /\ OffSlot(p)
      BY Zenon, <1>0, <1>27 DEF TopUpAppend, OffSlot, Take
    <2> QED  BY Zenon, <2>1 DEF SlotEffect
  <1> HIDE DEF Alone, SlotPlaces, Goto
  <1> QED  BY ZenonT(60), <1>1, <1>2, <1>3, <1>4, <1>5, <1>6, <1>7, <1>8, <1>9, <1>10, <1>11, <1>12, <1>13, <1>14, <1>15, <1>16, <1>17, <1>18, <1>19, <1>20, <1>21, <1>22, <1>23, <1>24, <1>25, <1>26, <1>27 DEF ProcStep

\* The goroutines at a place with a slot, or about to claim one, have a transport.
LEMMA Holds ==
    ASSUME BaseInv, NEW p \in Procs, pc[p] \in SlotPlaces \cup {"increment", "fresh"}
    PROVE  hold[p] \in Transports
  BY Zenon DEF BaseInv, TypeOK, HoldInv, SlotPlaces, FreshPlaces

\* Each of them keeps the slot accounting.
LEMMA SlotKept ==
    ASSUME BaseInv, BaseInv', SlotAccounting, NEW p \in Procs, Alone(p), SlotEffect(p)
    PROVE  SlotAccounting'
  <1> DEFINE Moves ==
        \A t \in Transports :
           active'[t] - leaked'[t] - SlotsOf(p, t)' = active[t] - leaked[t] - SlotsOf(p, t)
  <1>0. /\ active \in [Transports -> Int] /\ leaked \in [Transports -> Nat]
        /\ "increment" \notin SlotPlaces /\ "fresh" \notin SlotPlaces
    BY Zenon DEF BaseInv, TypeOK, SlotPlaces
  <1>1. ASSUME OffSlot(p) PROVE Moves
    BY Zenon, <1>0, <1>1 DEF OffSlot, SlotsOf
  <1>2. ASSUME OnSlot(p) PROVE Moves
    BY Zenon, <1>0, <1>2 DEF OnSlot, SlotsOf
  <1>3. ASSUME TakesSlot(p) PROVE Moves
    <2>1. hold[p] \in Transports
      BY Zenon, <1>3, Holds DEF TakesSlot
    <2> QED  BY <1>0, <1>3, <2>1 DEF TakesSlot, SlotsOf
  <1>4. ASSUME GivesSlot(p) PROVE Moves
    <2>1. hold[p] \in Transports
      BY Zenon, <1>4, Holds DEF GivesSlot
    <2> QED  BY <1>0, <1>4, <2>1 DEF GivesSlot, SlotsOf
  <1>5. ASSUME LosesSlot(p) PROVE Moves
    <2>1. hold[p] \in Transports
      BY Zenon, <1>5, Holds DEF LosesSlot
    <2> QED  BY <1>0, <1>5, <2>1 DEF LosesSlot, SlotsOf
  <1>6. ASSUME FreshSlots(p) PROVE Moves
    <2>1. PICK t \in Transports :
             /\ \A q \in Procs : hold[q] # t
             /\ active' = [active EXCEPT ![t] = 0] /\ leaked' = [leaked EXCEPT ![t] = 0]
      BY Zenon, <1>6 DEF FreshSlots
    <2>2. SlotHolders(t) = {}
      BY Zenon, <2>1 DEF SlotHolders
    <2>3. Cardinality(SlotHolders(t)) = 0
      BY Zenon, <2>2, FS_EmptySet
    <2>4. active[t] = Cardinality(SlotHolders(t)) + leaked[t]
      BY Zenon DEF SlotAccounting
    <2>5. active[t] = leaked[t]
      BY <1>0, <2>3, <2>4
    <2>6. \A u \in Transports : SlotsOf(p, u) = 0 /\ SlotsOf(p, u)' = 0
      BY Zenon, <1>6 DEF FreshSlots, SlotsOf
    <2> QED  BY <1>0, <2>1, <2>5, <2>6
  <1>7. Moves
    BY Zenon, <1>1, <1>2, <1>3, <1>4, <1>5, <1>6 DEF SlotEffect
  <1> QED  BY Zenon, <1>7, SlotMove DEF Alone

\* So does a step that touches no counter and moves no goroutine.
LEMMA SlotStay ==
    ASSUME SlotAccounting, UNCHANGED <<pc, hold, active, leaked>>
    PROVE  SlotAccounting'
  BY Zenon DEF SlotAccounting, SlotHolders

\* Every step keeps the slot accounting.
LEMMA SlotStep ==
    ASSUME BaseInv, SlotAccounting, [Next]_vars
    PROVE  SlotAccounting'
  <1>0. BaseInv' /\ TypeOK
    BY Zenon, BaseStep DEF BaseInv
  <1>1. ASSUME NEW p \in Procs, ProcStep(p) PROVE SlotAccounting'
    BY Zenon, <1>0, <1>1, SlotEffects, SlotKept
  <1>2. ASSUME NEW p \in Procs, pc[p] = "idle", Goto(p, "top"),
               UNCHANGED <<hold, active, leaked>>
        PROVE  SlotAccounting'
    <2>1. pc \in [Procs -> Places] /\ pc' = [pc EXCEPT ![p] = "top"]
      BY Zenon, <1>0, <1>2 DEF TypeOK, Goto
    <2>2. Alone(p) /\ OffSlot(p)
      BY Zenon, <1>2, <2>1 DEF Alone, OffSlot, SlotPlaces
    <2> QED  BY Zenon, <1>0, <2>2, SlotKept DEF SlotEffect
  <1>3. ASSUME NEW t \in Transports, TransportStep(t) PROVE SlotAccounting'
    BY Zenon, <1>3, SlotStay DEF TransportStep, MarkDraining, GracefulDrainClose, ErrorTeardown
  <1>4. CASE ReaperTick
    BY Zenon, <1>2, <1>4, ConnPoolAssumption DEF ReaperTick, Procs, TopUps
  <1>5. CASE Cleanup
    BY Zenon, <1>5, SlotStay DEF Cleanup
  <1>6. CASE ApplyBounds
    <2>1. /\ UNCHANGED <<hold, active, leaked>>
          /\ UNCHANGED pc \/ \E h \in Helpers : pc[h] = "idle" /\ Goto(h, "top")
      BY Zenon, <1>6 DEF ApplyBounds, Resize
    <2> QED  BY Zenon, <1>2, <2>1, SlotStay DEF Procs, TopUps
  <1>7. CASE PoolClose
    BY Zenon, <1>7, SlotStay DEF PoolClose
  <1>8. CASE UNCHANGED vars
    BY Zenon, <1>8, SlotStay DEF vars
  <1> QED  BY Zenon, <1>1, <1>3, <1>4, <1>5, <1>6, <1>7, <1>8, NextCases

\* The goroutines inside createFunc.
Creators == {p \in Procs : pc[p] \in {"creating", "topcreating"}}

\* When only p moves, p.creating stays right if it follows p.
LEMMA CreatorMove ==
    ASSUME BaseInv, BaseInv', CreatingCount, NEW p \in Procs,
           \A q \in Procs \ {p} : pc'[q] = pc[q],
           creating' - (IF pc'[p] \in {"creating", "topcreating"} THEN 1 ELSE 0) =
           creating - (IF pc[p] \in {"creating", "topcreating"} THEN 1 ELSE 0)
    PROVE  CreatingCount'
  <1> DEFINE S == Creators
             T == Creators'
  <1>1. /\ S \in SUBSET Procs /\ T \in SUBSET Procs
        /\ \A q \in Procs \ {p} : q \in S <=> q \in T
    BY Zenon DEF Creators
  <1>2. /\ creating \in Int /\ creating' \in Int /\ creating = Cardinality(S)
        /\ creating' - (IF p \in T THEN 1 ELSE 0) =
           creating - (IF p \in S THEN 1 ELSE 0)
    BY Zenon DEF Creators, BaseInv, TypeOK, CreatingCount
  <1>3. /\ Cardinality(S) \in Nat /\ Cardinality(T) \in Nat
        /\ (p \in S <=> p \in T) => Cardinality(T) = Cardinality(S)
        /\ p \notin S /\ p \in T => Cardinality(T) = Cardinality(S) + 1
        /\ p \in S /\ p \notin T => Cardinality(T) = Cardinality(S) - 1
    <2> HIDE DEF S, T
    <2> QED  BY Zenon, <1>1, ProcCount
  <1> HIDE DEF S, T
  <1>4. creating' = Cardinality(T)
    BY <1>2, <1>3
  <1> QED  BY Zenon, <1>4 DEF T, Creators, CreatingCount

\* A step of p that starts a dial, ends one, or does neither.
CreatorEffect(p) ==
    /\ \A q \in Procs \ {p} : pc'[q] = pc[q]
    /\ creating' = creating + (IF pc'[p] \in {"creating", "topcreating"} THEN 1 ELSE 0)
                            - (IF pc[p] \in {"creating", "topcreating"} THEN 1 ELSE 0)

\* Every step of a goroutine counts its own dials.
LEMMA CreatorEffects ==
    ASSUME TypeOK, NEW p \in Procs, ProcStep(p)
    PROVE  CreatorEffect(p)
  <1>0. pc \in [Procs -> Places] /\ creating \in Int
    BY Zenon DEF TypeOK
  <1> USE DEF CreatorEffect, Goto
  <1>1. CASE GetStart(p)
    BY <1>0, <1>1 DEF GetStart, poolVars
  <1>2. CASE GetClosed(p)
    BY <1>0, <1>2 DEF GetClosed, poolVars
  <1>3. CASE ReserveCheck(p)
    BY <1>0, <1>3 DEF ReserveCheck, poolVars
  <1>4. CASE ReserveClaim(p)
    BY <1>0, <1>4 DEF ReserveClaim, poolVars
  <1>5. CASE ReserveRetry(p)
    BY <1>0, <1>5 DEF ReserveRetry, poolVars
  <1>6. CASE GetCancelled(p)
    BY <1>0, <1>6 DEF GetCancelled, poolVars, NothingToReserve
  <1>7. CASE GetBackpressure(p)
    BY <1>0, <1>7 DEF GetBackpressure, poolVars, NothingToReserve
  <1>8. CASE GetInlineCleanup(p)
    BY <1>0, <1>8 DEF GetInlineCleanup, NothingToReserve
  <1>9. CASE GetCreate(p)
    BY <1>0, <1>9 DEF GetCreate, NothingToReserve
  <1>10. CASE CreateOk(p)
    BY <1>0, <1>10 DEF CreateOk
  <1>11. CASE CreateFailed(p)
    BY <1>0, <1>11 DEF CreateFailed
  <1>12. CASE FreshReserve(p)
    BY <1>0, <1>12 DEF FreshReserve, poolVars
  <1>13. CASE FreshRejected(p)
    BY <1>0, <1>13 DEF FreshRejected, poolVars
  <1>14. CASE AppendRefused(p)
    BY <1>0, <1>14 DEF AppendRefused, poolVars
  <1>15. CASE AppendOk(p)
    BY <1>0, <1>15 DEF AppendOk
  <1>16. CASE OpenRefused(p)
    BY <1>0, <1>16 DEF OpenRefused, poolVars
  <1>17. CASE OpenStart(p)
    BY <1>0, <1>17 DEF OpenStart, poolVars
  <1>18. CASE TripOk(p)
    BY <1>0, <1>18 DEF TripOk, poolVars
  <1>19. CASE TripFailed(p)
    BY <1>0, <1>19 DEF TripFailed, poolVars
  <1>20. CASE TripDead(p)
    BY <1>0, <1>20 DEF TripDead, poolVars
  <1>21. CASE StreamClose(p)
    <2>1. /\ pc[p] = "stream" /\ UNCHANGED creating
          /\ pc' = [pc EXCEPT ![p] = "lastcheck"] \/ pc' = [pc EXCEPT ![p] = "idle"]
      BY Zenon, <1>21 DEF StreamClose, poolVars
    <2> QED  BY <1>0, <2>1
  <1>22. CASE LastStreamGone(p)
    BY <1>0, <1>22 DEF LastStreamGone, poolVars
  <1>23. CASE FetchDone(p)
    BY <1>0, <1>23 DEF FetchDone, poolVars
  <1>24. CASE TopUpDone(p)
    BY <1>0, <1>24 DEF TopUpDone, poolVars
  <1>25. CASE TopUpCreate(p)
    BY <1>0, <1>25 DEF TopUpCreate
  <1>26. CASE TopUpRefused(p)
    BY <1>0, <1>26 DEF TopUpRefused, poolVars
  <1>27. CASE TopUpAppend(p)
    BY <1>0, <1>27 DEF TopUpAppend
  <1> HIDE DEF CreatorEffect, Goto
  <1> QED  BY ZenonT(60), <1>1, <1>2, <1>3, <1>4, <1>5, <1>6, <1>7, <1>8, <1>9, <1>10, <1>11, <1>12, <1>13, <1>14, <1>15, <1>16, <1>17, <1>18, <1>19, <1>20, <1>21, <1>22, <1>23, <1>24, <1>25, <1>26, <1>27 DEF ProcStep

\* Every step keeps p.creating right.
LEMMA CreatingStep ==
    ASSUME BaseInv, CreatingCount, [Next]_vars
    PROVE  CreatingCount'
  <1>0. BaseInv' /\ TypeOK /\ creating \in Int
    BY Zenon, BaseStep DEF BaseInv, TypeOK
  <1>1. ASSUME NEW p \in Procs, CreatorEffect(p) PROVE CreatingCount'
    <2>1. /\ \A q \in Procs \ {p} : pc'[q] = pc[q]
          /\ creating' - (IF pc'[p] \in {"creating", "topcreating"} THEN 1 ELSE 0) =
             creating - (IF pc[p] \in {"creating", "topcreating"} THEN 1 ELSE 0)
      BY <1>0, <1>1 DEF CreatorEffect
    <2> QED  BY Zenon, <1>0, <2>1, CreatorMove
  <1>2. ASSUME UNCHANGED <<pc, creating>> PROVE CreatingCount'
    BY Zenon, <1>2 DEF CreatingCount
  <1>3. ASSUME NEW p \in Procs, pc[p] = "idle", Goto(p, "top"), UNCHANGED creating
        PROVE  CreatingCount'
    <2>1. pc \in [Procs -> Places] /\ pc' = [pc EXCEPT ![p] = "top"]
      BY Zenon, <1>0, <1>3 DEF TypeOK, Goto
    <2>2. CreatorEffect(p)
      BY <1>0, <1>3, <2>1 DEF CreatorEffect
    <2> QED  BY Zenon, <1>1, <2>2
  <1>4. ASSUME NEW p \in Procs, ProcStep(p) PROVE CreatingCount'
    BY Zenon, <1>0, <1>1, <1>4, CreatorEffects
  <1>5. ASSUME NEW t \in Transports, TransportStep(t) PROVE CreatingCount'
    BY Zenon, <1>2, <1>5 DEF TransportStep, MarkDraining, GracefulDrainClose, ErrorTeardown, poolVars
  <1>6. CASE ReaperTick
    BY Zenon, <1>3, <1>6, ConnPoolAssumption DEF ReaperTick, Procs, TopUps, poolVars
  <1>7. CASE Cleanup
    BY Zenon, <1>2, <1>7 DEF Cleanup
  <1>8. CASE ApplyBounds
    <2>1. /\ UNCHANGED creating
          /\ UNCHANGED pc \/ \E h \in Helpers : pc[h] = "idle" /\ Goto(h, "top")
      BY Zenon, <1>8 DEF ApplyBounds, Resize
    <2> QED  BY Zenon, <1>2, <1>3, <2>1 DEF Procs, TopUps
  <1>9. CASE PoolClose
    BY Zenon, <1>2, <1>9 DEF PoolClose
  <1>10. CASE UNCHANGED vars
    BY Zenon, <1>2, <1>10 DEF vars, poolVars
  <1> QED  BY Zenon, <1>4, <1>5, <1>6, <1>7, <1>8, <1>9, <1>10, NextCases

-----------------------------------------------------------------------------
(* The stream cap. *)

\* The counter value to be swapped was below the cap when it was read.
CapInv == StreamCap /\ (MaxStreams > 0 /\ mu # None => cur < MaxStreams)

\* A step of p leaves in cur a counter below the cap, or gives cur up or keeps it;
\* and it claims a slot only of a transport below the cap.
CapEffect(p) ==
    \/ UNCHANGED active /\ (MaxStreams > 0 => cur' < MaxStreams)
    \/ /\ mu' = None \/ UNCHANGED <<mu, cur>>
       /\ \/ UNCHANGED active \/ pc[p] \notin {"increment", "fresh"}
          \/ MaxStreams > 0 => active[hold[p]] < MaxStreams

LEMMA CapEffects ==
    ASSUME BaseInv, CapInv, NEW p \in Procs, ProcStep(p)
    PROVE  CapEffect(p)
  <1>0. /\ pc[p] = "increment" /\ MaxStreams > 0 => cur < MaxStreams
        /\ MaxStreams \in Nat
    <2>1. pc[p] = "increment" => mu = p
      BY Zenon DEF BaseInv, HoldInv
    <2> QED  BY Zenon, <2>1, ConnPoolAssumption DEF CapInv
  <1> USE DEF CapEffect
  <1>1. CASE GetStart(p)
    BY Zenon, <1>1 DEF GetStart
  <1>2. CASE GetClosed(p)
    BY Zenon, <1>2 DEF GetClosed
  <1>3. CASE ReserveCheck(p)
    BY Zenon, <1>3 DEF ReserveCheck, Reservable, CanReserve
  <1>4. CASE ReserveClaim(p)
    BY <1>0, <1>4 DEF ReserveClaim
  <1>5. CASE ReserveRetry(p)
    BY Zenon, <1>5 DEF ReserveRetry
  <1>6. CASE GetCancelled(p)
    BY Zenon, <1>6 DEF GetCancelled, NothingToReserve
  <1>7. CASE GetBackpressure(p)
    BY Zenon, <1>7 DEF GetBackpressure, NothingToReserve
  <1>8. CASE GetInlineCleanup(p)
    BY Zenon, <1>8 DEF GetInlineCleanup, NothingToReserve
  <1>9. CASE GetCreate(p)
    BY Zenon, <1>9 DEF GetCreate, NothingToReserve
  <1>10. CASE CreateOk(p)
    BY Zenon, <1>10 DEF CreateOk
  <1>11. CASE CreateFailed(p)
    BY Zenon, <1>11 DEF CreateFailed
  <1>12. CASE FreshReserve(p)
    BY Zenon, <1>12 DEF FreshReserve, CanReserve
  <1>13. CASE FreshRejected(p)
    BY Zenon, <1>13 DEF FreshRejected
  <1>14. CASE AppendRefused(p)
    BY Zenon, <1>14 DEF AppendRefused
  <1>15. CASE AppendOk(p)
    BY Zenon, <1>15 DEF AppendOk
  <1>16. CASE OpenRefused(p)
    BY Zenon, <1>16 DEF OpenRefused
  <1>17. CASE OpenStart(p)
    BY Zenon, <1>17 DEF OpenStart
  <1>18. CASE TripOk(p)
    BY Zenon, <1>18 DEF TripOk
  <1>19. CASE TripFailed(p)
    BY Zenon, <1>19 DEF TripFailed
  <1>20. CASE TripDead(p)
    BY Zenon, <1>20 DEF TripDead
  <1>21. CASE StreamClose(p)
    BY Zenon, <1>21 DEF StreamClose
  <1>22. CASE LastStreamGone(p)
    BY Zenon, <1>22 DEF LastStreamGone
  <1>23. CASE FetchDone(p)
    BY Zenon, <1>23 DEF FetchDone
  <1>24. CASE TopUpDone(p)
    BY Zenon, <1>24 DEF TopUpDone
  <1>25. CASE TopUpCreate(p)
    BY Zenon, <1>25 DEF TopUpCreate
  <1>26. CASE TopUpRefused(p)
    BY Zenon, <1>26 DEF TopUpRefused
  <1>27. CASE TopUpAppend(p)
    BY Zenon, <1>27 DEF TopUpAppend
  <1> HIDE DEF CapEffect
  <1> QED  BY ZenonT(60), <1>1, <1>2, <1>3, <1>4, <1>5, <1>6, <1>7, <1>8, <1>9, <1>10, <1>11, <1>12, <1>13, <1>14, <1>15, <1>16, <1>17, <1>18, <1>19, <1>20, <1>21, <1>22, <1>23, <1>24, <1>25, <1>26, <1>27 DEF ProcStep

\* Such a step oversubscribes no transport.
LEMMA CapKept ==
    ASSUME BaseInv, CapInv, NEW p \in Procs, SlotEffect(p), CapEffect(p)
    PROVE  CapInv'
  <1>0. active \in [Transports -> Int] /\ MaxStreams \in Nat
    BY Zenon, ConnPoolAssumption DEF BaseInv, TypeOK
  <1>c. MaxStreams > 0 => \A t \in Transports : active[t] <= MaxStreams
    BY Zenon DEF CapInv, StreamCap
  <1>1. CASE UNCHANGED active
    BY Zenon, <1>1 DEF CapInv, StreamCap, CapEffect
  <1>2. CASE active' # active
    <2>1. (mu' = None \/ UNCHANGED <<mu, cur>>)
      BY Zenon, <1>2 DEF CapEffect
    <2>2. MaxStreams > 0 => \A t \in Transports : active'[t] <= MaxStreams
      <3>1. CASE TakesSlot(p)
        <4>1. hold[p] \in Transports
          BY Zenon, <3>1, Holds DEF TakesSlot
        <4>2. MaxStreams > 0 => active[hold[p]] < MaxStreams
          BY Zenon, <1>2, <3>1 DEF CapEffect, TakesSlot
        <4>3. active' = [active EXCEPT ![hold[p]] = @ + 1]
          BY Zenon, <3>1 DEF TakesSlot
        <4> QED  BY <1>0, <1>c, <4>1, <4>2, <4>3
      <3>2. CASE GivesSlot(p)
        <4>1. hold[p] \in Transports
          BY Zenon, <3>2, Holds DEF GivesSlot
        <4>2. active' = [active EXCEPT ![hold[p]] = @ + (-1)]
          BY Zenon, <3>2 DEF GivesSlot
        <4> QED  BY <1>0, <1>c, <4>1, <4>2
      <3>3. CASE FreshSlots(p)
        BY <1>0, <1>c, <3>3 DEF FreshSlots
      <3> QED  BY Zenon, <1>2, <3>1, <3>2, <3>3 DEF SlotEffect, OffSlot, OnSlot, LosesSlot
    <2> QED  BY Zenon, <2>1, <2>2 DEF CapInv, StreamCap
  <1> QED  BY Zenon, <1>1, <1>2

\* No step oversubscribes a transport.
LEMMA CapStep ==
    ASSUME BaseInv, CapInv, [Next]_vars
    PROVE  CapInv'
  <1>1. ASSUME NEW p \in Procs, ProcStep(p) PROVE CapInv'
    <2>1. SlotEffect(p) /\ CapEffect(p)
      BY Zenon, <1>1, SlotEffects, CapEffects DEF BaseInv
    <2> QED  BY Zenon, <2>1, CapKept
  <1>2. ASSUME UNCHANGED active, mu' = None \/ UNCHANGED <<mu, cur>> PROVE CapInv'
    BY Zenon, <1>2 DEF CapInv, StreamCap
  <1>3. ASSUME NEW t \in Transports, TransportStep(t) PROVE CapInv'
    BY Zenon, <1>2, <1>3 DEF TransportStep, MarkDraining, GracefulDrainClose, ErrorTeardown
  <1>4. CASE ReaperTick
    BY Zenon, <1>2, <1>4 DEF ReaperTick
  <1>5. CASE Cleanup
    BY Zenon, <1>2, <1>5 DEF Cleanup
  <1>6. CASE ApplyBounds
    BY Zenon, <1>2, <1>6 DEF ApplyBounds, Resize
  <1>7. CASE PoolClose
    BY Zenon, <1>2, <1>7 DEF PoolClose
  <1>8. CASE UNCHANGED vars
    BY Zenon, <1>2, <1>8 DEF vars
  <1> QED  BY Zenon, <1>1, <1>3, <1>4, <1>5, <1>6, <1>7, <1>8, NextCases

-----------------------------------------------------------------------------
(* Leaving the pool. *)

\* What RemovalSafe says of one step.
SafeRemoval == \A t \in transports \ transports' :
                  t \in shut \/ active[t] = 0 \/ closed'

\* Every step that removes transports removes spent, streamless or closed ones.
LEMMA RemovalStep ==
    ASSUME TypeOK, Next
    PROVE  SafeRemoval
  <1> USE DEF SafeRemoval, poolVars
  <1>1. ASSUME NEW p \in Procs PROVE ProcStep(p) => SafeRemoval
    <2>1. CASE GetStart(p)
      BY Zenon, <2>1 DEF GetStart
    <2>2. CASE GetClosed(p)
      BY Zenon, <2>2 DEF GetClosed
    <2>3. CASE ReserveCheck(p)
      BY Zenon, <2>3 DEF ReserveCheck
    <2>4. CASE ReserveClaim(p)
      BY Zenon, <2>4 DEF ReserveClaim
    <2>5. CASE ReserveRetry(p)
      BY Zenon, <2>5 DEF ReserveRetry
    <2>6. CASE GetCancelled(p)
      BY Zenon, <2>6 DEF GetCancelled
    <2>7. CASE GetBackpressure(p)
      BY Zenon, <2>7 DEF GetBackpressure
    <2>8. CASE GetInlineCleanup(p)
      BY Zenon, <2>8 DEF GetInlineCleanup, Spent
    <2>9. CASE GetCreate(p)
      BY Zenon, <2>9 DEF GetCreate
    <2>10. CASE CreateOk(p)
      BY Zenon, <2>10 DEF CreateOk
    <2>11. CASE CreateFailed(p)
      BY Zenon, <2>11 DEF CreateFailed
    <2>12. CASE FreshReserve(p)
      BY Zenon, <2>12 DEF FreshReserve
    <2>13. CASE FreshRejected(p)
      BY Zenon, <2>13 DEF FreshRejected
    <2>14. CASE AppendRefused(p)
      BY Zenon, <2>14 DEF AppendRefused
    <2>15. CASE AppendOk(p)
      BY Zenon, <2>15 DEF AppendOk
    <2>16. CASE OpenRefused(p)
      BY Zenon, <2>16 DEF OpenRefused
    <2>17. CASE OpenStart(p)
      BY Zenon, <2>17 DEF OpenStart
    <2>18. CASE TripOk(p)
      BY Zenon, <2>18 DEF TripOk
    <2>19. CASE TripFailed(p)
      BY Zenon, <2>19 DEF TripFailed
    <2>20. CASE TripDead(p)
      BY Zenon, <2>20 DEF TripDead
    <2>21. CASE StreamClose(p)
      BY Zenon, <2>21 DEF StreamClose
    <2>22. CASE LastStreamGone(p)
      BY Zenon, <2>22 DEF LastStreamGone
    <2>23. CASE FetchDone(p)
      BY Zenon, <2>23 DEF FetchDone
    <2>24. CASE TopUpDone(p)
      BY Zenon, <2>24 DEF TopUpDone
    <2>25. CASE TopUpCreate(p)
      BY Zenon, <2>25 DEF TopUpCreate
    <2>26. CASE TopUpRefused(p)
      BY Zenon, <2>26 DEF TopUpRefused
    <2>27. CASE TopUpAppend(p)
      BY Zenon, <2>27 DEF TopUpAppend
    <2> QED  BY ZenonT(60), <2>1, <2>2, <2>3, <2>4, <2>5, <2>6, <2>7, <2>8, <2>9, <2>10, <2>11, <2>12, <2>13, <2>14, <2>15, <2>16, <2>17, <2>18, <2>19, <2>20, <2>21, <2>22, <2>23, <2>24, <2>25, <2>26, <2>27 DEF ProcStep
  <1>2. ASSUME NEW t \in Transports PROVE TransportStep(t) => SafeRemoval
    <2>1. CASE MarkDraining(t)
      BY Zenon, <2>1 DEF MarkDraining
    <2>2. CASE GracefulDrainClose(t)
      BY Zenon, <2>2 DEF GracefulDrainClose
    <2>3. CASE ErrorTeardown(t)
      BY Zenon, <2>3 DEF ErrorTeardown
    <2> QED  BY Zenon, <2>1, <2>2, <2>3 DEF TransportStep
  <1>3. CASE ReaperTick
    BY Zenon, <1>3 DEF ReaperTick
  <1>4. CASE Cleanup
    BY Zenon, <1>4 DEF Cleanup, Spent
  <1>5. CASE ApplyBounds
    BY Zenon, <1>5 DEF ApplyBounds, Resize, EnforceMax, Usable
  <1>6. CASE PoolClose
    BY Zenon, <1>6 DEF PoolClose
  <1> QED  BY Zenon, <1>1, <1>2, <1>3, <1>4, <1>5, <1>6, NextCases

-----------------------------------------------------------------------------
(* The theorems. *)

\* The inductive invariant of the pool.
PoolInv ==
    BaseInv /\ OwnInv /\ UsableBound /\ SlotAccounting /\ CreatingCount /\ CapInv

\* PoolInv holds of the empty pool newConnPool returns.
LEMMA PoolInit == Init => PoolInv
  <1> SUFFICES ASSUME Init PROVE PoolInv
    BY Zenon
  <1> USE ConnPoolAssumption DEF Init
  <1>1. BaseInv
    <2>1. minT \in Nat \ {0} /\ maxT \in Nat \ {0}
      BY Zenon, NormPositive
    <2>2. TypeOK
      <3>1. creating \in Int /\ cur \in Int
        OBVIOUS
      <3>4. closed \in BOOLEAN
        BY Zenon
      <3>2. /\ active \in [Transports -> Int] /\ leaked \in [Transports -> Nat]
            /\ pc \in [Procs -> Places] /\ hold \in [Procs -> Transports \cup {None}]
        BY DEF Places
      <3>3. /\ transports \subseteq Transports /\ shut \subseteq Transports
            /\ draining \subseteq Transports /\ conns \subseteq Transports
            /\ mu \in Procs \cup {None}
        BY Zenon
      <3> HIDE DEF Init
      <3> QED  BY Zenon, <2>1, <3>1, <3>2, <3>3, <3>4 DEF TypeOK
    <2>3. HoldInv
      <3> SUFFICES ASSUME NEW p \in Procs
                   PROVE  pc[p] = "idle" /\ mu # p
        BY Zenon DEF HoldInv, SlotPlaces, FreshPlaces
      <3> QED  BY Zenon
    <2> QED  BY Zenon, <2>2, <2>3 DEF BaseInv
  <1>2. OwnInv
    BY Zenon DEF OwnInv, ClosedPoolEmpty, NoOrphan
  <1>3. UsableBound
    <2>1. Cardinality(Usable) = 0
      BY Zenon, FS_EmptySet DEF Usable
    <2>2. maxT \in Nat /\ Overlap \in Nat
      BY Zenon, <1>1 DEF BaseInv, TypeOK
    <2> QED  BY <2>1, <2>2 DEF UsableBound
  <1>4. SlotAccounting
    <2> SUFFICES ASSUME NEW t \in Transports
                 PROVE  active[t] = Cardinality(SlotHolders(t)) + leaked[t]
      BY Zenon DEF SlotAccounting
    <2>1. SlotHolders(t) = {}
      BY Zenon DEF SlotHolders, SlotPlaces
    <2>2. Cardinality(SlotHolders(t)) = 0
      BY Zenon, <2>1, FS_EmptySet
    <2> QED  BY <2>2
  <1>5. CreatingCount
    <2>1. {p \in Procs : pc[p] \in {"creating", "topcreating"}} = {}
      BY Zenon
    <2> QED  BY Zenon, <2>1, FS_EmptySet DEF CreatingCount
  <1>6. CapInv
    BY DEF CapInv, StreamCap
  <1> QED  BY Zenon, <1>1, <1>2, <1>3, <1>4, <1>5, <1>6 DEF PoolInv

\* PoolInv holds in every reachable state of the pool.
THEOREM PoolInvariant == Spec => []PoolInv
  <1>1. PoolInv /\ [Next]_vars => PoolInv'
    BY Zenon, BaseStep, OwnStep, UsableStep, SlotStep, CreatingStep, CapStep DEF PoolInv
  <1> QED  BY <1>1, PoolInit, PTL DEF Spec

\* Type correctness of the pool, its transports and its goroutines.
THEOREM TypeCorrect == Spec => []TypeOK
  <1>1. PoolInv => TypeOK
    BY Zenon DEF PoolInv, BaseInv
  <1> QED  BY <1>1, PoolInvariant, PTL

\* At most maxTransports (and the overlap less one) usable transports, under
\* any interleaving of dials, top-ups, drains and resizes.
THEOREM UsableBounded == Spec => []UsableBound
  <1>1. PoolInv => UsableBound
    BY Zenon DEF PoolInv
  <1> QED  BY <1>1, PoolInvariant, PTL

\* activeStreams is the owned slots plus the unreturned ones.
THEOREM SlotsAccounted == Spec => []SlotAccounting
  <1>1. PoolInv => SlotAccounting
    BY Zenon DEF PoolInv
  <1> QED  BY <1>1, PoolInvariant, PTL

\* No open connection is unreachable for closing.
THEOREM NoOrphans == Spec => []NoOrphan
  <1>1. PoolInv => NoOrphan
    BY Zenon DEF PoolInv, OwnInv
  <1> QED  BY <1>1, PoolInvariant, PTL

\* A closed pool stays empty although dials were in flight.
THEOREM ClosedStaysEmpty == Spec => []ClosedPoolEmpty
  <1>1. PoolInv => ClosedPoolEmpty
    BY Zenon DEF PoolInv, OwnInv
  <1> QED  BY <1>1, PoolInvariant, PTL

\* At most maxTransports (and the overlap less one) usable transports, and none of
\* them with more streams than the cap.
THEOREM PoolIsBounded == Spec => []PoolBounded
  <1>1. PoolInv => PoolBounded
    BY Zenon DEF PoolInv, CapInv, PoolBounded
  <1> QED  BY <1>1, PoolInvariant, PTL

\* Slots and connections have an owner, and a closed pool has neither left.
THEOREM PoolIsOwned == Spec => []PoolOwned
  <1>1. PoolInv => PoolOwned
    BY Zenon DEF PoolInv, OwnInv, PoolOwned
  <1> QED  BY <1>1, PoolInvariant, PTL

\* p.creating is the number of dials in flight.
THEOREM CreatingCounts == Spec => []CreatingCount
  <1>1. PoolInv => CreatingCount
    BY Zenon DEF PoolInv
  <1> QED  BY <1>1, PoolInvariant, PTL

\* No transport carries more streams than the cap.
THEOREM StreamsCapped == Spec => []StreamCap
  <1>1. PoolInv => StreamCap
    BY Zenon DEF PoolInv, CapInv
  <1> QED  BY <1>1, PoolInvariant, PTL

\* No step of the pool cuts a transport from under a stream.
THEOREM RemovalIsSafe == Spec => RemovalSafe
  <1>1. TypeOK /\ [Next]_vars => [SafeRemoval]_vars
    BY Zenon, RemovalStep
  <1>2. [][SafeRemoval]_vars => RemovalSafe
    BY Zenon DEF SafeRemoval, RemovalSafe
  <1> QED  BY <1>1, <1>2, TypeCorrect, PTL DEF Spec

-----------------------------------------------------------------------------
(* Without a refresh loop. *)

\* No transport in use has an unreturned slot.
NoLeak == \A t \in Transports \ shut : leaked[t] = 0

\* Only the refresh loop leaves a slot behind on a transport in use.
LEMMA NoLeakStep ==
    ASSUME Refreshers = {}, BaseInv, NoLeak, [Next]_vars
    PROVE  NoLeak'
  <1> USE DEF BaseInv, TypeOK, NoLeak, Close, Abandon, poolVars, flagVars
  <1>1. ASSUME NEW p \in Procs PROVE ProcStep(p) => NoLeak'
    <2>1. CASE GetStart(p)
      BY Zenon, <2>1 DEF GetStart
    <2>2. CASE GetClosed(p)
      BY Zenon, <2>2 DEF GetClosed
    <2>3. CASE ReserveCheck(p)
      BY Zenon, <2>3 DEF ReserveCheck
    <2>4. CASE ReserveClaim(p)
      BY Zenon, <2>4 DEF ReserveClaim
    <2>5. CASE ReserveRetry(p)
      BY Zenon, <2>5 DEF ReserveRetry
    <2>6. CASE GetCancelled(p)
      BY Zenon, <2>6 DEF GetCancelled
    <2>7. CASE GetBackpressure(p)
      BY Zenon, <2>7 DEF GetBackpressure
    <2>8. CASE GetInlineCleanup(p)
      BY Zenon, <2>8 DEF GetInlineCleanup
    <2>9. CASE GetCreate(p)
      BY Zenon, <2>9 DEF GetCreate
    <2>10. CASE CreateOk(p)
      BY Zenon, <2>10 DEF CreateOk, NewTransport
    <2>11. CASE CreateFailed(p)
      BY Zenon, <2>11 DEF CreateFailed
    <2>12. CASE FreshReserve(p)
      BY Zenon, <2>12 DEF FreshReserve
    <2>13. CASE FreshRejected(p)
      BY Zenon, <2>13 DEF FreshRejected
    <2>14. CASE AppendRefused(p)
      BY Zenon, <2>14 DEF AppendRefused
    <2>15. CASE AppendOk(p)
      BY Zenon, <2>15 DEF AppendOk
    <2>16. CASE OpenRefused(p)
      BY Zenon, <2>16 DEF OpenRefused
    <2>17. CASE OpenStart(p)
      BY Zenon, <2>17 DEF OpenStart
    <2>18. CASE TripOk(p)
      BY Zenon, <2>18 DEF TripOk
    <2>19. CASE TripFailed(p)
      BY Zenon, <2>19 DEF TripFailed
    <2>20. CASE TripDead(p)
      BY Zenon, <2>20 DEF TripDead
    <2>21. CASE StreamClose(p)
      BY Zenon, <2>21 DEF StreamClose
    <2>22. CASE LastStreamGone(p)
      BY Zenon, <2>22 DEF LastStreamGone
    <2>23. CASE FetchDone(p)
      BY Zenon, <2>23 DEF FetchDone
    <2>24. CASE TopUpDone(p)
      BY Zenon, <2>24 DEF TopUpDone
    <2>25. CASE TopUpCreate(p)
      BY Zenon, <2>25 DEF TopUpCreate
    <2>26. CASE TopUpRefused(p)
      BY Zenon, <2>26 DEF TopUpRefused
    <2>27. CASE TopUpAppend(p)
      BY Zenon, <2>27 DEF TopUpAppend
    <2> QED  BY <2>1, <2>2, <2>3, <2>4, <2>5, <2>6, <2>7, <2>8, <2>9, <2>10, <2>11, <2>12, <2>13, <2>14, <2>15, <2>16, <2>17, <2>18, <2>19, <2>20, <2>21, <2>22, <2>23, <2>24, <2>25, <2>26, <2>27 DEF ProcStep
  <1>2. ASSUME NEW t \in Transports PROVE TransportStep(t) => NoLeak'
    <2>1. CASE MarkDraining(t)
      BY Zenon, <2>1 DEF MarkDraining
    <2>2. CASE GracefulDrainClose(t)
      BY Zenon, <2>2 DEF GracefulDrainClose
    <2>3. CASE ErrorTeardown(t)
      BY Zenon, <2>3 DEF ErrorTeardown
    <2> QED  BY Zenon, <2>1, <2>2, <2>3 DEF TransportStep
  <1>3. CASE ReaperTick
    BY Zenon, <1>3 DEF ReaperTick
  <1>4. CASE Cleanup
    BY Zenon, <1>4 DEF Cleanup
  <1>5. CASE ApplyBounds
    <2>1. UNCHANGED leaked /\ shut \subseteq shut'
      BY Zenon, <1>5 DEF ApplyBounds, Resize, EnforceMax
    <2> QED  BY Zenon, <2>1 DEF NoLeak
  <1>6. CASE PoolClose
    BY Zenon, <1>6 DEF PoolClose
  <1>7. CASE UNCHANGED vars
    BY Zenon, <1>7 DEF vars
  <1> QED  BY ZenonT(60), <1>1, <1>2, <1>3, <1>4, <1>5, <1>6, <1>7, NextCases

\* With the bundle disabled the counter is exact: every slot of a transport in
\* use is owned by a goroutine that will give it back.
THEOREM StreamCountExactWithoutRefresh ==
    ASSUME Refreshers = {}
    PROVE  Spec => []StreamCountExact
  <1>1. Init => NoLeak
    BY Zenon DEF Init, NoLeak
  <1>2. PoolInv /\ NoLeak /\ [Next]_vars => NoLeak'
    BY Zenon, NoLeakStep DEF PoolInv
  <1>3. PoolInv /\ NoLeak => StreamCountExact
    <2> SUFFICES ASSUME PoolInv, NoLeak, NEW t \in Transports \ shut
                 PROVE  active[t] = Cardinality(SlotHolders(t))
      BY Zenon DEF StreamCountExact
    <2>1. active[t] = Cardinality(SlotHolders(t)) + 0
      BY Zenon DEF PoolInv, SlotAccounting, NoLeak
    <2>2. active[t] \in Int
      BY Zenon DEF PoolInv, BaseInv, TypeOK
    <2>3. Cardinality(SlotHolders(t)) \in Nat
      <3>1. SlotHolders(t) \in SUBSET Procs
        BY Zenon DEF SlotHolders
      <3> QED  BY Zenon, <3>1, ConnPoolAssumption, FS_Subset, FS_CardinalityType
    <2> QED  BY <2>1, <2>2, <2>3
  <1> QED  BY <1>1, <1>2, <1>3, PoolInvariant, PTL DEF Spec
=============================================================================
