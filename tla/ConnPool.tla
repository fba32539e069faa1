------------------------------ MODULE ConnPool ------------------------------
(***************************************************************************)
(* The client's transport pool (pkg/tamizdat/connpool.go), the life of one *)
(* TLS+H2 transport (h2transport.go) and the three users of the pool:      *)
(* dials (Client.DialContext / DialUDP), the bundle refresh loop           *)
(* (Client.bundleRefreshLoop) and the topUp goroutines.                    *)
(*                                                                         *)
(* Every critical section of p.mu is one action, except reserveLocked:     *)
(* reserveStreamSlot tests the transport's own flags and then increments   *)
(* its counter, and both flags and counter are changed by goroutines that  *)
(* never take p.mu, so the test and the increment are two steps with p.mu  *)
(* held in between.                                                        *)
(*                                                                         *)
(* Abstractions.  p.transports is a set: round-robin order only decides    *)
(* WHICH usable transport is taken, and the model allows any.  Wall-clock  *)
(* idleness, the byte soft cap and GOAWAY are choices of the environment.  *)
(* A transport object that nothing refers to any more is garbage, and its  *)
(* name may stand for a transport created later.                           *)
(***************************************************************************)
EXTENDS Integers, FiniteSets

CONSTANTS
    Transports,  \* names of h2Transport objects
    Dialers,    \* goroutines inside Client.DialContext / DialUDP
    Refreshers,  \* bundleRefreshLoop ({} when ClientConfig.BundleDisabled)
    Reaper,     \* the reaperLoop goroutine
    Helpers,    \* goroutines started by resize's "go p.topUp()"
    None,       \* nil
    MaxStreams,  \* maxStreams, 0 = no client-side cap
    Overlap,    \* rotationOverlapAllowance
    InitMin, InitMax,   \* ClientConfig.MinTransports / MaxTransports
    PushedBounds  \* <<min, max>> pairs a config bundle may carry

Getters == Dialers \cup Refreshers
TopUps == {Reaper} \cup Helpers
Procs == Getters \cup TopUps

ASSUME ConnPoolAssumption ==
    /\ IsFiniteSet(Transports) /\ IsFiniteSet(Procs)
    /\ None \notin Transports \cup Procs
    /\ Dialers \cap Refreshers = {} /\ Getters \cap TopUps = {}
    /\ MaxStreams \in Nat /\ Overlap \in Nat
    /\ InitMin \in Int /\ InitMax \in Int
    /\ PushedBounds \subseteq Int \X Int

VARIABLES
    transports,  \* p.transports
    closed,     \* p.closed
    creating,   \* p.creating
    minT, maxT,     \* p.minTransports, p.maxTransports
    mu,         \* the goroutine inside reserveStreamSlot with p.mu held
    shut,       \* transports with t.closed set
    draining,   \* transports with t.draining set
    conns,      \* transports whose TLS connection is open
    active,     \* t.activeStreams
    pc, hold,       \* each goroutine's place in the code, and its transport
    cur,        \* the counter value reserveStreamSlot will compare-and-swap
    leaked      \* ghost: slots of t that no goroutine will release

poolVars == <<transports, closed, creating, minT, maxT>>
flagVars == <<shut, draining, conns>>
vars == <<poolVars, mu, flagVars, active, pc, hold, cur, leaked>>

\* Places at which a goroutine owns one stream slot of hold[p].
SlotPlaces == {"append", "open", "trip", "stream"}
\* Places at which hold[p] was just dialed and is not in the pool yet.
FreshPlaces == {"fresh", "append", "topappend"}
Places == {"idle", "get", "increment", "creating", "lastcheck",
           "top", "topcreating"} \cup SlotPlaces \cup FreshPlaces

AtLeast(n, m) == IF n < m THEN m ELSE n

\* newConnPool and resize: min is at least 1 and max at least min.
NormMin(m) == AtLeast(m, 1)
NormMax(m, n) == AtLeast(n, NormMin(m))

Init ==
    /\ transports = {} /\ closed = FALSE /\ creating = 0
    /\ minT = NormMin(InitMin) /\ maxT = NormMax(InitMin, InitMax)
    /\ mu = None
    /\ shut = Transports /\ draining = {} /\ conns = {}
    /\ active = [t \in Transports |-> 0]
    /\ pc = [p \in Procs |-> "idle"] /\ hold = [p \in Procs |-> None]
    /\ cur = 0
    /\ leaked = [t \in Transports |-> 0]

-----------------------------------------------------------------------------
(* Reading the pool. *)

\* Fault: the cap is compared with <= instead of <.
CanReserveOffByOne(t) ==
    /\ t \notin shut /\ t \notin draining
    /\ MaxStreams > 0 => active[t] <= MaxStreams

\* isClosed, isDraining and the stream cap, as reserveStreamSlot tests them.
CanReserve(t) ==
    /\ t \notin shut /\ t \notin draining
    /\ MaxStreams > 0 => active[t] < MaxStreams

Reservable == {t \in transports : CanReserve(t)}

\* maxTransportsWithRotationOverlapLocked and hasDrainingLocked.
Capacity ==
    maxT + (IF Overlap > 0 /\ transports \cap draining # {} THEN Overlap ELSE 0)

AtCapacity == Cardinality(transports) + creating >= Capacity

Usable == transports \ (shut \cup draining)

\* Fault: drained transports are never collected.
SpentClosedOnly == {t \in transports : t \in shut}

\* closed, or draining with no stream left.
Spent == {t \in transports : t \in shut \/ (t \in draining /\ active[t] = 0)}

\* t.close() on each transport of S: a transport already marked closed by
\* closeFromError keeps its connection until that teardown goroutine runs.
Close(S) ==
    /\ shut' = shut \cup S
    /\ conns' = conns \ (S \ shut)

Goto(p, place) == pc' = [pc EXCEPT ![p] = place]
Take(p, t) == hold' = [hold EXCEPT ![p] = t]
AddStream(t, d) == active' = [active EXCEPT ![t] = @ + d]
Abandon(t) == leaked' = [leaked EXCEPT ![t] = @ + 1]

\* A name whose previous transport is garbage.
Unreferenced(t) ==
    t \in shut /\ t \notin conns \cup transports /\ \A p \in Procs : hold[p] # t

-----------------------------------------------------------------------------
(* Transport.createFunc, close and drain, outside any pool lock. *)

\* createFunc returned a transport: fresh counters, connection open.
NewTransport(t) ==
    /\ shut' = shut \ {t} /\ draining' = draining \ {t}
    /\ conns' = conns \cup {t}
    /\ active' = [active EXCEPT ![t] = 0]
    /\ leaked' = [leaked EXCEPT ![t] = 0]

\* markDraining, called for a GOAWAY frame or when the byte cap is crossed.
MarkDraining(t) ==
    /\ t \in conns \ draining
    /\ draining' = draining \cup {t}
    /\ UNCHANGED <<poolVars, mu, shut, conns, active, pc, hold, cur, leaked>>

\* gracefulDrainClose: the TLS connection is closed when the last stream is
\* gone or the drain timer fires.  t.closed is not set.
GracefulDrainClose(t) ==
    /\ t \in draining \cap conns
    /\ conns' = conns \ {t}
    /\ UNCHANGED <<poolVars, mu, shut, draining, active, pc, hold, cur, leaked>>

\* The teardown goroutine of closeFromError.
ErrorTeardown(t) ==
    /\ t \in shut \cap conns
    /\ conns' = conns \ {t}
    /\ UNCHANGED <<poolVars, mu, shut, draining, active, pc, hold, cur, leaked>>

-----------------------------------------------------------------------------
(* getTransport. *)

\* DialContext, DialUDP, or a tick of the refresh loop.
GetStart(p) ==
    /\ pc[p] = "idle"
    /\ Goto(p, "get")
    /\ UNCHANGED <<poolVars, mu, flagVars, active, hold, cur, leaked>>

\* p.closed at the top of the loop: context.Canceled.
GetClosed(p) ==
    /\ pc[p] = "get" /\ mu = None /\ closed
    /\ Goto(p, "idle")
    /\ UNCHANGED <<poolVars, mu, flagVars, active, hold, cur, leaked>>

\* reserveLocked, the tests: a transport that may take a stream was found.
ReserveCheck(p) ==
    /\ pc[p] = "get" /\ mu = None /\ ~closed
    /\ \E t \in Reservable :
         /\ Take(p, t) /\ cur' = active[t]
    /\ mu' = p /\ Goto(p, "increment")
    /\ UNCHANGED <<poolVars, flagVars, active, leaked>>

\* reserveLocked, the claim: Add(1) without a cap, a successful
\* compare-and-swap with one.  p.mu is released.
ReserveClaim(p) ==
    /\ pc[p] = "increment"
    /\ MaxStreams = 0 \/ active[hold[p]] = cur
    /\ AddStream(hold[p], 1)
    /\ mu' = None /\ cur' = 0 /\ Goto(p, "open")
    /\ UNCHANGED <<poolVars, flagVars, hold, leaked>>

\* The compare-and-swap lost to a stream that closed: test again.
ReserveRetry(p) ==
    /\ pc[p] = "increment"
    /\ MaxStreams > 0 /\ active[hold[p]] # cur
    /\ mu' = None /\ cur' = 0 /\ Goto(p, "get") /\ Take(p, None)
    /\ UNCHANGED <<poolVars, flagVars, active, leaked>>

\* No transport can take a stream.
NothingToReserve(p) ==
    pc[p] = "get" /\ mu = None /\ ~closed /\ Reservable = {}

\* At capacity while someone dials: wait 10 ms and look again (a stuttering
\* step), or give up because the caller's context ended.
GetCancelled(p) ==
    /\ NothingToReserve(p) /\ AtCapacity /\ creating > 0
    /\ Goto(p, "idle")
    /\ UNCHANGED <<poolVars, mu, flagVars, active, hold, cur, leaked>>

\* ErrPoolBackpressure of a multi-transport pool.
GetBackpressure(p) ==
    /\ NothingToReserve(p) /\ AtCapacity /\ creating = 0 /\ maxT # 1
    /\ Goto(p, "idle")
    /\ UNCHANGED <<poolVars, mu, flagVars, active, hold, cur, leaked>>

\* The inline cleanup of a pool of one; the capacity tested again is the one
\* read before the cleanup.
GetInlineCleanup(p) ==
    /\ NothingToReserve(p) /\ AtCapacity /\ creating = 0 /\ maxT = 1
    /\ Close(Spent)
    /\ transports' = transports \ Spent
    /\ Goto(p, IF Spent # {} /\ Cardinality(transports') < Capacity
               THEN "get" ELSE "idle")
    /\ UNCHANGED <<closed, creating, minT, maxT, mu, draining, active, hold,
                   cur, leaked>>

\* Room for one more: dial outside the lock.
GetCreate(p) ==
    /\ NothingToReserve(p) /\ ~AtCapacity
    /\ creating' = creating + 1
    /\ Goto(p, "creating")
    /\ UNCHANGED <<transports, closed, minT, maxT, mu, flagVars, active, hold,
                   cur, leaked>>

\* createFunc returned; p.creating-- is a critical section of its own, taken
\* before the new transport is offered to the pool.
CreateOk(p) ==
    /\ pc[p] \in {"creating", "topcreating"} /\ mu = None
    /\ \E t \in Transports :
         Unreferenced(t) /\ NewTransport(t) /\ Take(p, t)
    /\ creating' = creating - 1
    /\ Goto(p, IF pc[p] = "creating" THEN "fresh" ELSE "topappend")
    /\ UNCHANGED <<transports, closed, minT, maxT, mu, cur>>

CreateFailed(p) ==
    /\ pc[p] \in {"creating", "topcreating"} /\ mu = None
    /\ creating' = creating - 1
    /\ Goto(p, "idle")
    /\ UNCHANGED <<transports, closed, minT, maxT, mu, flagVars, active, hold,
                   cur, leaked>>

\* The creator claims the first slot before anyone else can see t ...
FreshReserve(p) ==
    /\ pc[p] = "fresh" /\ CanReserve(hold[p])
    /\ AddStream(hold[p], 1)
    /\ Goto(p, "append")
    /\ UNCHANGED <<poolVars, mu, flagVars, hold, cur, leaked>>

\* ... unless the new connection has already begun to drain.
FreshRejected(p) ==
    /\ pc[p] = "fresh" /\ ~CanReserve(hold[p])
    /\ Close({hold[p]})
    /\ Goto(p, "idle") /\ Take(p, None)
    /\ UNCHANGED <<poolVars, mu, draining, active, cur, leaked>>

\* The pool was closed, or filled up, while p was dialing: the transport is
\* closed with its slot still counted, and a full pool sends p round the loop.
AppendRefused(p) ==
    /\ pc[p] = "append" /\ mu = None
    /\ closed \/ Cardinality(transports) >= Capacity
    /\ Close({hold[p]}) /\ Abandon(hold[p])
    /\ Goto(p, IF closed THEN "idle" ELSE "get") /\ Take(p, None)
    /\ UNCHANGED <<poolVars, mu, draining, active, cur>>

\* Fault: the capacity is not read again after the dial.
AppendOkNoRecheck(p) ==
    /\ pc[p] = "append" /\ mu = None
    /\ ~closed
    /\ transports' = transports \cup {hold[p]}
    /\ Goto(p, "open")
    /\ UNCHANGED <<closed, creating, minT, maxT, mu, flagVars, active, hold,
                   cur, leaked>>

AppendOk(p) ==
    /\ pc[p] = "append" /\ mu = None
    /\ ~closed /\ Cardinality(transports) < Capacity
    /\ transports' = transports \cup {hold[p]}
    /\ Goto(p, "open")
    /\ UNCHANGED <<closed, creating, minT, maxT, mu, flagVars, active, hold,
                   cur, leaked>>

-----------------------------------------------------------------------------
(* openTunnel / openUDPTunnel, and the stream they return. *)

\* Fault: the early return of openTunnel keeps the slot.
OpenRefusedKeepsSlot(p) ==
    /\ p \in Dialers /\ pc[p] = "open" /\ hold[p] \in shut \cup draining
    /\ Goto(p, "idle") /\ Take(p, None)
    /\ UNCHANGED <<poolVars, mu, flagVars, active, cur, leaked>>

\* Closed or draining since it was reserved: the dial fails and gives the
\* slot back.
OpenRefused(p) ==
    /\ p \in Dialers /\ pc[p] = "open" /\ hold[p] \in shut \cup draining
    /\ AddStream(hold[p], -1)
    /\ Goto(p, "idle") /\ Take(p, None)
    /\ UNCHANGED <<poolVars, mu, flagVars, cur, leaked>>

OpenStart(p) ==
    /\ p \in Dialers /\ pc[p] = "open" /\ hold[p] \notin shut \cup draining
    /\ Goto(p, "trip")
    /\ UNCHANGED <<poolVars, mu, flagVars, active, hold, cur, leaked>>

\* RoundTrip answered 200.
TripOk(p) ==
    /\ pc[p] = "trip" /\ hold[p] \in conns
    /\ Goto(p, "stream")
    /\ UNCHANGED <<poolVars, mu, flagVars, active, hold, cur, leaked>>

\* Any other status, a stream error, or the caller's context ended.
TripFailed(p) ==
    /\ pc[p] = "trip"
    /\ AddStream(hold[p], -1)
    /\ Goto(p, "idle") /\ Take(p, None)
    /\ UNCHANGED <<poolVars, mu, flagVars, cur, leaked>>

\* isOuterDeadErr: closeFromError flips t.closed, then the slot is released.
TripDead(p) ==
    /\ pc[p] = "trip"
    /\ shut' = shut \cup {hold[p]}
    /\ AddStream(hold[p], -1)
    /\ Goto(p, "idle") /\ Take(p, None)
    /\ UNCHANGED <<poolVars, mu, draining, conns, cur, leaked>>

\* h2StreamRWC.Close / fastClose: the counter is decremented; only the
\* goroutine that saw it reach zero goes on to look at t.draining.
StreamClose(p) ==
    /\ pc[p] = "stream"
    /\ AddStream(hold[p], -1)
    /\ IF active[hold[p]] = 1
         THEN Goto(p, "lastcheck") /\ UNCHANGED hold
         ELSE Goto(p, "idle") /\ Take(p, None)
    /\ UNCHANGED <<poolVars, mu, flagVars, cur, leaked>>

LastStreamGone(p) ==
    /\ pc[p] = "lastcheck"
    /\ IF hold[p] \in draining
         THEN Close({hold[p]}) ELSE UNCHANGED <<shut, conns>>
    /\ Goto(p, "idle") /\ Take(p, None)
    /\ UNCHANGED <<poolVars, mu, draining, active, cur, leaked>>

\* bundleRefreshLoop: fetchAndApplyBundle returns, and the slot getTransport
\* reserved for it is not given back.
FetchDone(p) ==
    /\ p \in Refreshers /\ pc[p] = "open"
    /\ Abandon(hold[p])
    /\ Goto(p, "idle") /\ Take(p, None)
    /\ UNCHANGED <<poolVars, mu, flagVars, active, cur>>

-----------------------------------------------------------------------------
(* topUp, cleanup, resize and close. *)

\* A tick of reaperLoop, which stops once the pool is closed.
ReaperTick ==
    /\ pc[Reaper] = "idle" /\ ~closed
    /\ Goto(Reaper, "top")
    /\ UNCHANGED <<poolVars, mu, flagVars, active, hold, cur, leaked>>

\* topUp has nothing left to do.
TopUpDone(p) ==
    /\ pc[p] = "top" /\ mu = None
    /\ closed \/ Cardinality(Usable) >= minT \/ AtCapacity
    /\ Goto(p, "idle")
    /\ UNCHANGED <<poolVars, mu, flagVars, active, hold, cur, leaked>>

TopUpCreate(p) ==
    /\ pc[p] = "top" /\ mu = None
    /\ ~closed /\ Cardinality(Usable) < minT /\ ~AtCapacity
    /\ creating' = creating + 1
    /\ Goto(p, "topcreating")
    /\ UNCHANGED <<transports, closed, minT, maxT, mu, flagVars, active, hold,
                   cur, leaked>>

\* Fault: the surplus transport is dropped without being closed.
TopUpRefusedNoClose(p) ==
    /\ pc[p] = "topappend" /\ mu = None
    /\ closed \/ Cardinality(transports) >= Capacity
    /\ Goto(p, "idle") /\ Take(p, None)
    /\ UNCHANGED <<poolVars, mu, flagVars, active, cur, leaked>>

TopUpRefused(p) ==
    /\ pc[p] = "topappend" /\ mu = None
    /\ closed \/ Cardinality(transports) >= Capacity
    /\ Close({hold[p]})
    /\ Goto(p, "idle") /\ Take(p, None)
    /\ UNCHANGED <<poolVars, mu, draining, active, cur, leaked>>

\* Fault: p.closed is not tested again after the dial.
TopUpAppendIgnoresClose(p) ==
    /\ pc[p] = "topappend" /\ mu = None
    /\ Cardinality(transports) < Capacity
    /\ transports' = transports \cup {hold[p]}
    /\ Goto(p, "top") /\ Take(p, None)
    /\ UNCHANGED <<closed, creating, minT, maxT, mu, flagVars, active, cur,
                   leaked>>

TopUpAppend(p) ==
    /\ pc[p] = "topappend" /\ mu = None
    /\ ~closed /\ Cardinality(transports) < Capacity
    /\ transports' = transports \cup {hold[p]}
    /\ Goto(p, "top") /\ Take(p, None)
    /\ UNCHANGED <<closed, creating, minT, maxT, mu, flagVars, active, cur,
                   leaked>>

\* cleanup: closed transports leave the pool; drained ones, and streamless
\* ones that have been idle for longer than idleTimeout, are closed first.
Cleanup ==
    /\ mu = None /\ ~closed
    /\ \E idle \in SUBSET {t \in transports : active[t] = 0} :
         /\ Close(Spent \cup idle)
         /\ transports' = transports \ (Spent \cup idle)
    /\ UNCHANGED <<closed, creating, minT, maxT, mu, draining, active, pc, hold,
                   cur, leaked>>

\* enforceMaxTransportsLocked: `keep' are the usable transports within the new
\* cap; of the others the streamless are closed, the busy begin to drain.
EnforceMax(newMax) ==
    \E keep \in SUBSET Usable :
       LET excess == Usable \ keep
           empty == {t \in excess : active[t] = 0}
       IN  /\ Cardinality(keep) <= newMax
           /\ excess # {} => Cardinality(keep) = newMax
           /\ Close(empty)
           /\ draining' = draining \cup (excess \ empty)
           /\ transports' = transports \ (shut \cup empty)

\* resize, called when a bundle is applied.  Growing starts a topUp goroutine.
Resize(newMin, newMax) ==
    /\ mu = None
    /\ newMin # minT \/ newMax # maxT
    /\ minT' = newMin /\ maxT' = newMax
    /\ IF newMax < maxT
         THEN EnforceMax(newMax)
         ELSE UNCHANGED <<transports, flagVars>>
    /\ IF newMin > minT \/ newMax > maxT
         THEN \E h \in Helpers : pc[h] = "idle" /\ Goto(h, "top")
         ELSE UNCHANGED pc
    /\ UNCHANGED <<closed, creating, mu, active, hold, cur, leaked>>

ApplyBounds ==
    \E b \in PushedBounds : Resize(NormMin(b[1]), NormMax(b[1], b[2]))

\* Fault: the list is emptied without closing its transports.
PoolCloseForgets ==
    /\ mu = None /\ ~closed
    /\ closed' = TRUE
    /\ transports' = {}
    /\ UNCHANGED <<creating, minT, maxT, mu, flagVars, active, pc, hold, cur,
                   leaked>>

\* connPool.close, from Client.Close.
PoolClose ==
    /\ mu = None /\ ~closed
    /\ closed' = TRUE
    /\ Close(transports) /\ transports' = {}
    /\ UNCHANGED <<creating, minT, maxT, mu, draining, active, pc, hold, cur,
                   leaked>>

-----------------------------------------------------------------------------
GetStep(p) ==
    \/ GetStart(p) \/ GetClosed(p)
    \/ ReserveCheck(p) \/ ReserveClaim(p) \/ ReserveRetry(p)
    \/ GetCancelled(p) \/ GetBackpressure(p) \/ GetInlineCleanup(p)
    \/ GetCreate(p) \/ CreateOk(p) \/ CreateFailed(p)
    \/ FreshReserve(p) \/ FreshRejected(p)
    \/ AppendRefused(p) \/ AppendOk(p)

TunnelStep(p) ==
    \/ OpenRefused(p) \/ OpenStart(p)
    \/ TripOk(p) \/ TripFailed(p) \/ TripDead(p)
    \/ StreamClose(p) \/ LastStreamGone(p)
    \/ FetchDone(p)

TopUpStep(p) ==
    \/ TopUpDone(p) \/ TopUpCreate(p)
    \/ CreateOk(p) \/ CreateFailed(p)
    \/ TopUpRefused(p) \/ TopUpAppend(p)

TransportStep(t) == MarkDraining(t) \/ GracefulDrainClose(t) \/ ErrorTeardown(t)

Next ==
    \/ \E p \in Getters : GetStep(p) \/ TunnelStep(p)
    \/ \E p \in TopUps : TopUpStep(p)
    \/ \E t \in Transports : TransportStep(t)
    \/ ReaperTick \/ Cleanup \/ ApplyBounds \/ PoolClose

Spec == Init /\ [][Next]_vars

\* Fairness.  A started goroutine keeps running: a dial, handshake or CONNECT
\* returns (every one carries a context or a timeout), and p.mu is a
\* starvation-free sync.Mutex, so the tick of cleanupLoop gets its turn.
\* Nothing obliges an application to dial, or to close a stream.
GetRuns(p) == GetStep(p) /\ pc[p] # "idle"
TunnelRuns(p) == TunnelStep(p) /\ pc[p] # "stream"

Fairness ==
    /\ \A p \in Getters : WF_vars(GetRuns(p)) /\ WF_vars(TunnelRuns(p))
    /\ \A p \in TopUps : WF_vars(TopUpStep(p))
    /\ \A t \in Transports :
         WF_vars(GracefulDrainClose(t)) /\ WF_vars(ErrorTeardown(t))
    /\ SF_vars(Cleanup)

FairSpec == Spec /\ Fairness

-----------------------------------------------------------------------------
(* Properties. *)

\* The values each field of connPool and h2Transport, and each goroutine's
\* local state, can take.
TypeOK ==
    /\ transports \subseteq Transports
    /\ closed \in BOOLEAN
    /\ creating \in Int
    /\ minT \in Nat \ {0} /\ maxT \in Nat \ {0}
    /\ mu \in Procs \cup {None}
    /\ shut \subseteq Transports
    /\ draining \subseteq Transports
    /\ conns \subseteq Transports
    /\ active \in [Transports -> Int]
    /\ pc \in [Procs -> Places]
    /\ hold \in [Procs -> Transports \cup {None}]
    /\ cur \in Int
    /\ leaked \in [Transports -> Nat]

\* The transports that can take new streams never outnumber maxTransports
\* (plus all but one of the rotation-overlap allowance), whatever
\* dials, top-ups, drains and live resizes interleave: the capacity is read
\* when a dial starts and again when its transport is appended.
UsableBound ==
    Cardinality(Usable) <= maxT + (IF Overlap > 0 THEN Overlap - 1 ELSE 0)

\* The goroutines that own one stream slot of t.
SlotHolders(t) == {p \in Procs : hold[p] = t /\ pc[p] \in SlotPlaces}

\* activeStreams is exactly the slots that goroutines own plus the slots that
\* were never given back; no error path of getTransport, openTunnel or the
\* stream's Close releases a slot twice or forgets one in any other way.
SlotAccounting ==
    \A t \in Transports :
        active[t] = Cardinality(SlotHolders(t)) + leaked[t]

\* With a stream cap, no transport carries more streams than the cap.
StreamCap ==
    MaxStreams > 0 => \A t \in Transports : active[t] <= MaxStreams

\* Every connection that is open and not already marked closed is reachable
\* for closing: it is in the pool, or in the hands of the goroutine that just
\* dialed it.  A pool closed or filled in the meantime orphans nothing.
NoOrphan ==
    \A t \in conns \ shut :
        \/ t \in transports
        \/ \E p \in Procs : hold[p] = t /\ pc[p] \in FreshPlaces

\* p.creating counts the goroutines that are inside createFunc.
CreatingCount ==
    creating = Cardinality({p \in Procs : pc[p] \in {"creating", "topcreating"}})

\* A closed pool is empty and stays so: dials that were in flight when close
\* ran never add their transport.
ClosedPoolEmpty == closed => transports = {}

\* The pool is within its bounds.
PoolBounded == UsableBound /\ StreamCap

\* Everything the pool handed out has an owner: stream slots, connections, and what
\* is left after close.
PoolOwned == SlotAccounting /\ NoOrphan /\ ClosedPoolEmpty

\* A transport leaves the pool only when it is closed already, carries no
\* stream, or the pool itself is being closed: cleanup, the inline cleanup and
\* a shrinking resize never cut a transport from under a stream.
RemovalSafe ==
    [][\A t \in transports \ transports' :
          t \in shut \/ active[t] = 0 \/ closed']_vars

\* Once the pool is closed, every connection is eventually closed for good,
\* the ones being dialed at that moment included.
CloseReleasesConns == <>[](closed => conns = {})

\* A draining transport whose last stream is gone eventually leaves the pool,
\* so it cannot occupy a slot of the capacity for ever.
DrainedLeavesPool ==
    []<>(\A t \in transports \cap draining : active[t] > 0)

\* What h2transport.go:351 says of streamCount ("returns the number of active
\* streams"): the counter is the number of goroutines that own a slot.  The
\* refresh loop's unreturned slots break it.
StreamCountExact ==
    \A t \in Transports \ shut : active[t] = Cardinality(SlotHolders(t))
=============================================================================
