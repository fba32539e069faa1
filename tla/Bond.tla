-------------------------------- MODULE Bond --------------------------------
(***************************************************************************)
(* Bond-v2 runs of the wgturn server (internal/wgturn/bond.go).  A client  *)
(* opens many DTLS connections for one run.  One of them, the claimant,    *)
(* creates the run's bond: an identity session and one connected           *)
(* WireGuard socket.  The others join it as workers.  A new run of the     *)
(* same device takes the device over.  A bond dies of its last worker's    *)
(* departure, a takeover, a socket error or the server's shutdown, and     *)
(* these may all happen at once.                                           *)
(*                                                                         *)
(* Abstractions.  A bond is named by the connection that claimed it.  A    *)
(* (room, worker) pair is a slot.  The retries of a BIND_WAIT are          *)
(* stuttering steps up to the attempt that gives up.  The identity has a   *)
(* SessionID, so that OnIdentityDone is called.  emptyGen only tells a     *)
(* timer callback whether it is still current: a step that increments it   *)
(* takes the bond out of "firing", since a callback of an older generation *)
(* does nothing.                                                           *)
(***************************************************************************)
EXTENDS Integers, FiniteSets

CONSTANTS
    Conns,      \* DTLS connections, each handled by handleBondConn
    Claimants,  \* connections whose BIND has want_config
    Runs,
    RunOf,      \* the run_id a connection binds to
    DeviceOf,   \* the device of a run
    Slots,
    SlotOf,     \* the (room, worker) a connection asks for
    TokenOf,    \* the token a connection presents
    MaxActive,  \* bondMaxActiveAndClaims
    Faults,     \* of "socket", "cancel", "shutdown": the ones that occur
    None

ASSUME BondAssumption ==
    /\ IsFiniteSet(Conns) /\ Claimants \subseteq Conns
    /\ IsFiniteSet(Runs) /\ IsFiniteSet(Slots)
    /\ RunOf \in [Conns -> Runs] /\ SlotOf \in [Conns -> Slots]
    /\ DOMAIN DeviceOf = Runs /\ DOMAIN TokenOf = Conns
    /\ MaxActive \in Nat /\ None \notin Conns

VARIABLES
    bondClosed,  \* s.bondClosed, set by Shutdown
    sweeping,   \* Shutdown has still to empty the maps
    ctxErr,     \* the server's context is cancelled
    bonds,      \* s.bonds
    claims,     \* s.bondClaims: the connection that made the claim
    pc,         \* each connection's place in handleBondConn
    at,         \* the bond acquireBond returned
    granted,    \* connections whose claim was authenticated
    retiring,   \* the bonds a claimant is closing in retireDeviceBonds
    sockets,    \* claimants whose WireGuard socket is open
    phase,      \* how far a bond's close() has come
    bondDone,    \* bonds whose own context is cancelled
    roomSlots,      \* b.rooms: the worker that holds each slot
    workers,    \* b.workers
    workersCancelled,  \* workers whose context was cancelled
    armed,      \* bonds whose b.cleanupTimer is running
    firing,     \* bonds with a started callback of the current emptyGen
    doomed,     \* bonds a callback found empty and is about to remove
    watch,      \* bonds whose bctx.Done goroutine is waiting
    deleting,   \* bonds for which removeBond is past its close() call
    done        \* calls of OnIdentityDone for a claimant's identity

bondServerVars == <<bondClosed, sweeping, ctxErr, bonds, claims>>
bondConnVars == <<pc, at, granted, retiring>>
workerVars == <<roomSlots, workers, workersCancelled, armed, firing>>
cleanupVars == <<doomed, watch, deleting>>
bondVars == <<bondServerVars, bondConnVars, sockets, phase, bondDone, workerVars,
          cleanupVars, done>>

\* A claimant passes these in order; the others go from "lock" to "bound".
Places == {"bind", "lock", "auth", "granted", "retiring", "provision", "dial",
           "dialed", "commit", "lost", "publish", "bound", "attached", "gone"}
Claiming == {"auth", "granted", "retiring", "provision", "dial", "dialed", "commit"}

Device(c) == DeviceOf[RunOf[c]]
Committed == {b \in Conns : \E r \in Runs : bonds[r] = b}
Active == Cardinality({r \in Runs : bonds[r] # None})
          + Cardinality({r \in Runs : claims[r] # None})
Stopping == bondClosed \/ ctxErr
BondDone(b) == ctxErr \/ b \in bondDone

GotoBond(c, place) == pc' = [pc EXCEPT ![c] = place]

BondInit ==
    /\ bondClosed = FALSE /\ sweeping = FALSE /\ ctxErr = FALSE
    /\ bonds = [r \in Runs |-> None]
    /\ claims = [r \in Runs |-> None]
    /\ pc = [c \in Conns |-> "bind"]
    /\ at = [c \in Conns |-> None]
    /\ granted = {}
    /\ retiring = [c \in Conns |-> {}]
    /\ sockets = {}
    /\ phase = [b \in Conns |-> "none"]
    /\ bondDone = {}
    /\ roomSlots = [b \in Conns |-> [s \in Slots |-> None]]
    /\ workers = [b \in Conns |-> 0]
    /\ workersCancelled = {}
    /\ armed = {} /\ firing = {}
    /\ doomed = {} /\ watch = {} /\ deleting = {}
    /\ done = [c \in Conns |-> 0]

-----------------------------------------------------------------------------
(* serverBond.close: closing is set, then closeOnce runs its body once.  A *)
(* caller returns when the phase is "closed", whoever runs the body.       *)

CallClose(S) ==
    phase' = [b \in Conns |-> IF b \in S /\ phase[b] = "open" THEN "closing"
                              ELSE phase[b]]

\* b.cancel() and wgConn.Close().
CloseSocket(b) ==
    /\ phase[b] = "closing"
    /\ phase' = [phase EXCEPT ![b] = "sockclosed"]
    /\ bondDone' = bondDone \cup {b}
    /\ sockets' = sockets \ {b}
    /\ UNCHANGED <<bondServerVars, bondConnVars, workerVars, cleanupVars, done>>

\* Under b.mu: the timer is stopped and every worker cancelled.
CloseWorkers(b) ==
    /\ phase[b] = "sockclosed"
    /\ phase' = [phase EXCEPT ![b] = "swept"]
    /\ armed' = armed \ {b}
    /\ workersCancelled' = workersCancelled \cup ({roomSlots[b][s] : s \in Slots} \ {None})
    /\ UNCHANGED <<bondServerVars, bondConnVars, sockets, bondDone, roomSlots, workers,
                   firing, cleanupVars, done>>

CloseIdentity(b) ==
    /\ phase[b] = "swept"
    /\ phase' = [phase EXCEPT ![b] = "closed"]
    /\ done' = [done EXCEPT ![b] = @ + 1]
    /\ UNCHANGED <<bondServerVars, bondConnVars, sockets, bondDone, workerVars, cleanupVars>>

-----------------------------------------------------------------------------
(* acquireBond. *)

StartBind(c) ==
    /\ pc[c] = "bind"
    /\ GotoBond(c, IF Stopping THEN "gone" ELSE "lock")
    /\ UNCHANGED <<bondServerVars, at, granted, retiring, sockets, phase, bondDone,
                   workerVars, cleanupVars, done>>

\* The run has a bond: it is joined, its config read again, or its end awaited.
Join(c) ==
    LET b == bonds[RunOf[c]] IN
    /\ pc[c] = "lock" /\ b # None
    /\ IF TokenOf[b] = TokenOf[c] /\ phase[b] = "open"
         THEN at' = [at EXCEPT ![c] = b] /\ GotoBond(c, "bound")
         ELSE /\ \E place \in {"bind", "gone"} :
                   (TokenOf[b] # TokenOf[c] => place = "gone") /\ GotoBond(c, place)
              /\ UNCHANGED at
    /\ UNCHANGED <<bondServerVars, granted, retiring, sockets, phase, bondDone,
                   workerVars, cleanupVars, done>>

DeviceClaimed(c) == \E r \in Runs : claims[r] # None /\ DeviceOf[r] = Device(c)

MayClaim(c) ==
    /\ c \in Claimants
    /\ bonds[RunOf[c]] = None /\ claims[RunOf[c]] = None
    /\ Active < MaxActive
    /\ ~DeviceClaimed(c)

\* BIND_WAIT, or an error: a wrong token or no capacity.
Refuse(c) ==
    /\ pc[c] = "lock" /\ bonds[RunOf[c]] = None /\ ~MayClaim(c)
    /\ \E place \in {"bind", "gone"} : GotoBond(c, place)
    /\ UNCHANGED <<bondServerVars, at, granted, retiring, sockets, phase, bondDone,
                   workerVars, cleanupVars, done>>

ClaimRun(c) ==
    /\ pc[c] = "lock" /\ MayClaim(c)
    /\ claims' = [claims EXCEPT ![RunOf[c]] = c]
    /\ GotoBond(c, "auth")
    /\ UNCHANGED <<bondClosed, sweeping, ctxErr, bonds, at, granted, retiring, sockets,
                   phase, bondDone, workerVars, cleanupVars, done>>

\* finishBondClaim(key, nil) and the error reply.
Abandon(c) ==
    /\ claims' = [claims EXCEPT ![RunOf[c]] = None]
    /\ GotoBond(c, "gone")
    /\ UNCHANGED <<bondClosed, sweeping, ctxErr, bonds, at, retiring, phase, bondDone,
                   workerVars, cleanupVars>>

\* The deferred OnIdentityDone of a setup that failed after authentication.
AbandonIdentity(c) ==
    /\ Abandon(c)
    /\ done' = [done EXCEPT ![c] = @ + 1]
    /\ UNCHANGED granted

Authenticate(c) ==
    /\ pc[c] = "auth"
    /\ \/ Abandon(c) /\ UNCHANGED <<granted, sockets, done>>
       \/ /\ granted' = granted \cup {c}
          /\ GotoBond(c, "granted")
          /\ UNCHANGED <<bondServerVars, at, retiring, sockets, phase, bondDone,
                         workerVars, cleanupVars, done>>

OlderRuns(c) == {b \in Committed : Device(b) = Device(c) /\ RunOf[b] # RunOf[c]}

\* retireDeviceBonds: the older runs leave the map under bondsMu and are
\* closed after it is released.
Retire(c) ==
    /\ pc[c] = "granted"
    /\ \/ Stopping /\ AbandonIdentity(c) /\ UNCHANGED sockets
       \/ /\ ~Stopping
          /\ bonds' = [r \in Runs |-> IF bonds[r] \in OlderRuns(c) THEN None ELSE bonds[r]]
          /\ retiring' = [retiring EXCEPT ![c] = OlderRuns(c)]
          /\ CallClose(OlderRuns(c))
          /\ GotoBond(c, "retiring")
          /\ UNCHANGED <<bondClosed, sweeping, ctxErr, claims, at, granted, sockets, bondDone,
                         workerVars, cleanupVars, done>>

\* Fault: the claimant goes on while the retired bonds are closing.
RetireReturnsEarly(c) ==
    /\ pc[c] = "retiring"
    /\ retiring' = [retiring EXCEPT ![c] = {}]
    /\ GotoBond(c, "provision")
    /\ UNCHANGED <<bondServerVars, at, granted, sockets, phase, bondDone, workerVars,
                   cleanupVars, done>>

RetireReturns(c) ==
    /\ pc[c] = "retiring" /\ \A b \in retiring[c] : phase[b] = "closed"
    /\ retiring' = [retiring EXCEPT ![c] = {}]
    /\ GotoBond(c, "provision")
    /\ UNCHANGED <<bondServerVars, at, granted, sockets, phase, bondDone, workerVars,
                   cleanupVars, done>>

\* provisionBondDevice may fail; the server may have stopped meanwhile.
ProvisionBond(c) ==
    /\ pc[c] = "provision"
    /\ \/ AbandonIdentity(c) /\ UNCHANGED sockets
       \/ /\ ~Stopping
          /\ GotoBond(c, "dial")
          /\ UNCHANGED <<bondServerVars, at, granted, retiring, sockets, phase, bondDone,
                         workerVars, cleanupVars, done>>

DialWG(c) ==
    /\ pc[c] = "dial"
    /\ \/ AbandonIdentity(c) /\ UNCHANGED sockets
       \/ /\ sockets' = sockets \cup {c}
          /\ GotoBond(c, "dialed")
          /\ UNCHANGED <<bondServerVars, at, granted, retiring, phase, bondDone,
                         workerVars, cleanupVars, done>>

NewBond(c) ==
    /\ pc[c] = "dialed"
    /\ \/ Stopping /\ sockets' = sockets \ {c} /\ AbandonIdentity(c)
       \/ /\ ~Stopping
          /\ phase' = [phase EXCEPT ![c] = "open"]
          /\ GotoBond(c, "commit")
          /\ UNCHANGED <<bondServerVars, at, granted, retiring, sockets, bondDone,
                         workerVars, cleanupVars, done>>

\* Fault: finishBondClaim does not look at bondClosed.
CommitUnchecked(c) ==
    /\ pc[c] = "commit"
    /\ claims' = [claims EXCEPT ![RunOf[c]] = None]
    /\ IF bonds[RunOf[c]] = None
         THEN /\ bonds' = [bonds EXCEPT ![RunOf[c]] = c]
              /\ GotoBond(c, "publish") /\ UNCHANGED phase
         ELSE UNCHANGED bonds /\ CallClose({c}) /\ GotoBond(c, "lost")
    /\ UNCHANGED <<bondClosed, sweeping, ctxErr, at, granted, retiring, sockets, bondDone,
                   workerVars, cleanupVars, done>>

\* finishBondClaim(key, bond): the claim becomes a bond in one critical section.
Commit(c) ==
    /\ pc[c] = "commit"
    /\ claims' = [claims EXCEPT ![RunOf[c]] = None]
    /\ IF ~bondClosed /\ bonds[RunOf[c]] = None
         THEN /\ bonds' = [bonds EXCEPT ![RunOf[c]] = c]
              /\ GotoBond(c, "publish") /\ UNCHANGED phase
         ELSE UNCHANGED bonds /\ CallClose({c}) /\ GotoBond(c, "lost")
    /\ UNCHANGED <<bondClosed, sweeping, ctxErr, at, granted, retiring, sockets, bondDone,
                   workerVars, cleanupVars, done>>

\* The loser's bond.close() has returned; identityNeedsClose is still set.
Lost(c) ==
    /\ pc[c] = "lost" /\ phase[c] = "closed"
    /\ done' = [done EXCEPT ![c] = @ + 1]
    /\ LET w == bonds[RunOf[c]] IN
       IF ~bondClosed /\ w # None /\ TokenOf[w] = TokenOf[c]
         THEN at' = [at EXCEPT ![c] = w] /\ GotoBond(c, "bound")
         ELSE UNCHANGED at /\ GotoBond(c, "gone")
    /\ UNCHANGED <<bondServerVars, granted, retiring, sockets, phase, bondDone,
                   workerVars, cleanupVars>>

\* armEmptyCleanupLocked, under b.mu.
ArmEmptyCleanup(b, n) ==
    /\ workers' = [workers EXCEPT ![b] = n]
    /\ IF n = 0
         THEN armed' = armed \cup {b} /\ firing' = firing \ {b}
         ELSE UNCHANGED <<armed, firing>>

\* Fault: no cleanup is armed before the first worker joins.
PublishUnarmed(c) ==
    /\ pc[c] = "publish"
    /\ watch' = watch \cup {c}
    /\ at' = [at EXCEPT ![c] = c]
    /\ GotoBond(c, "bound")
    /\ UNCHANGED <<bondServerVars, granted, retiring, sockets, phase, bondDone,
                   workerVars, doomed, deleting, done>>

\* The bond is in the map; its cleanup is armed and its goroutines start.
Publish(c) ==
    /\ pc[c] = "publish"
    /\ ArmEmptyCleanup(c, workers[c])
    /\ watch' = watch \cup {c}
    /\ at' = [at EXCEPT ![c] = c]
    /\ GotoBond(c, "bound")
    /\ UNCHANGED <<bondServerVars, granted, retiring, sockets, phase, bondDone,
                   roomSlots, workersCancelled, doomed, deleting, done>>

-----------------------------------------------------------------------------
(* Workers. *)

\* The connection fails before its worker is added.
ReplyFails(c) ==
    /\ pc[c] = "bound"
    /\ GotoBond(c, "gone")
    /\ UNCHANGED <<bondServerVars, at, granted, retiring, sockets, phase, bondDone,
                   workerVars, cleanupVars, done>>

AddWorker(c) ==
    LET b == at[c]  s == SlotOf[c]  old == roomSlots[at[c]][SlotOf[c]] IN
    /\ pc[c] = "bound"
    /\ GotoBond(c, "attached")
    /\ roomSlots' = [roomSlots EXCEPT ![b][s] = c]
    /\ workers' = [workers EXCEPT ![b] = IF old = None THEN @ + 1 ELSE @]
    /\ workersCancelled' = IF old = None THEN workersCancelled ELSE workersCancelled \cup {old}
    /\ armed' = armed \ {b} /\ firing' = firing \ {b}
    /\ UNCHANGED <<bondServerVars, at, granted, retiring, sockets, phase, bondDone,
                   cleanupVars, done>>

\* Fault: the slot is freed whoever holds it, if anyone.
RemoveWorkerAny(c) ==
    LET b == at[c]  s == SlotOf[c] IN
    /\ pc[c] = "attached"
    /\ GotoBond(c, "gone")
    /\ roomSlots' = [roomSlots EXCEPT ![b][s] = None]
    /\ ArmEmptyCleanup(b, workers[b] - 1)
    /\ UNCHANGED <<bondServerVars, at, granted, retiring, sockets, phase, bondDone,
                   workersCancelled, cleanupVars, done>>

\* runWorker ends, for an error of its connection or a cancelled context.
RemoveWorker(c) ==
    LET b == at[c]  s == SlotOf[c] IN
    /\ pc[c] = "attached"
    /\ GotoBond(c, "gone")
    /\ IF roomSlots[b][s] = c
         THEN /\ roomSlots' = [roomSlots EXCEPT ![b][s] = None]
              /\ ArmEmptyCleanup(b, workers[b] - 1)
         ELSE UNCHANGED <<roomSlots, workers, armed, firing>>
    /\ UNCHANGED <<bondServerVars, at, granted, retiring, sockets, phase, bondDone,
                   workersCancelled, cleanupVars, done>>

\* Fault: the worker's context is a child of the server's.
WorkerCancelledByServer(c) == c \in workersCancelled \/ ctxErr

\* A worker whose context, a child of the bond's, is cancelled.
WorkerCancelled(c) == c \in workersCancelled \/ BondDone(at[c])

-----------------------------------------------------------------------------
(* The empty-bond timer, removeBond, failures and Shutdown. *)

TimerFires(b) ==
    /\ b \in armed
    /\ armed' = armed \ {b} /\ firing' = firing \cup {b}
    /\ UNCHANGED <<bondServerVars, bondConnVars, sockets, phase, bondDone, roomSlots, workers,
                   workersCancelled, cleanupVars, done>>

\* The callback's critical section.
TimerCheck(b) ==
    /\ b \in firing
    /\ firing' = firing \ {b}
    /\ doomed' = IF workers[b] = 0 THEN doomed \cup {b} ELSE doomed
    /\ UNCHANGED <<bondServerVars, bondConnVars, sockets, phase, bondDone, roomSlots, workers,
                   workersCancelled, armed, watch, deleting, done>>

\* removeBond calls close; the map entry stays until close has returned.
RemoveBond(b) ==
    /\ CallClose({b})
    /\ deleting' = deleting \cup {b}

TimerRemove(b) ==
    /\ b \in doomed
    /\ doomed' = doomed \ {b}
    /\ RemoveBond(b)
    /\ UNCHANGED <<bondServerVars, bondConnVars, sockets, bondDone, workerVars, watch, done>>

\* The goroutine that waits for bctx.Done.
ContextRemove(b) ==
    /\ b \in watch /\ BondDone(b)
    /\ watch' = watch \ {b}
    /\ RemoveBond(b)
    /\ UNCHANGED <<bondServerVars, bondConnVars, sockets, bondDone, workerVars, doomed, done>>

\* Fault: the entry of the run is deleted whichever bond it holds.
RemoveDeleteAny(b) ==
    /\ b \in deleting /\ phase[b] = "closed"
    /\ deleting' = deleting \ {b}
    /\ bonds' = [bonds EXCEPT ![RunOf[b]] = None]
    /\ UNCHANGED <<bondClosed, sweeping, ctxErr, claims, bondConnVars, sockets, phase, bondDone,
                   workerVars, doomed, watch, done>>

RemoveDelete(b) ==
    /\ b \in deleting /\ phase[b] = "closed"
    /\ deleting' = deleting \ {b}
    /\ bonds' = IF bonds[RunOf[b]] = b THEN [bonds EXCEPT ![RunOf[b]] = None] ELSE bonds
    /\ UNCHANGED <<bondClosed, sweeping, ctxErr, claims, bondConnVars, sockets, phase, bondDone,
                   workerVars, doomed, watch, done>>

\* runWGReader or runWGWriter met a socket error and calls b.cancel().
SocketError(b) ==
    /\ "socket" \in Faults
    /\ b \in watch /\ phase[b] = "open" /\ b \notin bondDone
    /\ bondDone' = bondDone \cup {b}
    /\ UNCHANGED <<bondServerVars, bondConnVars, sockets, phase, workerVars, cleanupVars, done>>

CancelServer ==
    /\ "cancel" \in Faults /\ ~ctxErr
    /\ ctxErr' = TRUE
    /\ UNCHANGED <<bondClosed, sweeping, bonds, claims, bondConnVars, sockets, phase, bondDone,
                   workerVars, cleanupVars, done>>

ShutdownBegin ==
    /\ "shutdown" \in Faults /\ ~bondClosed
    /\ bondClosed' = TRUE /\ sweeping' = TRUE
    /\ UNCHANGED <<ctxErr, bonds, claims, bondConnVars, sockets, phase, bondDone,
                   workerVars, cleanupVars, done>>

\* Both maps are emptied in one critical section; the bonds are closed after it.
ShutdownSweep ==
    /\ sweeping /\ sweeping' = FALSE
    /\ bonds' = [r \in Runs |-> None]
    /\ claims' = [r \in Runs |-> None]
    /\ CallClose(Committed)
    /\ UNCHANGED <<bondClosed, ctxErr, bondConnVars, sockets, bondDone, workerVars,
                   cleanupVars, done>>

-----------------------------------------------------------------------------
Setup(c) ==
    \/ StartBind(c) \/ Join(c) \/ Refuse(c) \/ ClaimRun(c) \/ Authenticate(c)
    \/ Retire(c) \/ RetireReturns(c) \/ ProvisionBond(c) \/ DialWG(c) \/ NewBond(c)
    \/ Commit(c) \/ Lost(c) \/ Publish(c)

Closing(b) == CloseSocket(b) \/ CloseWorkers(b) \/ CloseIdentity(b)

Cleanup(b) ==
    \/ TimerFires(b) \/ TimerCheck(b) \/ TimerRemove(b)
    \/ ContextRemove(b) \/ RemoveDelete(b)

BondNext ==
    \/ \E c \in Conns : \/ Setup(c) \/ ReplyFails(c) \/ AddWorker(c) \/ RemoveWorker(c)
                        \/ Closing(c) \/ Cleanup(c) \/ SocketError(c)
    \/ CancelServer \/ ShutdownBegin \/ ShutdownSweep

BondSpec == BondInit /\ [][BondNext]_bondVars

\* What goes on without a client: a bounded write ends "bound", a worker leaves
\* when its context is cancelled, and close() and the clean-up go on.
Goroutine(c) ==
    \/ ReplyFails(c) \/ AddWorker(c) \/ (WorkerCancelled(c) /\ RemoveWorker(c))
    \/ Closing(c) \/ Cleanup(c)

-----------------------------------------------------------------------------
\* Two runs of a device never have their WireGuard sockets open together: a
\* replacement opens its own after close() of the older bond has returned,
\* whoever of the timer, the context and the shutdown is closing it.
OneSocketPerDevice ==
    \A b, c \in sockets : Device(b) = Device(c) => b = c

\* A worker keeps its slot until it leaves or is replaced, and the one it
\* replaced cannot take the slot away when it leaves later; b.workers, which
\* decides whether the bond is empty, counts the held slots throughout.
WorkerKeepsSlot ==
    /\ \A c \in Conns :
         pc[c] = "attached" /\ c \notin workersCancelled => roomSlots[at[c]][SlotOf[c]] = c
    /\ \A b \in Conns : workers[b] = Cardinality({s \in Slots : roomSlots[b][s] # None})

\* An authenticated identity is ended when its setup failed or its bond closed.
IdentityEnded ==
    \A c \in granted :
      pc[c] \notin Claiming /\ phase[c] \in {"none", "closed"} => done[c] >= 1

\* A run's live bond stays in the map: neither a late removeBond of an older
\* bond of the run nor a lost claim takes it away.
LiveBondListed ==
    \A c \in Conns :
      phase[c] = "open" /\ pc[c] \notin Claiming /\ ~bondClosed => bonds[RunOf[c]] = c

\* What the map of bonds keeps while claims, takeovers, timers and removals of one
\* device cross each other.
BondSafe == OneSocketPerDevice /\ WorkerKeepsSlot /\ IdentityEnded /\ LiveBondListed

\* Again and again there is no committed bond without workers: the timer collects
\* each, also one whose claimant never became a worker.
OrphanCollected ==
    []<>(\A b \in Committed : ~(phase[b] = "open" /\ workers[b] = 0))

\* Once a bond is closed its workers go, one added after the sweep included.
WorkersLeave ==
    []<>(\A c \in Conns : ~(pc[c] = "attached" /\ phase[at[c]] = "closed"))

\* Once Shutdown has begun every socket is closed, and stays so.
ShutdownClosesSockets == <>[](bondClosed => sockets = {})
=============================================================================
