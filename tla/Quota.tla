------------------------------- MODULE Quota --------------------------------
(***************************************************************************)
(* Byte accounting and the bandwidth cap of one user.                      *)
(*                                                                         *)
(* Every stream of the user calls Accounting.Add, which counts bytes in    *)
(* memory and takes them off a published budget.  Flush moves the counts   *)
(* to the database and republishes the budget; ReloadUsers republishes it  *)
(* too.  Crossing the cap closes the user's connections, from Add at once  *)
(* or from the hook after Flush.  Close flushes a last time.               *)
(*                                                                         *)
(* A step is what one goroutine does between two accesses to shared state. *)
(* Up and down bytes, and the session and outbound counters, which Flush   *)
(* treats alike, are one number.                                           *)
(***************************************************************************)
EXTENDS Integers

CONSTANTS
    Conns,      \* connections of the user
    Caps,       \* what bandwidth_cap may be; 0 is unlimited
    Deltas,     \* bytes one Add may report
    MaxBytes,   \* bound on the bytes in total
    MaxResets,  \* bound on the operator's quota resets
    Failures    \* what may fail: "commit" of a Flush, "query" of a hook

ASSUME QuotaAssumption ==
    /\ Caps \subseteq Nat /\ MaxBytes \in Nat /\ MaxResets \in Nat
    /\ Deltas \subseteq Nat \ {0} /\ Failures \subseteq {"commit", "query"}

Unlimited == -1
Flushers == {"ticker", "closer"}     \* Start's goroutine, Close
Publishers == Flushers \cup {"reloader"}

VARIABLES
    cap,        \* bandwidth_cap of the user's row
    counter,    \* the byte counter in memory
    batch,      \* bytes a Flush has swapped out and not committed
    stored,     \* bytes_up + bytes_down in the database
    baseline,   \* quota_baseline
    registry,   \* bytes used as of the last UserRegistry.Reload
    remaining,  \* the published budget
    fired,      \* overrunFired
    killing,    \* the overrun hook's goroutine has still to run
    conn,       \* state of each connection
    adding,     \* the Add each connection is in: [pc, n]
    pc,         \* where each publisher is
    seen,       \* the budget it has computed
    phase,      \* how far Close has come
    dbOpen,
    total,      \* bytes counted so far (history)
    resets      \* quota resets so far

vars == <<cap, counter, batch, stored, baseline, registry, remaining, fired, killing,
          conn, adding, pc, seen, phase, dbOpen, total, resets>>

accVars == <<counter, batch, stored, total>>
budgetVars == <<remaining, fired, killing>>
closeVars == <<phase, dbOpen>>

Used == IF stored > baseline THEN stored - baseline ELSE 0
Budget == IF cap = 0 THEN Unlimited ELSE IF Used > cap THEN 0 ELSE cap - Used
OverCap(used) == cap > 0 /\ used >= cap
Idle == [pc |-> "idle", n |-> 0]

Init ==
    /\ cap \in Caps
    /\ counter = 0 /\ batch = [t \in Flushers |-> 0]
    /\ stored = 0 /\ baseline = 0 /\ registry = 0
    /\ remaining = Budget /\ fired = FALSE /\ killing = FALSE
    /\ conn = [c \in Conns |-> "new"]
    /\ adding = [c \in Conns |-> Idle]
    /\ pc = [t \in Publishers |-> "idle"]
    /\ seen = [t \in Publishers |-> 0]
    /\ phase = "serving" /\ dbOpen = TRUE
    /\ total = 0 /\ resets = 0

-----------------------------------------------------------------------------
(* Connections.  A user over the cap is refused the data plane. *)

Admit(c) ==
    /\ conn[c] = "new" /\ phase = "serving"
    /\ conn' = [conn EXCEPT ![c] = IF OverCap(registry) THEN "refused" ELSE "admitted"]
    /\ UNCHANGED <<cap, accVars, baseline, registry, budgetVars, adding, pc, seen, closeVars, resets>>

Track(c) ==
    /\ conn[c] = "admitted"
    /\ conn' = [conn EXCEPT ![c] = "tracked"]
    /\ UNCHANGED <<cap, accVars, baseline, registry, budgetVars, adding, pc, seen, closeVars, resets>>

\* KillUser
Killed == [c \in Conns |-> IF conn[c] = "tracked" THEN "closed" ELSE conn[c]]

\* The overrun hook's goroutine.
Kill ==
    /\ killing
    /\ killing' = FALSE /\ conn' = Killed
    /\ UNCHANGED <<cap, accVars, baseline, registry, remaining, fired, adding, pc, seen, closeVars, resets>>

-----------------------------------------------------------------------------
(* Add *)

AddCount(c, n) ==
    /\ conn[c] = "tracked" /\ adding[c] = Idle /\ total + n <= MaxBytes
    /\ counter' = counter + n /\ total' = total + n
    /\ adding' = [adding EXCEPT ![c] = [pc |-> "load", n |-> n]]
    /\ UNCHANGED <<cap, batch, stored, baseline, registry, budgetVars, conn, pc, seen, closeVars, resets>>

\* Fault: the budget of an unlimited user is checked too.
AddLoadAlways(c) ==
    /\ adding[c].pc = "load"
    /\ adding' = [adding EXCEPT ![c].pc = "take"]
    /\ UNCHANGED <<cap, accVars, baseline, registry, budgetVars, conn, pc, seen, closeVars, resets>>

AddLoad(c) ==
    /\ adding[c].pc = "load"
    /\ adding' = IF remaining = Unlimited
                   THEN [adding EXCEPT ![c] = Idle]
                   ELSE [adding EXCEPT ![c].pc = "take"]
    /\ UNCHANGED <<cap, accVars, baseline, registry, budgetVars, conn, pc, seen, closeVars, resets>>

AddTake(c) ==
    /\ adding[c].pc = "take"
    /\ remaining' = remaining - adding[c].n
    /\ adding' = IF remaining' <= 0
                   THEN [adding EXCEPT ![c].pc = "fire"]
                   ELSE [adding EXCEPT ![c] = Idle]
    /\ UNCHANGED <<cap, accVars, baseline, registry, fired, killing, conn, pc, seen, closeVars, resets>>

\* fireOverrunOnce
AddFire(c) ==
    /\ adding[c].pc = "fire"
    /\ fired' = TRUE /\ killing' = (killing \/ ~fired)
    /\ adding' = [adding EXCEPT ![c] = Idle]
    /\ UNCHANGED <<cap, accVars, baseline, registry, remaining, conn, pc, seen, closeVars, resets>>

-----------------------------------------------------------------------------
(* Flush, by the ticker's goroutine and by Close. *)

MayFlush(t) ==
    /\ pc[t] = "idle"
    /\ IF t = "ticker" THEN phase # "stopped" ELSE phase = "flushing"

\* Where the caller is when Flush returns.
FlushReturns(t) == phase' = IF t = "closer" THEN "flushed" ELSE phase

\* Nothing to write: Flush returns.
FlushNothing ==
    /\ MayFlush("closer") /\ counter = 0
    /\ FlushReturns("closer")
    /\ UNCHANGED <<cap, accVars, baseline, registry, budgetVars, conn, adding, pc, seen, dbOpen, resets>>

FlushSwap(t) ==
    /\ MayFlush(t) /\ counter > 0
    /\ batch' = [batch EXCEPT ![t] = counter] /\ counter' = 0
    /\ pc' = [pc EXCEPT ![t] = "tx"]
    /\ UNCHANGED <<cap, stored, total, baseline, registry, budgetVars, conn, adding, seen, closeVars, resets>>

FlushCommit(t) ==
    /\ pc[t] = "tx" /\ dbOpen
    /\ stored' = stored + batch[t] /\ batch' = [batch EXCEPT ![t] = 0]
    /\ pc' = [pc EXCEPT ![t] = "read"]
    /\ UNCHANGED <<cap, counter, total, baseline, registry, budgetVars, conn, adding, seen, closeVars, resets>>

\* Fault: what was swapped out is dropped.
FlushFailDrops(t) ==
    /\ pc[t] = "tx" /\ ("commit" \in Failures \/ ~dbOpen)
    /\ batch' = [batch EXCEPT ![t] = 0]
    /\ pc' = [pc EXCEPT ![t] = "idle"]
    /\ FlushReturns(t)
    /\ UNCHANGED <<cap, counter, stored, total, baseline, registry, budgetVars, conn, adding, seen, dbOpen, resets>>

\* restore
FlushFail(t) ==
    /\ pc[t] = "tx" /\ ("commit" \in Failures \/ ~dbOpen)
    /\ counter' = counter + batch[t] /\ batch' = [batch EXCEPT ![t] = 0]
    /\ pc' = [pc EXCEPT ![t] = "idle"]
    /\ FlushReturns(t)
    /\ UNCHANGED <<cap, stored, total, baseline, registry, budgetVars, conn, adding, seen, dbOpen, resets>>

-----------------------------------------------------------------------------
(* The budget is read from the database and published: refreshRemaining in *)
(* the hook of Flush, and the loop of ReloadUsers.                         *)

PublishRead(t) ==
    /\ pc[t] = "read" /\ dbOpen
    /\ seen' = [seen EXCEPT ![t] = Budget]
    /\ pc' = [pc EXCEPT ![t] = "store"]
    /\ UNCHANGED <<cap, accVars, baseline, registry, budgetVars, conn, adding, closeVars, resets>>

PublishStore(t) ==
    /\ pc[t] = "store"
    /\ remaining' = seen[t] /\ seen' = [seen EXCEPT ![t] = 0]
    /\ pc' = [pc EXCEPT ![t] = "rearm"]
    /\ UNCHANGED <<cap, accVars, baseline, registry, fired, killing, conn, adding, closeVars, resets>>

PublishRearm(t) ==
    /\ pc[t] = "rearm"
    /\ fired' = FALSE
    /\ pc' = [pc EXCEPT ![t] = IF t = "reloader" THEN "idle" ELSE "check"]
    /\ UNCHANGED <<cap, accVars, baseline, registry, remaining, killing, conn, adding, seen, closeVars, resets>>

\* Fault: the hook leaves the connections to Add.
HookCheckSkips(t) ==
    /\ pc[t] = "check" /\ dbOpen
    /\ pc' = [pc EXCEPT ![t] = "idle"]
    /\ FlushReturns(t)
    /\ UNCHANGED <<cap, accVars, baseline, registry, budgetVars, conn, adding, seen, dbOpen, resets>>

\* The second query of the hook of Flush.
HookCheck(t) ==
    /\ pc[t] = "check" /\ dbOpen
    /\ conn' = IF OverCap(Used) THEN Killed ELSE conn
    /\ pc' = [pc EXCEPT ![t] = "idle"]
    /\ FlushReturns(t)
    /\ UNCHANGED <<cap, accVars, baseline, registry, budgetVars, adding, seen, dbOpen, resets>>

\* A query fails: the budget, or the connections, are left as they are.
HookFails(t) ==
    /\ pc[t] \in {"read", "check"} /\ ("query" \in Failures \/ ~dbOpen)
    /\ IF pc[t] = "read" /\ t # "reloader"
         THEN pc' = [pc EXCEPT ![t] = "check"] /\ UNCHANGED phase
         ELSE pc' = [pc EXCEPT ![t] = "idle"] /\ FlushReturns(t)
    /\ UNCHANGED <<cap, accVars, baseline, registry, budgetVars, conn, adding, seen, dbOpen, resets>>

ReloadUsers ==
    /\ pc["reloader"] = "idle" /\ phase = "serving"
    /\ registry' = Used
    /\ pc' = [pc EXCEPT !["reloader"] = "read"]
    /\ UNCHANGED <<cap, accVars, baseline, budgetVars, conn, adding, seen, closeVars, resets>>

\* The panel's Reset Quota.
ResetQuota ==
    /\ dbOpen /\ resets < MaxResets
    /\ baseline' = stored /\ resets' = resets + 1
    /\ UNCHANGED <<cap, accVars, registry, budgetVars, conn, adding, pc, seen, closeVars>>

-----------------------------------------------------------------------------
(* Server.Close *)

CloseConns ==
    /\ phase = "serving"
    /\ phase' = "waiting"
    /\ conn' = [c \in Conns |-> IF conn[c] \in {"admitted", "tracked"} THEN "closed" ELSE conn[c]]
    /\ UNCHANGED <<cap, accVars, baseline, registry, budgetVars, adding, pc, seen, dbOpen, resets>>

\* wg.Wait, then userdbCancel: the ticker's goroutine takes up its last Flush.
CloseWaited ==
    /\ phase = "waiting"
    /\ \A c \in Conns : adding[c] = Idle
    /\ pc["reloader"] = "idle"
    /\ phase' = "flushing"
    /\ UNCHANGED <<cap, accVars, baseline, registry, budgetVars, conn, adding, pc, seen, dbOpen, resets>>

CloseDB ==
    /\ phase = "flushed" /\ dbOpen
    /\ dbOpen' = FALSE
    /\ UNCHANGED <<cap, accVars, baseline, registry, budgetVars, conn, adding, pc, seen, phase, resets>>

\* The ticker's goroutine has run its last Flush.
TickerStops ==
    /\ phase = "flushed" /\ ~dbOpen /\ pc["ticker"] = "idle"
    /\ phase' = "stopped"
    /\ UNCHANGED <<cap, accVars, baseline, registry, budgetVars, conn, adding, pc, seen, dbOpen, resets>>

Close == CloseConns \/ CloseWaited \/ CloseDB \/ TickerStops

AddStep(c) == AddLoad(c) \/ AddTake(c) \/ AddFire(c)
Flush(t) == FlushSwap(t) \/ FlushCommit(t) \/ FlushFail(t) \/ HookCheck(t)
Publish(t) == PublishRead(t) \/ PublishStore(t) \/ PublishRearm(t) \/ HookFails(t)

Next ==
    \/ \E c \in Conns : Admit(c) \/ Track(c) \/ AddStep(c) \/ \E n \in Deltas : AddCount(c, n)
    \/ Kill
    \/ \E t \in Flushers : Flush(t)
    \/ FlushNothing
    \/ \E t \in Publishers : Publish(t)
    \/ ReloadUsers \/ ResetQuota \/ Close

Spec == Init /\ [][Next]_vars

\* Goroutines run on; the ticker of Start keeps ticking, and a transaction that
\* is retried for ever succeeds in the end.
Fairness ==
    /\ WF_vars(Kill)
    /\ WF_vars(\E c \in Conns : AddStep(c))
    /\ \A t \in Flushers : SF_vars(FlushCommit(t)) /\ WF_vars(FlushSwap(t) \/ HookCheck(t))
    /\ \A t \in Publishers : WF_vars(Publish(t))

FairSpec == Spec /\ Fairness

-----------------------------------------------------------------------------
\* The values of the counters, the budget and each goroutine's local state.
TypeOK ==
    /\ cap \in Nat
    /\ counter \in Nat /\ stored \in Nat /\ baseline \in Nat /\ registry \in Nat
    /\ total \in Nat /\ resets \in Nat /\ remaining \in Int
    /\ fired \in BOOLEAN /\ killing \in BOOLEAN /\ dbOpen \in BOOLEAN
    /\ batch \in [Flushers -> Nat] /\ seen \in [Publishers -> Int]
    /\ conn \in [Conns -> {"new", "refused", "admitted", "tracked", "closed"}]
    /\ adding \in [Conns -> [pc : {"idle", "load", "take", "fire"}, n : Nat]]
    /\ pc \in [Publishers -> {"idle", "tx", "read", "store", "rearm", "check"}]
    /\ phase \in {"serving", "waiting", "flushing", "flushed", "stopped"}

InFlight == batch["ticker"] + batch["closer"]

\* Only a Flush in its transaction holds bytes.
BatchInTx == \A t \in Flushers : pc[t] # "tx" => batch[t] = 0

\* Every byte counted is in memory, in a running Flush, or in the database, and
\* in one of them only: two Flushes at once, failures and restores included.
Conserved == total = counter + InFlight + stored

\* The strengthening UnlimitedNeverKilled needs: no budget but -1 is on its way
\* to be published, and no Add has got past the check.
Unbudgeted ==
    cap = 0 =>
      /\ remaining = Unlimited
      /\ \A t \in Publishers : pc[t] = "store" => seen[t] = Unlimited
      /\ \A c \in Conns : adding[c].pc \in {"idle", "load"}

\* A user without a cap is never cut off, though -1 stands for "no cap" in the
\* same variable that holds the budget.
UnlimitedNeverKilled ==
    cap = 0 => ~killing /\ ~fired /\ (phase = "serving" => \A c \in Conns : conn[c] # "closed")

\* Both: the accounts are exact, and only a cap cuts a user off.
QuotaSafe == Conserved /\ UnlimitedNeverKilled

\* When counted bytes take a user over the cap there comes a time when none of
\* their connections is open, whichever of Add and Flush notices.
OverCapDisconnected ==
    (cap > 0 /\ counter + InFlight > 0 /\ Used + counter + InFlight >= cap)
      ~> (resets > 0 \/ \A c \in Conns : conn[c] # "tracked")
=============================================================================
