---------------------------- MODULE StreamPeaks -----------------------------
(***************************************************************************)
(* The counts of a user's live streams and their peaks, and the way a new  *)
(* peak takes to the database and to the user registry's copy of the row.  *)
(* With queued it goes through a channel to a goroutine that merges and    *)
(* writes every 250 ms, or by a goroutine of its own when the channel is   *)
(* full, so writes overtake one another.  Without queued, as for the relay *)
(* tracker, the handler writes it.  (The outbound tracker is the latter    *)
(* without a registry.)  A write may fail.  Meanwhile the registry         *)
(* reloads.                                                                *)
(***************************************************************************)
EXTENDS Naturals, Sequences, FiniteSets, SequencesExt

CONSTANTS
    Streams,    \* each opened and released once
    Persister,  \* the goroutine of startH2PeakPersister
    QueueCap,   \* capacity of h2PeakUpdates
    MaxPolicyReloads  \* bound on the registry's reloads

ASSUME PeaksAssumption ==
    /\ QueueCap \in Nat /\ MaxPolicyReloads \in Nat /\ Persister \notin Streams

Nets == {"tcp", "udp"}
Dims == Nets \cup {"total"}
Zero == [d \in Dims |-> 0]
Writers == Streams \cup {Persister}

VARIABLES
    queued,     \* whether this tracker's peaks go through the channel
    net,        \* stream -> its network, once it is open
    stream,     \* "new", "report" (has a new peak to report), "open", "released"
    live,       \* tcp, udp of the tracker
    peak,       \* peakTCP, peakUDP, peakTotal
    queue,
    writing,    \* writer -> the peak it has to write: a stream's own, or what the
                \* persister has merged; Zero if none
    direct,     \* streams whose peak is written by a goroutine of its own
    observing,  \* writer -> the peak it has written and not yet shown the registry
    db,         \* the peak columns of the user's row
    mirror,     \* the registry's copy of them
    rows,       \* what a reload of the registry has read
    policyReload,     \* "idle" or "read"
    policyReloads,
    persister,  \* "running" or "gone"
    lost        \* a write has failed

countVars == <<queued, net, live, peak>>
reloadVars == <<rows, policyReload, policyReloads>>
peakVars == <<countVars, stream, queue, writing, direct, observing, db, mirror, reloadVars,
          persister, lost>>

PeaksInit ==
    /\ queued \in BOOLEAN
    /\ net = [s \in Streams |-> "none"] /\ stream = [s \in Streams |-> "new"]
    /\ live = [n \in Nets |-> 0] /\ peak = Zero
    /\ writing = [w \in Writers |-> Zero] /\ observing = [w \in Writers |-> Zero]
    /\ queue = <<>> /\ direct = {} /\ db = Zero /\ mirror = Zero
    /\ rows = Zero /\ policyReload = "idle" /\ policyReloads = 0
    /\ persister = IF queued THEN "running" ELSE "gone"
    /\ lost = FALSE

Merge(p, q) == [d \in Dims |-> IF p[d] > q[d] THEN p[d] ELSE q[d]]

-----------------------------------------------------------------------------
(* The tracker *)

\* acquire: the peaks are raised under the lock; whether one has been decides
\* what the handler does next.
Acquire(s, n) ==
    LET opened == [live EXCEPT ![n] = @ + 1]
        risen == Merge(peak, [d \in Dims |-> IF d = "total" THEN opened["tcp"] + opened["udp"]
                                             ELSE opened[d]])
    IN /\ stream[s] = "new"
       /\ live' = opened /\ peak' = risen /\ net' = [net EXCEPT ![s] = n]
       /\ stream' = [stream EXCEPT ![s] = IF risen # peak THEN "report" ELSE "open"]
       /\ writing' = [writing EXCEPT ![s] = IF risen # peak THEN risen ELSE Zero]
       /\ UNCHANGED <<queued, queue, direct, observing, db, mirror, reloadVars, persister, lost>>

\* release, once per stream.
Release(s) ==
    /\ stream[s] = "open"
    /\ stream' = [stream EXCEPT ![s] = "released"]
    /\ live' = [live EXCEPT ![net[s]] = IF @ > 0 THEN @ - 1 ELSE 0]
    /\ UNCHANGED <<queued, net, peak, queue, writing, direct, observing, db, mirror, reloadVars,
                   persister, lost>>

-----------------------------------------------------------------------------
(* The way to the database *)

\* Fault: a peak that finds the channel full is dropped.
EnqueueDrops(s) ==
    /\ stream[s] = "report" /\ queued
    /\ queue' = IF Len(queue) < QueueCap THEN Append(queue, writing[s]) ELSE queue
    /\ writing' = [writing EXCEPT ![s] = Zero]
    /\ stream' = [stream EXCEPT ![s] = "open"]
    /\ UNCHANGED <<countVars, direct, observing, db, mirror, reloadVars, persister, lost>>

\* enqueueUserH2Peak; the channel is not closed when the persister goes.
Enqueue(s) ==
    /\ stream[s] = "report" /\ queued
    /\ IF Len(queue) < QueueCap
         THEN /\ queue' = Append(queue, writing[s])
              /\ writing' = [writing EXCEPT ![s] = Zero] /\ UNCHANGED direct
         ELSE direct' = direct \cup {s} /\ UNCHANGED <<queue, writing>>
    /\ stream' = [stream EXCEPT ![s] = "open"]
    /\ UNCHANGED <<countVars, observing, db, mirror, reloadVars, persister, lost>>

Receive ==
    /\ persister = "running" /\ observing[Persister] = Zero /\ queue # <<>>
    /\ writing' = [writing EXCEPT ![Persister] = Merge(@, Head(queue))]
    /\ queue' = Tail(queue)
    /\ UNCHANGED <<countVars, stream, direct, observing, db, mirror, reloadVars, persister, lost>>

\* The UPDATE: MAX in every column; it affects the row if one grows.
Written(p) == Merge(db, p)

\* A writer at its UPDATE: the persister at a tick or at its end, a goroutine
\* started by Enqueue, or the handler itself.
AtUpdate(w) ==
    /\ writing[w] # Zero /\ observing[w] = Zero
    /\ IF w = Persister THEN persister = "running" ELSE w \in direct \/ ~queued

\* The goroutine ends, the handler goes on.
Returns(w) ==
    /\ direct' = direct \ {w}
    /\ stream' = [s \in Streams |-> IF s = w /\ ~queued THEN "open" ELSE stream[s]]

\* persistUserH2Peak, persistUserH2RelayPeak: an error is logged, no more.
WriteFails(w) ==
    /\ AtUpdate(w)
    /\ writing' = [writing EXCEPT ![w] = Zero] /\ lost' = TRUE
    /\ Returns(w)
    /\ UNCHANGED <<countVars, queue, observing, db, mirror, reloadVars, persister>>

Write(w) ==
    /\ AtUpdate(w)
    /\ db' = Written(writing[w])
    /\ IF db' # db
         THEN /\ observing' = [observing EXCEPT ![w] = writing[w]]
              /\ UNCHANGED <<direct, stream>>
         ELSE Returns(w) /\ UNCHANGED observing
    /\ writing' = [writing EXCEPT ![w] = Zero]
    /\ UNCHANGED <<countVars, queue, mirror, reloadVars, persister, lost>>

\* ObserveH2Peak, ObserveH2RelayPeak
Observe(w) ==
    /\ observing[w] # Zero
    /\ mirror' = Merge(mirror, observing[w])
    /\ observing' = [observing EXCEPT ![w] = Zero] /\ Returns(w)
    /\ UNCHANGED <<countVars, queue, writing, db, reloadVars, persister, lost>>

\* The server's context has ended and what had been merged is written: the
\* persister returns, whatever the channel holds.
Finish ==
    /\ persister = "running"
    /\ writing[Persister] = Zero /\ observing[Persister] = Zero
    /\ persister' = "gone"
    /\ UNCHANGED <<countVars, stream, queue, writing, direct, observing, db, mirror, reloadVars, lost>>

-----------------------------------------------------------------------------
(* The registry's Reload: the rows are read, then take the place of the map *)

ReloadReads ==
    /\ policyReload = "idle" /\ policyReloads < MaxPolicyReloads
    /\ rows' = db /\ policyReload' = "read" /\ policyReloads' = policyReloads + 1
    /\ UNCHANGED <<countVars, stream, queue, writing, direct, observing, db, mirror, persister, lost>>

ReloadSwaps ==
    /\ policyReload = "read"
    /\ mirror' = rows /\ rows' = Zero /\ policyReload' = "idle"
    /\ UNCHANGED <<countVars, stream, queue, writing, direct, observing, db, policyReloads, persister, lost>>

PeaksNext ==
    \/ \E s \in Streams, n \in Nets : Acquire(s, n)
    \/ \E s \in Streams : Release(s) \/ Enqueue(s)
    \/ \E w \in Writers : Write(w) \/ WriteFails(w) \/ Observe(w)
    \/ Receive \/ Finish \/ ReloadReads \/ ReloadSwaps

PeaksSpec == PeaksInit /\ [][PeaksNext]_peakVars

-----------------------------------------------------------------------------
\* Where the peaks that are not in the row may be: the channel, and their writers.
Unwritten == ToSet(queue) \cup {writing[w] : w \in Writers}

\* No peak is lost between acquire and the row, whichever way it took and
\* whatever overtook it, unless the database refused a write: what the row lacks is
\* in the hands of a writer or in the channel.  (What is in the channel when the
\* persister returns stays there: it flushes only what it had merged.)  And the
\* registry never shows a peak the row does not have.
PeakArrives ==
    /\ ~lost => \A d \in Dims : \/ db[d] = peak[d]
                                \/ \E p \in Unwritten : p[d] = peak[d]
    /\ \A d \in Dims : mirror[d] <= db[d] /\ db[d] <= peak[d]
=============================================================================
