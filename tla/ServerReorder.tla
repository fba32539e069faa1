--------------------------- MODULE ServerReorder ----------------------------
(***************************************************************************)
(* packetReorder of the wgturn server (internal/wgturn/bond.go): the       *)
(* frames of one lane of a bond arrive over many TURN paths, in any order  *)
(* and more than once, and are released in order.  A missing frame holds   *)
(* the ones behind it back for at most `hold`.                             *)
(*                                                                         *)
(* push and flushExpired run under b.mu.  The loop of push takes a step    *)
(* per iteration, and nothing else happens while `pending` is set.  A      *)
(* payload is its sequence number.  gapSince is the time elapsed since, in *)
(* ticks of the writer's timer, counted up to Hold.                        *)
(*                                                                         *)
(* The model ends where b.mu is released.  The batch that push or          *)
(* flushExpired returned is put in wgWrite by enqueueWG after that, by the *)
(* worker or the writer that got it: two of them may do so in the other    *)
(* order, and a packet that finds wgWrite full is dropped there.           *)
(***************************************************************************)
EXTENDS Integers, FiniteSets

CONSTANTS
    Window,     \* bondReorderWindow
    Hold,       \* bondReorderHold, in ticks
    MaxSeq      \* bound on the sequence numbers

ASSUME ServerReorderAssumption ==
    Window \in Nat \ {0} /\ Hold \in Nat /\ MaxSeq \in Nat

Seqs == 1..MaxSeq
NotSet == -1        \* gapSince.IsZero()

VARIABLES
    next,       \* r.next
    slots,      \* r.slots: the sequence held at each index, 0 if nil
    buffered,   \* r.buffered
    gapSince,   \* r.gapSince
    pending,    \* the sequence being pushed, 0 if none
    received,   \* every sequence that has arrived (history)
    delivered   \* every sequence released by push or flushExpired (history)

vars == <<next, slots, buffered, gapSince, pending, received, delivered>>

Index == 0..(Window - 1)
Held == {slots[i] : i \in Index} \ {0}

Init ==
    /\ next = 1
    /\ slots = [i \in Index |-> 0]
    /\ buffered = 0
    /\ gapSince = NotSet
    /\ pending = 0
    /\ received = {} /\ delivered = {}

\* drain from n stops at the first sequence that is not held at its index.
Stops(sl, n) == {m \in n..(n + Window) : m = n + Window \/ sl[m % Window] # m}
DrainEnd(sl, n) == CHOOSE m \in Stops(sl, n) : \A k \in Stops(sl, n) : m <= k

\* The state after drain from n with slots sl and count b.
Drain(sl, b, n) ==
    LET e == DrainEnd(sl, n)  out == n..(e - 1) IN
    /\ slots' = [i \in Index |-> IF sl[i] \in out THEN 0 ELSE sl[i]]
    /\ buffered' = b - (e - n)
    /\ next' = e
    /\ delivered' = delivered \cup out

\* push: a frame that came too late is counted and dropped.
PushLate(n) ==
    /\ pending = 0
    /\ n = 0 \/ n < next
    /\ received' = received \cup {n}
    /\ UNCHANGED <<next, slots, buffered, gapSince, pending, delivered>>

Push(n) ==
    /\ pending = 0
    /\ n >= next
    /\ pending' = n
    /\ received' = received \cup {n}
    /\ UNCHANGED <<next, slots, buffered, gapSince, delivered>>

OverWindow == pending - next >= Window

Lowest == CHOOSE n \in Held : \A m \in Held : n <= m

\* Fault: window pressure gives the held frames up.
RelieveDiscards ==
    /\ pending # 0 /\ OverWindow
    /\ next' = pending /\ slots' = [i \in Index |-> 0] /\ buffered' = 0
    /\ UNCHANGED <<gapSince, pending, received, delivered>>

\* One iteration of the window-pressure loop.
Relieve ==
    /\ pending # 0 /\ OverWindow
    /\ IF Held = {}
         THEN next' = pending /\ UNCHANGED <<slots, buffered, delivered>>
         ELSE Drain(slots, buffered, IF Lowest > next THEN Lowest ELSE next)
    /\ UNCHANGED <<gapSince, pending, received>>

PushDuplicate ==
    /\ pending # 0 /\ ~OverWindow
    /\ slots[pending % Window] = pending
    /\ pending' = 0
    /\ UNCHANGED <<next, slots, buffered, gapSince, received, delivered>>

\* The frame is stored, over a stale one if need be, and what is contiguous
\* is released.
PushStore ==
    LET i == pending % Window
        b == buffered - (IF slots[i] = 0 THEN 0 ELSE 1) + 1
    IN
    /\ pending # 0 /\ ~OverWindow
    /\ slots[i] # pending
    /\ Drain([slots EXCEPT ![i] = pending], b, next)
    /\ gapSince' = IF buffered' = 0 THEN NotSet
                   ELSE IF gapSince = NotSet THEN 0 ELSE gapSince
    /\ pending' = 0
    /\ UNCHANGED received

Expired == buffered # 0 /\ gapSince # NotSet /\ gapSince >= Hold

\* Fault: the clock is stopped though frames remain.
FlushExpiredStops ==
    /\ pending = 0 /\ Expired /\ Held # {}
    /\ Drain(slots, buffered, IF Lowest > next THEN Lowest ELSE next)
    /\ gapSince' = NotSet
    /\ UNCHANGED <<pending, received>>

\* Fault: the lowest frame is released and the missing one still expected.
FlushExpiredKeepsNext ==
    /\ pending = 0 /\ Expired /\ Held # {}
    /\ slots' = [slots EXCEPT ![Lowest % Window] = 0]
    /\ buffered' = buffered - 1
    /\ delivered' = delivered \cup {Lowest}
    /\ gapSince' = IF buffered' > 0 THEN 0 ELSE NotSet
    /\ UNCHANGED <<next, pending, received>>

\* flushExpired, from a tick of runWGWriter.
FlushExpired ==
    /\ pending = 0 /\ Expired /\ Held # {}
    /\ Drain(slots, buffered, IF Lowest > next THEN Lowest ELSE next)
    /\ gapSince' = IF buffered' > 0 THEN 0 ELSE NotSet
    /\ UNCHANGED <<pending, received>>

\* Time passes; a tick of the writer's timer that finds nothing expired.
Tick ==
    /\ pending = 0 /\ ~Expired
    /\ gapSince' = IF gapSince = NotSet THEN NotSet ELSE gapSince + 1
    /\ UNCHANGED <<next, slots, buffered, pending, received, delivered>>

Next ==
    \/ \E n \in 0..MaxSeq : PushLate(n) \/ Push(n)
    \/ Relieve \/ PushDuplicate \/ PushStore \/ FlushExpired \/ Tick

Spec == Init /\ [][Next]_vars

-----------------------------------------------------------------------------
\* The values the fields of packetReorder can take.
TypeOK ==
    /\ next \in Nat \ {0}
    /\ slots \in [Index -> 0..MaxSeq]
    /\ buffered \in Int
    /\ gapSince \in Nat \cup {NotSet}
    /\ pending \in 0..MaxSeq
    /\ received \subseteq 0..MaxSeq /\ delivered \subseteq Seqs

\* A held frame sits at its own index, less than a window ahead of next.  The
\* "stale slot" of push therefore never exists, and no duplicate is missed.
SlotsInWindow ==
    \A i \in Index : slots[i] # 0 =>
      slots[i] % Window = i /\ next < slots[i] /\ slots[i] < next + Window

\* r.buffered, which decides whether there is anything to flush, is exact.
BufferedExact == buffered = Cardinality({i \in Index : slots[i] # 0})

\* A frame that arrived is released, held, being pushed, or came too late:
\* window pressure and duplicates lose none.
NothingLost ==
    [][\A n \in (Held \cup {pending}) \ {0} : n \in Held' \cup {pending'} \cup delivered']_vars

\* While a frame is held the clock of its gap runs; otherwise it is stopped.
GapTimed == pending = 0 => (gapSince = NotSet <=> Held = {})

Lane == INSTANCE OrderedLane

\* The lane's promise: what push and flushExpired release, in the order in which they
\* hold b.mu, was received and is in order.
InOrder == Lane!Spec

\* A held frame is released in the end, though the one before it never comes.
HeldDelivered == []<>(Held = {})
=============================================================================
