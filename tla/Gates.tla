------------------------------- MODULE Gates --------------------------------
(***************************************************************************)
(* The four gates of a handshake: the server's replay guard, and the three *)
(* rate limiters: the client's handshakes per server, the server's         *)
(* handshakes per short id, and the masquerade forwards per source         *)
(* address.  They share nothing.                                           *)
(***************************************************************************)
EXTENDS Integers, Sequences, FiniteSets, SequencesExt

-----------------------------------------------------------------------------
(***************************************************************************)
(* The server's replay guard: the keys of the handshakes of the last       *)
(* ReplayWindow ticks, at most ReplayHardCap of them, with a heap that     *)
(* finds the oldest.                                                       *)
(*                                                                         *)
(* The heap is the set of its entries; of several keys of one tick it      *)
(* yields any, before stale entries of that tick, and equal entries are    *)
(* one.  checkV1 and check are CheckKey.                                   *)
(***************************************************************************)
CONSTANTS
    ReplayKeys,
    ReplayWindow,  \* ticks a key is remembered for
    ReplayHardCap,  \* keys remembered at most
    ReplayMaxTime  \* bound on the clock

ASSUME ReplayAssumption ==
    ReplayWindow \in Nat \ {0} /\ ReplayHardCap \in Nat \ {0} /\ ReplayMaxTime \in Nat

Never == -1

VARIABLES
    seenKeys,       \* key -> when it was inserted, Never if it is not in the map
    heap,       \* entries [t, key]
    lastReap,
    clock,
    accepted,   \* when CheckKey or Insert last took each key in (history)
    crowded,    \* whether the cap has pushed it out since (history)
    replayed    \* CheckKey has let a key through within its window (history)

replayVars == <<seenKeys, heap, lastReap, clock, accepted, crowded, replayed>>

Present(s) == {k \in ReplayKeys : s[k] # Never}
Put(s, k) == [j \in ReplayKeys |-> IF j = k THEN clock ELSE s[j]]
Entry(t, k) == [t |-> t, key |-> k]

ReplayInit ==
    /\ seenKeys = [k \in ReplayKeys |-> Never] /\ heap = {}
    /\ lastReap = Never /\ clock = 0
    /\ accepted = [k \in ReplayKeys |-> Never] /\ crowded = [k \in ReplayKeys |-> FALSE]
    /\ replayed = FALSE

Old(t) == clock - t > ReplayWindow

\* Fault: a key is forgotten one tick early.
ReapedSeenEarly == [k \in ReplayKeys |-> IF clock - seenKeys[k] >= ReplayWindow THEN Never ELSE seenKeys[k]]

ReapedSeen == [k \in ReplayKeys |-> IF Old(seenKeys[k]) THEN Never ELSE seenKeys[k]]

ReapedHeap == {e \in heap : ~Old(e.t)}

\* Insert reaps at most four times a window.
ReapThrottled == lastReap # Never /\ 4 * (clock - lastReap) <= ReplayWindow

\* evictOverCapLocked on a map s and heap h with one key too many at most (c is
\* the history that goes with them): pops down to the entry of the oldest key,
\* dropping those of keys inserted again.
EvictOverCap(s, h, c) ==
    IF Cardinality(Present(s)) <= ReplayHardCap
      THEN seenKeys' = s /\ heap' = h /\ crowded' = c
      ELSE \E e \in h :
             /\ s[e.key] = e.t
             /\ \A f \in h : s[f.key] = f.t => e.t <= f.t
             /\ seenKeys' = [s EXCEPT ![e.key] = Never]
             /\ heap' = {f \in h \ {e} : f.t >= e.t}
             /\ crowded' = [c EXCEPT ![e.key] = TRUE]

TakeIn(k, s, h) ==
    /\ EvictOverCap(Put(s, k), h \cup {Entry(clock, k)},
                    [crowded EXCEPT ![k] = FALSE])
    /\ accepted' = [accepted EXCEPT ![k] = clock]

\* A replay: refused, the map only reaped.
RefuseReplay(k) ==
    /\ ReapedSeen[k] # Never
    /\ seenKeys' = ReapedSeen /\ heap' = ReapedHeap /\ lastReap' = clock
    /\ UNCHANGED <<clock, accepted, crowded, replayed>>

Accept(k) ==
    /\ ReapedSeen[k] = Never
    /\ TakeIn(k, ReapedSeen, ReapedHeap)
    /\ replayed' = (replayed \/ (accepted[k] # Never /\ ~Old(accepted[k]) /\ ~crowded[k]))
    /\ lastReap' = clock /\ UNCHANGED clock

CheckKey(k) == Accept(k) \/ RefuseReplay(k)

\* Insert with the zero time: the key may be in the map already.
Insert(k) ==
    /\ IF ReapThrottled
         THEN TakeIn(k, seenKeys, heap) /\ UNCHANGED lastReap
         ELSE TakeIn(k, ReapedSeen, ReapedHeap) /\ lastReap' = clock
    /\ UNCHANGED <<clock, replayed>>

\* Seen
Look ==
    /\ seenKeys' = ReapedSeen /\ heap' = ReapedHeap /\ lastReap' = clock
    /\ UNCHANGED <<clock, accepted, crowded, replayed>>

ReplayTick ==
    /\ clock < ReplayMaxTime /\ clock' = clock + 1
    /\ UNCHANGED <<seenKeys, heap, lastReap, accepted, crowded, replayed>>

ReplayNext == Look \/ ReplayTick \/ \E k \in ReplayKeys : CheckKey(k) \/ Insert(k)

ReplaySpec == ReplayInit /\ [][ReplayNext]_replayVars

-----------------------------------------------------------------------------
\* A key checkKey lets through was not taken in during the last ReplayWindow ticks,
\* unless the cap has pushed it out since; and after every checkKey and Insert
\* the cap holds.
NoReplay == ~replayed /\ Cardinality(Present(seenKeys)) <= ReplayHardCap

-----------------------------------------------------------------------------
(***************************************************************************)
(* The client's limiter of handshakes: at most Limit of them per server in *)
(* any HandshakeWindow, waiters sleeping until the oldest one leaves the   *)
(* window.  The servers are kept in least-recently-used order, MapCap of   *)
(* them.                                                                   *)
(*                                                                         *)
(* A time is kept as its age in ticks, up to HandshakeWindow, where it     *)
(* stops to matter: the clock has no bound.                                *)
(***************************************************************************)
CONSTANTS
    Dialers,    \* goroutines that call Wait, again and again
    Servers,    \* servers
    Limit, HandshakeWindow, MapCap

ASSUME HandshakeAssumption ==
    Limit \in Nat \ {0} /\ HandshakeWindow \in Nat \ {0} /\ MapCap \in Nat \ {0}

VARIABLES
    events,     \* key -> ages of its reservations, <<>> if it has no entry
    serverLru,  \* the keys, most recently touched first
    dialer,     \* state of each dialer: [pc, key, wake], wake the ticks its
                \* timer has left
    granted,    \* key -> ages, below HandshakeWindow, of the handshakes let through
                \* since the key was last evicted (history)
    quiet       \* nobody calls Wait any more

handshakeVars == <<events, serverLru, dialer, granted, quiet>>

HandshakeInit ==
    /\ events = [k \in Servers |-> <<>>] /\ serverLru = <<>>
    /\ dialer = [d \in Dialers |-> [pc |-> "idle", key |-> CHOOSE k \in Servers : TRUE, wake |-> 0]]
    /\ granted = [k \in Servers |-> <<>>] /\ quiet = FALSE

EventsInWindow(ages) == SelectSeq(ages, LAMBDA a : a < HandshakeWindow)

\* touchLRULocked before its eviction.
Touched(k) == <<k>> \o SelectSeq(serverLru, LAMBDA j : j # k)

\* The new times of k are stored and k is touched; keys beyond the cap go.
Touch(k, times) ==
    /\ serverLru' = SubSeq(Touched(k), 1, IF Len(Touched(k)) > MapCap THEN MapCap ELSE Len(Touched(k)))
    /\ events' = [j \in Servers |-> IF j = k THEN times
                                 ELSE IF j \in ToSet(serverLru') THEN events[j] ELSE <<>>]

InWait(d) == dialer[d].pc \in {"ask", "sleep"}

Call(d, k) ==
    /\ ~InWait(d) /\ ~quiet
    /\ dialer' = [dialer EXCEPT ![d] = [pc |-> "ask", key |-> k, wake |-> 0]]
    /\ UNCHANGED <<events, serverLru, granted, quiet>>

Quiet == ~quiet /\ quiet' = TRUE /\ UNCHANGED <<events, serverLru, dialer, granted>>

\* reserveOrDelay finds room.
Reserve(d) ==
    LET k == dialer[d].key IN
    /\ dialer[d].pc = "ask" /\ Len(EventsInWindow(events[k])) < Limit
    /\ Touch(k, Append(EventsInWindow(events[k]), 0))
    /\ granted' = [j \in Servers |-> IF j = k THEN Append(granted[k], 0)
                                  ELSE IF j \in ToSet(serverLru') THEN granted[j] ELSE <<>>]
    /\ dialer' = [dialer EXCEPT ![d].pc = "passed"] /\ UNCHANGED quiet

\* Fault: an attempt that has to wait is counted too.
DelayCounts(d) ==
    LET k == dialer[d].key
        kept == EventsInWindow(events[k])
    IN /\ dialer[d].pc = "ask" /\ Len(kept) >= Limit
       /\ Touch(k, Append(Tail(kept), 0))
       /\ granted' = [j \in Servers |-> IF j = k \/ j \in ToSet(serverLru') THEN granted[j] ELSE <<>>]
       /\ \E jitter \in 0..1 :
            dialer' = [dialer EXCEPT ![d].pc = "sleep", ![d].wake = HandshakeWindow - kept[1] + jitter]
       /\ UNCHANGED quiet

\* reserveOrDelay finds none: the timer is set, up to a tick of jitter added.
Delay(d) ==
    LET k == dialer[d].key
        kept == EventsInWindow(events[k])
    IN /\ dialer[d].pc = "ask" /\ Len(kept) >= Limit
       /\ Touch(k, kept)
       /\ granted' = [j \in Servers |-> IF j = k \/ j \in ToSet(serverLru') THEN granted[j] ELSE <<>>]
       /\ \E jitter \in 0..1 :
            dialer' = [dialer EXCEPT ![d].pc = "sleep", ![d].wake = HandshakeWindow - kept[1] + jitter]
       /\ UNCHANGED quiet

\* Fault: the timer ends the wait.
WakePasses(d) ==
    /\ dialer[d].pc = "sleep" /\ dialer[d].wake = 0
    /\ granted' = [granted EXCEPT ![dialer[d].key] = Append(@, 0)]
    /\ dialer' = [dialer EXCEPT ![d].pc = "passed"]
    /\ UNCHANGED <<events, serverLru, quiet>>

Wake(d) ==
    /\ dialer[d].pc = "sleep" /\ dialer[d].wake = 0
    /\ dialer' = [dialer EXCEPT ![d].pc = "ask"]
    /\ UNCHANGED <<events, serverLru, granted, quiet>>

\* The context ends: ErrHandshakeRateLimited.
Cancel(d) ==
    /\ dialer[d].pc = "sleep"
    /\ dialer' = [dialer EXCEPT ![d].pc = "limited"]
    /\ UNCHANGED <<events, serverLru, granted, quiet>>

EventsOlder(ages) == [i \in DOMAIN ages |-> IF ages[i] < HandshakeWindow THEN ages[i] + 1 ELSE HandshakeWindow]

HandshakeTick ==
    /\ events' = [k \in Servers |-> EventsOlder(events[k])]
    /\ granted' = [k \in Servers |-> EventsInWindow(EventsOlder(granted[k]))]
    /\ dialer' = [d \in Dialers |-> [dialer[d] EXCEPT !.wake = IF @ > 0 THEN @ - 1 ELSE 0]]
    /\ UNCHANGED <<serverLru, quiet>>

WaitStep(d) == Reserve(d) \/ Delay(d) \/ Wake(d)

HandshakeNext ==
    \/ \E d \in Dialers : WaitStep(d) \/ Cancel(d) \/ \E k \in Servers : Call(d, k)
    \/ HandshakeTick \/ Quiet

HandshakeSpec == HandshakeInit /\ [][HandshakeNext]_handshakeVars

-----------------------------------------------------------------------------
\* At most Limit handshakes to a server in any HandshakeWindow, however many dialers
\* wake at once.
HandshakeRateKept == \A k \in Servers : Len(granted[k]) <= Limit

\* As long as somebody waits for a server handshakes to it are let through again and
\* again, and once nobody calls any more every waiter gets its turn.  (Wait keeps no
\* queue: while others keep calling one waiter may be overtaken for ever.)
WaiterServed ==
    /\ \A k \in Servers :
          []<>((\E d \in Dialers : InWait(d) /\ dialer[d].key = k) => 0 \in ToSet(granted[k]))
    /\ []<>(quiet => \A d \in Dialers : ~InWait(d))

-----------------------------------------------------------------------------
(***************************************************************************)
(* The server's limiter of handshakes per short id: a token bucket each,   *)
(* Capacity buckets at most, the least recently used one dropped first.    *)
(* The mutex is held for all of Allow, so a call is one step.  Tokens are  *)
(* counted in units of 1/Unit.                                             *)
(***************************************************************************)
CONSTANTS
    IDs,
    Burst,      \* tokens of a new bucket
    Rate,       \* units of a token refilled per tick
    Unit,       \* units of a token
    Capacity,
    IDMaxTime   \* bound on the clock

ASSUME ShortIDAssumption ==
    {Burst, Rate, Unit, Capacity} \subseteq Nat \ {0} /\ IDMaxTime \in Nat

VARIABLES
    tokens,     \* id -> units in its bucket
    lastFill,
    idLru,      \* ids that have a bucket, most recent first
    idClock,
    born,       \* when the bucket was made (history)
    passed,     \* handshakes let through since then (history)
    wasted      \* units refilled into the full bucket since then (history)

shortIDVars == <<tokens, lastFill, idLru, idClock, born, passed, wasted>>

ShortIDInit ==
    /\ tokens = [i \in IDs |-> 0] /\ lastFill = [i \in IDs |-> 0]
    /\ idLru = <<>> /\ idClock = 0
    /\ born = [i \in IDs |-> 0] /\ passed = [i \in IDs |-> 0]
    /\ wasted = [i \in IDs |-> 0]

Full == Burst * Unit

Grown(i) == tokens[i] + (idClock - lastFill[i]) * Rate

Refilled(i) == IF Grown(i) > Full THEN Full ELSE Grown(i)
Wasted(i) == [wasted EXCEPT ![i] = @ + Grown(i) - Refilled(i)]

\* evictLocked
Evicted(list) == IF Len(list) > Capacity THEN SubSeq(list, 1, Capacity) ELSE list

NewBucket(i) ==
    /\ i \notin ToSet(idLru)
    /\ idLru' = Evicted(<<i>> \o idLru)
    /\ tokens' = [tokens EXCEPT ![i] = Full - Unit]
    /\ lastFill' = [lastFill EXCEPT ![i] = idClock]
    /\ born' = [born EXCEPT ![i] = idClock] /\ passed' = [passed EXCEPT ![i] = 1]
    /\ wasted' = [wasted EXCEPT ![i] = 0]
    /\ UNCHANGED idClock

ToFront(i) == <<i>> \o SelectSeq(idLru, LAMBDA j : j # i)

Pass(i) ==
    /\ i \in ToSet(idLru) /\ Refilled(i) >= Unit
    /\ tokens' = [tokens EXCEPT ![i] = Refilled(i) - Unit]
    /\ lastFill' = [lastFill EXCEPT ![i] = idClock]
    /\ idLru' = ToFront(i)
    /\ passed' = [passed EXCEPT ![i] = @ + 1] /\ wasted' = Wasted(i)
    /\ UNCHANGED <<idClock, born>>

\* Fault: the refill of a refused call is lost.
RefuseIDDrops(i) ==
    /\ i \in ToSet(idLru) /\ Refilled(i) < Unit
    /\ lastFill' = [lastFill EXCEPT ![i] = idClock]
    /\ idLru' = ToFront(i)
    /\ UNCHANGED <<idClock, tokens, born, passed, wasted>>

RefuseID(i) ==
    /\ i \in ToSet(idLru) /\ Refilled(i) < Unit
    /\ tokens' = [tokens EXCEPT ![i] = Refilled(i)]
    /\ lastFill' = [lastFill EXCEPT ![i] = idClock]
    /\ idLru' = ToFront(i) /\ wasted' = Wasted(i)
    /\ UNCHANGED <<idClock, born, passed>>

Allow(i) == NewBucket(i) \/ Pass(i) \/ RefuseID(i)

IDTick ==
    /\ idClock < IDMaxTime /\ idClock' = idClock + 1
    /\ UNCHANGED <<tokens, lastFill, idLru, born, passed, wasted>>

ShortIDNext == IDTick \/ \E i \in IDs : Allow(i)

ShortIDSpec == ShortIDInit /\ [][ShortIDNext]_shortIDVars

-----------------------------------------------------------------------------
\* The bucket holds what was refilled since it was made less what passed: an id
\* passes no more than its burst and its refills, no more than its burst at
\* once, and a refused call costs it nothing.
IDRateKept ==
    \A i \in ToSet(idLru) :
      /\ tokens[i] \in 0..Full
      /\ tokens[i] = Full + (lastFill[i] - born[i]) * Rate - passed[i] * Unit - wasted[i]

-----------------------------------------------------------------------------
(***************************************************************************)
(* The limiter of masquerade forwards per source address: a sliding window *)
(* of probes, forwarded up to Soft of them, at random up to Hard, dropped  *)
(* after that.  The draw is a nondeterministic choice.  A probe's time is  *)
(* kept as its age in ticks, up to TTL + 1, where it stops to matter.      *)
(***************************************************************************)
CONSTANTS IPs, Soft, Hard, ProbeWindow, TTL

ASSUME MasqueradeAssumption ==
    Soft \in Nat /\ Hard \in Nat /\ Soft < Hard /\ ProbeWindow \in Nat \ {0} /\ TTL \in Nat

MaxProbes == 2 * Hard

VARIABLES
    probes,     \* ip -> ages of its recorded probes, oldest first; <<>> without bucket
    recent,     \* ages of its last Hard probes within the window (history)
    forwards    \* ages of its forwards within the window (history)

masqueradeVars == <<probes, recent, forwards>>

MasqueradeInit ==
    /\ probes = [i \in IPs |-> <<>>]
    /\ recent = [i \in IPs |-> <<>>] /\ forwards = [i \in IPs |-> <<>>]

ProbesInWindow(ages) == SelectSeq(ages, LAMBDA a : a <= ProbeWindow)
LastOf(ages, n) == IF Len(ages) > n THEN SubSeq(ages, Len(ages) - n + 1, Len(ages)) ELSE ages

Recorded(ip) == Append(LastOf(ProbesInWindow(probes[ip]), MaxProbes - 1), 0)

Record(ip) ==
    /\ probes' = [probes EXCEPT ![ip] = Recorded(ip)]
    /\ recent' = [recent EXCEPT ![ip] = LastOf(Append(@, 0), Hard)]

\* decide: Forward.  Beyond Soft by a draw, which at Hard is always lost.
Forward(ip) ==
    /\ Len(Recorded(ip)) < Hard
    /\ Record(ip) /\ forwards' = [forwards EXCEPT ![ip] = Append(@, 0)]

\* Fault: a dropped probe is not recorded.
DropUnrecorded(ip) ==
    /\ Len(Recorded(ip)) > Soft
    /\ recent' = [recent EXCEPT ![ip] = LastOf(Append(@, 0), Hard)]
    /\ UNCHANGED <<probes, forwards>>

\* decide: DropAfterJitter
Drop(ip) ==
    /\ Len(Recorded(ip)) > Soft
    /\ Record(ip) /\ UNCHANGED forwards

\* reapExpiredBuckets
Reap ==
    /\ probes' = [i \in IPs |-> IF probes[i] # <<>> /\ probes[i][Len(probes[i])] > TTL
                                  THEN <<>> ELSE probes[i]]
    /\ UNCHANGED <<recent, forwards>>

ProbesOlder(ages) == [i \in DOMAIN ages |-> IF ages[i] <= TTL THEN ages[i] + 1 ELSE ages[i]]

ProbeTick ==
    /\ probes' = [i \in IPs |-> ProbesOlder(probes[i])]
    /\ recent' = [i \in IPs |-> ProbesInWindow(ProbesOlder(recent[i]))]
    /\ forwards' = [i \in IPs |-> ProbesInWindow(ProbesOlder(forwards[i]))]

MasqueradeNext == Reap \/ ProbeTick \/ \E ip \in IPs : Forward(ip) \/ Drop(ip)

MasqueradeSpec == MasqueradeInit /\ [][MasqueradeNext]_masqueradeVars

-----------------------------------------------------------------------------
\* Dropped probes count: a source with Hard - 1 probes in the window is not
\* forwarded, though it may never have been.
FloodDropped ==
    [][\A ip \in IPs :
         Len(forwards'[ip]) > Len(forwards[ip]) => Len(recent[ip]) < Hard - 1]_masqueradeVars
=============================================================================
