-------------------------- MODULE OutboundRegistry --------------------------
(***************************************************************************)
(* The server's outbound registry (internal/outbounds/registry.go), the    *)
(* lazy upstream client of a tamizdat outbound (dialer.go) and the leases  *)
(* a balancer takes on its members (balancer.go).                          *)
(*                                                                         *)
(* A SIGHUP replaces the whole tag map while streams are dialling and      *)
(* copying.  A trackedDialer of an old generation is closed by whoever     *)
(* sees it retired and unleased first: the reload loop or the last lease.  *)
(*                                                                         *)
(* Abstractions.  A trackedDialer is named by its generation and tag.  The *)
(* kind of a tag is fixed: a row whose kind is edited is another tag.  The *)
(* order in which a balancer tries its members is left open here and is    *)
(* the subject of module Balancer.                                         *)
(***************************************************************************)
EXTENDS Integers, FiniteSets

CONSTANTS
    Tags,       \* tags an outbounds row may have
    Direct,     \* the tag "direct"
    Balancers,  \* tags of kind "balancer"
    Upstreams,  \* tags of kind "tamizdat": their dialers own a Client
    MembersOf,  \* the member tags of each balancer
    Configs,    \* <<rows, default tag>> pairs the database may hold
    Streams,    \* CONNECT streams, local-TUN flows, ...
    None,
    MaxGen      \* bound on the number of reloads

ASSUME RegistryAssumption ==
    /\ Direct \in Tags \ (Balancers \cup Upstreams)
    /\ Balancers \subseteq Tags /\ Upstreams \subseteq Tags \ Balancers
    /\ MembersOf \in [Balancers -> (SUBSET (Tags \ Balancers)) \ {{}}]
    /\ Configs \subseteq (SUBSET Tags) \X Tags
    /\ IsFiniteSet(Streams) /\ MaxGen \in Nat
    /\ None \notin (0..MaxGen) \X Tags

Tracked == (0..MaxGen) \X Tags

VARIABLES
    byTag,      \* r.byTag: the trackedDialers of the current generation
    defaultTag,  \* r.defaultTag
    gen,        \* generations published so far
    pending,    \* dialers swapped out, not yet reached by the retire loop
    active,     \* t.active
    retired,    \* t.retired
    closed,     \* t.closed
    closing,    \* t.closed set, t.dialer.Close() about to run
    client,     \* TamizdatDialer.client: "none", "open" or "closed"
    pc,         \* each stream's place in the code
    outer,      \* the trackedDialer whose lease Resolve returned
    inner,      \* the balancer member whose lease the stream holds
    todo        \* members the balancer has still to try

regVars == <<byTag, defaultTag, gen, pending>>
dialerVars == <<active, retired, closed, closing, client>>
vars == <<regVars, dialerVars, pc, outer, inner, todo>>

Places == {"idle", "leased", "pick", "check", "ensure", "dialing",
           "stream", "drop", "release"}
\* Places at which the stream is inside, or past, a dial through its carrier.
CarrierPlaces == {"ensure", "dialing", "stream"}

Tag(d) == d[2]
IsBalancer(d) == Tag(d) \in Balancers
\* The members of a balancer are the trackedDialers of its own generation.
Members(d) == {<<d[1], m>> : m \in MembersOf[Tag(d)]}
\* The dialer whose connection the stream uses.
Carrier(s) == IF inner[s] # None THEN inner[s] ELSE outer[s]

Goto(s, place) == pc' = [pc EXCEPT ![s] = place]

\* Row sets Reload accepts: direct is there, and a balancer's members too.
\* Any other leaves the registry as it was.
ValidRows(rows) ==
    /\ Direct \in rows
    /\ \A b \in rows \cap Balancers : MembersOf[b] \subseteq rows

\* NewServer has loaded the registry once, or given up.
Init ==
    /\ \E c \in Configs :
         /\ ValidRows(c[1]) /\ c[2] \in c[1]
         /\ byTag = {<<0, t>> : t \in c[1]} /\ defaultTag = c[2]
    /\ gen = 0
    /\ pending = {}
    /\ active = [d \in Tracked |-> 0]
    /\ retired = {} /\ closed = {} /\ closing = {}
    /\ client = [d \in Tracked |-> "none"]
    /\ pc = [s \in Streams |-> "idle"]
    /\ outer = [s \in Streams |-> None]
    /\ inner = [s \in Streams |-> None]
    /\ todo = [s \in Streams |-> {}]

\* t.closed is set; the wrapped dialer's Close runs after t.mu is dropped.  It
\* does something for a TamizdatDialer only.
MarkClosed(d) ==
    /\ closed' = closed \cup {d}
    /\ closing' = IF Tag(d) \in Upstreams THEN closing \cup {d} ELSE closing

-----------------------------------------------------------------------------
(* Registry.Reload and Registry.Close. *)

\* The new dialers are private until the map is swapped under r.mu.  Reloads
\* come from one goroutine: the retire loop of one ends before the next.
Reload(rows, dt) ==
    /\ pending = {} /\ gen < MaxGen
    /\ ValidRows(rows) /\ dt \in rows
    /\ gen' = gen + 1
    /\ pending' = byTag
    /\ byTag' = {<<gen + 1, t>> : t \in rows}
    /\ defaultTag' = dt
    /\ UNCHANGED <<dialerVars, pc, outer, inner, todo>>

\* Registry.Close, from the shutdown goroutine, whatever the reload does.
Close ==
    /\ byTag # {}
    /\ pending' = pending \cup byTag
    /\ byTag' = {} /\ defaultTag' = Direct
    /\ UNCHANGED <<gen, dialerVars, pc, outer, inner, todo>>

\* Fault: retire does not look at the leases.
RetireLeased(d) ==
    /\ d \in pending
    /\ pending' = pending \ {d}
    /\ retired' = retired \cup {d}
    /\ MarkClosed(d)
    /\ UNCHANGED <<byTag, defaultTag, gen, active, client, pc, outer, inner, todo>>

\* trackedDialer.retire, for one dialer of the loop.
Retire(d) ==
    /\ d \in pending
    /\ pending' = pending \ {d}
    /\ retired' = retired \cup {d}
    /\ IF d \in retired \/ active[d] > 0 \/ d \in closed
         THEN UNCHANGED <<closed, closing>>
         ELSE MarkClosed(d)
    /\ UNCHANGED <<byTag, defaultTag, gen, active, client, pc, outer, inner, todo>>

\* Fault: Close keeps the client.
CloseDialerKeepsClient(d) ==
    /\ d \in closing
    /\ closing' = closing \ {d}
    /\ UNCHANGED <<regVars, active, retired, closed, client, pc, outer, inner, todo>>

\* TamizdatDialer.Close: only one that built its client has it to close.
CloseDialer(d) ==
    /\ d \in closing
    /\ closing' = closing \ {d}
    /\ client' = [client EXCEPT ![d] = IF @ = "open" THEN "closed" ELSE @]
    /\ UNCHANGED <<regVars, active, retired, closed, pc, outer, inner, todo>>

-----------------------------------------------------------------------------
(* Leases. *)

Acquire(d) == active' = [active EXCEPT ![d] = @ + 1]

\* Fault: the last lease of a retired dialer does not close it.
ReleaseOnly(d) ==
    /\ active' = [active EXCEPT ![d] = IF @ > 0 THEN @ - 1 ELSE @]
    /\ UNCHANGED <<closed, closing>>

\* trackedDialer.release.
Release(d) ==
    /\ active' = [active EXCEPT ![d] = IF @ > 0 THEN @ - 1 ELSE @]
    /\ IF d \notin retired \/ active'[d] > 0 \/ d \in closed
         THEN UNCHANGED <<closed, closing>>
         ELSE MarkClosed(d)

\* The tag Resolve settles on: the default for an empty tag (None), direct for
\* a tag this generation does not have.
Resolved(tag) ==
    LET want == IF tag = None THEN defaultTag ELSE tag
    IN  IF \E d \in byTag : Tag(d) = want THEN want ELSE Direct

Lease(s, d) ==
    /\ outer' = [outer EXCEPT ![s] = d]
    /\ Acquire(d)
    /\ Goto(s, "leased")
    /\ UNCHANGED <<regVars, retired, closed, closing, client, inner, todo>>

\* Registry.Resolve.  With an empty map (after Close) it returns a private
\* direct dialer, which touches nothing here.
Resolve(s, tag) ==
    /\ pc[s] = "idle"
    /\ \E d \in byTag : Tag(d) = Resolved(tag) /\ Lease(s, d)

\* Registry.ResolveExact: no lease unless this very tag exists.
ResolveExact(s, tag) ==
    /\ pc[s] = "idle"
    /\ \E d \in byTag : Tag(d) = tag /\ Lease(s, d)

-----------------------------------------------------------------------------
(* A stream dials through its lease. *)

\* leasedDialer.DialContext / DialPacket on the lease Resolve returned.
DialLeased(s) ==
    /\ pc[s] = "leased"
    /\ todo' = [todo EXCEPT ![s] =
                  IF IsBalancer(outer[s]) THEN Members(outer[s]) ELSE {}]
    /\ Goto(s, IF outer[s] \in closed THEN "release"
               ELSE IF IsBalancer(outer[s]) THEN "pick" ELSE "ensure")
    /\ UNCHANGED <<regVars, dialerVars, outer, inner>>

\* Fault: the balancer dials its member without taking a lease on it.
PickMemberUnleased(s, m) ==
    /\ pc[s] = "pick" /\ m \in todo[s]
    /\ inner' = [inner EXCEPT ![s] = m]
    /\ todo' = [todo EXCEPT ![s] = @ \ {m}]
    /\ Goto(s, "check")
    /\ UNCHANGED <<regVars, dialerVars, outer>>

\* BalancerDialer.DialContext / DialPacket lease the next member ...
PickMember(s, m) ==
    /\ pc[s] = "pick" /\ m \in todo[s]
    /\ inner' = [inner EXCEPT ![s] = m]
    /\ todo' = [todo EXCEPT ![s] = @ \ {m}]
    /\ Acquire(m)
    /\ Goto(s, "check")
    /\ UNCHANGED <<regVars, retired, closed, closing, client, outer>>

\* ... and dial through that lease, which may be one on a closed dialer.
CheckMember(s) ==
    /\ pc[s] = "check"
    /\ Goto(s, IF inner[s] \in closed THEN "drop" ELSE "ensure")
    /\ UNCHANGED <<regVars, dialerVars, outer, inner, todo>>

\* allFailedError.
AllFailed(s) ==
    /\ pc[s] = "pick" /\ todo[s] = {}
    /\ Goto(s, "release")
    /\ UNCHANGED <<regVars, dialerVars, outer, inner, todo>>

\* TamizdatDialer.ensureClient: the client is built on the first dial.  The
\* TamizdatDialer is closed once its Close has run.
Ensure(s) ==
    /\ pc[s] = "ensure"
    /\ Tag(Carrier(s)) \in Upstreams => Carrier(s) \notin closed \ closing
    /\ client' = [client EXCEPT ![Carrier(s)] =
                    IF Tag(Carrier(s)) \in Upstreams THEN "open" ELSE @]
    /\ Goto(s, "dialing")
    /\ UNCHANGED <<regVars, active, retired, closed, closing, outer, inner, todo>>

\* The dial failed: no client, no connection, or the attempt timed out.
DialFailed(s) ==
    /\ pc[s] \in {"ensure", "dialing"}
    /\ Goto(s, IF inner[s] # None THEN "drop" ELSE "release")
    /\ UNCHANGED <<regVars, dialerVars, outer, inner, todo>>

DialOk(s) ==
    /\ pc[s] = "dialing"
    /\ Goto(s, "stream")
    /\ UNCHANGED <<regVars, dialerVars, outer, inner, todo>>

DropInner(s) ==
    /\ inner' = [inner EXCEPT ![s] = None]
    /\ Release(inner[s])
    /\ UNCHANGED <<regVars, retired, client, outer, todo>>

\* A failed member is released; the next one is tried unless the caller's
\* context is done.
NextMember(s) ==
    /\ pc[s] = "drop"
    /\ DropInner(s)
    /\ \E place \in {"pick", "release"} : Goto(s, place)

\* The stream ends: balancerConn.Close closes the connection and the member's
\* lease; the handler's deferred Close returns its own lease after that.
EndStream(s) ==
    /\ pc[s] = "stream"
    /\ Goto(s, "release")
    /\ IF inner[s] # None
         THEN DropInner(s)
         ELSE UNCHANGED <<regVars, dialerVars, outer, inner, todo>>

\* leasedDialer.Close, once.
ReleaseLease(s) ==
    /\ pc[s] = "release"
    /\ Release(outer[s])
    /\ outer' = [outer EXCEPT ![s] = None]
    /\ todo' = [todo EXCEPT ![s] = {}]
    /\ Goto(s, "idle")
    /\ UNCHANGED <<regVars, retired, client, inner>>

-----------------------------------------------------------------------------
StreamStep(s) ==
    \/ DialLeased(s)
    \/ \E m \in Tracked : PickMember(s, m)
    \/ CheckMember(s) \/ AllFailed(s)
    \/ Ensure(s) \/ DialFailed(s) \/ DialOk(s)
    \/ NextMember(s) \/ EndStream(s) \/ ReleaseLease(s)

Next ==
    \/ \E c \in Configs : Reload(c[1], c[2])
    \/ Close
    \/ \E d \in Tracked : Retire(d) \/ CloseDialer(d)
    \/ \E s \in Streams, tag \in Tags \cup {None} :
         Resolve(s, tag) \/ ResolveExact(s, tag)
    \/ \E s \in Streams : StreamStep(s)

Spec == Init /\ [][Next]_vars

\* The retire loop and Close run to their end, a dial ends by its timeout, and a handler
\* that is done returns its lease.  No stream is obliged to end: the handler of an HTTP/2
\* stream waits for both its copies, and its client may be silent for ever.
Fairness ==
    /\ WF_vars(\E d \in Tracked : Retire(d))
    /\ WF_vars(\E d \in Tracked : CloseDialer(d))
    /\ \A s \in Streams : WF_vars(pc[s] # "stream" /\ StreamStep(s))

-----------------------------------------------------------------------------
(* Properties. *)

\* The values the registry's maps, each dialer's counters and each stream's
\* leases can take.
TypeOK ==
    /\ byTag \subseteq Tracked /\ pending \subseteq Tracked
    /\ defaultTag \in Tags /\ gen \in 0..MaxGen
    /\ active \in [Tracked -> Nat]
    /\ retired \subseteq Tracked /\ closed \subseteq Tracked
    /\ closing \subseteq closed
    /\ client \in [Tracked -> {"none", "open", "closed"}]
    /\ pc \in [Streams -> Places]
    /\ outer \in [Streams -> Tracked \cup {None}]
    /\ inner \in [Streams -> Tracked \cup {None}]
    /\ todo \in [Streams -> SUBSET Tracked]

OuterHolders(d) == {s \in Streams : outer[s] = d}
InnerHolders(d) == {s \in Streams : inner[s] = d}

\* Every lease counted in t.active has a stream that will release it, on every
\* success and failure path of the dial.
LeaseCount ==
    \A d \in Tracked :
        active[d] = Cardinality(OuterHolders(d)) + Cardinality(InnerHolders(d))

\* "A SIGHUP reload cannot close the upstream tamizdat client while a stream is
\* still active": a dial in progress or a stream has its carrier open.
StreamsKeepClient ==
    \A s \in Streams : pc[s] \in CarrierPlaces =>
        /\ Carrier(s) \notin closed
        /\ pc[s] # "ensure" /\ Tag(Carrier(s)) \in Upstreams
             => client[Carrier(s)] = "open"

\* A fresh lease is never one on a retired dialer: the published generation is
\* open, and it has direct for every tag Resolve cannot find.
PublishedOpen ==
    /\ byTag \cap (retired \cup closed \cup pending) = {}
    /\ byTag # {} => \E d \in byTag : Tag(d) = Direct

\* A retired dialer without leases is closed, and a closed one is retired:
\* neither the retire loop nor the last release can both leave it to the other.
RetiredClosed ==
    /\ closed \subseteq retired
    /\ \A d \in retired : active[d] = 0 => d \in closed

\* What a reload with leases promises: the counts are exact, no stream loses its
\* client, and what is retired is closed with the last lease.
RegistrySafe == LeaseCount /\ StreamsKeepClient /\ RetiredClosed

\* A closed dialer stays closed, is closed once, and builds no client again.
ClosedForGood ==
    [][ /\ closed \subseteq closed'
        /\ (closing' \ closing) \cap closed = {}
        /\ \A d \in closed : client'[d] = "open" => client[d] = "open" ]_vars

\* A dialer that was swapped out is closed with its client in the end, unless a stream that
\* never ends holds a lease on it: neither a dial in flight nor the close outside t.mu
\* leaves one open behind.
OldGenerationClosed ==
    []<>(\A d \in retired :
            \/ d \in closed /\ client[d] # "open"
            \/ \E s \in Streams : pc[s] = "stream" /\ d \in {outer[s], inner[s]})
=============================================================================
