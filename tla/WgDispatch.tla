----------------------------- MODULE WgDispatch -----------------------------
(***************************************************************************)
(* The dispatcher of a wgturn client (internal/wgturnclient/dispatcher.go) *)
(* on its way up: packets of the local WireGuard socket are spread over    *)
(* the workers that are registered, by the bondScheduler of bondv2.go or,  *)
(* without a bond, in turn; the token bucket of shaper.go decides which    *)
(* worker may take one.  RunSession (session.go) registers a worker,       *)
(* empties its SendCh and unregisters it.                                  *)
(*                                                                         *)
(* Abstractions.  A packet is its size, small or bulk, and a frame its     *)
(* lane and sequence number.  The bucket is filled by the tick that refill *)
(* would compute at the next admit.  What comes down is in ClientReorder.  *)
(***************************************************************************)
EXTENDS Integers, Sequences, SequencesExt

CONSTANTS
    WorkerCount,  \* workers that come and go
    RoomOf,       \* RoomID of each
    SendCap,      \* cap(SendCh)
    Burst,        \* workerBurstBytes
    RefillStep,   \* tokens a bucket gains per tick
    SizeOf,       \* bytes of a "latency" and of a "bulk" packet
    MaxFrames,    \* bound: frames of a lane
    MaxCounts     \* bound: registrations

DispWorkers == 1..WorkerCount
Lanes == {"latency", "bulk"}

ASSUME DispatchAssumption ==
    /\ WorkerCount \in Nat \ {0} /\ RoomOf \in [DispWorkers -> Nat]
    /\ {SendCap, Burst, RefillStep} \subseteq Nat \ {0} /\ SizeOf \in [Lanes -> Nat \ {0}]
    /\ MaxFrames \in Nat /\ MaxCounts \in Nat

VARIABLES
    bondMode,    \* d.bondV2
    registered,  \* d.workers, in order
    place,       \* of each worker: "off", "counting", "up", "failed" or "leaving"
    note,        \* the generation and count a worker is about to report
    countGen,    \* countGeneration
    told,        \* lastNotified, and the count onWorkerCount was last given
    tokens,      \* of each worker's bucket
    sendCh,      \* of each worker
    seqs,        \* bondBulkSeq and bondLatencySeq
    wired,       \* frames written to the wire (history)
    sunk,        \* frames that went down with a session (history)
    rrIndex, roomRR, primary, workerRR   \* where the next search starts

counts == <<registered, place, note, countGen, told>>
turns == <<rrIndex, roomRR, primary, workerRR>>
flow == <<tokens, sendCh, seqs, wired, sunk>>
dispVars == <<bondMode, counts, turns, flow>>

DispRooms == {RoomOf[w] : w \in DispWorkers}
Nobody == [gen |-> 0, count |-> 0]

DispInit ==
    /\ bondMode \in BOOLEAN
    /\ registered = <<>> /\ place = [w \in DispWorkers |-> "off"]
    /\ note = [w \in DispWorkers |-> Nobody] /\ countGen = 0 /\ told = Nobody
    /\ tokens = [w \in DispWorkers |-> 0] /\ sendCh = [w \in DispWorkers |-> <<>>]
    /\ seqs = [l \in Lanes |-> 0] /\ wired = {} /\ sunk = {}
    /\ rrIndex = 0 /\ roomRR = 0 /\ primary = 0 /\ workerRR = [r \in DispRooms |-> 0]

-----------------------------------------------------------------------------
(* Workers come and go. *)

Counted(w, n) ==
    /\ countGen' = countGen + 1
    /\ note' = [note EXCEPT ![w] = [gen |-> countGen + 1, count |-> n]]

\* A new slot: a full bucket and an empty queue.
Register(w) ==
    /\ place[w] = "off" /\ countGen < MaxCounts
    /\ registered' = Append(registered, w) /\ Counted(w, Len(registered) + 1)
    /\ place' = [place EXCEPT ![w] = "counting"]
    /\ tokens' = [tokens EXCEPT ![w] = Burst] /\ sendCh' = [sendCh EXCEPT ![w] = <<>>]
    /\ UNCHANGED <<bondMode, told, turns, seqs, wired, sunk>>

\* The session is over; what its queue still holds goes with it.
Unregister(w) ==
    /\ place[w] \in {"up", "failed"}
    /\ LET left == SelectSeq(registered, LAMBDA v : v # w) IN
         registered' = left /\ Counted(w, Len(left))
    /\ place' = [place EXCEPT ![w] = "leaving"]
    /\ tokens' = [tokens EXCEPT ![w] = 0] /\ sendCh' = [sendCh EXCEPT ![w] = <<>>]
    /\ sunk' = sunk \cup ToSet(sendCh[w])
    /\ UNCHANGED <<bondMode, told, turns, seqs, wired>>

\* Fault: reports are passed on in whatever order they come.
NotifyAny(w) ==
    /\ place[w] \in {"counting", "leaving"}
    /\ told' = note[w] /\ note' = [note EXCEPT ![w] = Nobody]
    /\ place' = [place EXCEPT ![w] = IF @ = "counting" THEN "up" ELSE "off"]
    /\ UNCHANGED <<bondMode, registered, countGen, turns, flow>>

\* notifyWorkerCount, after d.mu is released: an overtaken report is dropped.
NotifyWorkerCount(w) ==
    /\ place[w] \in {"counting", "leaving"}
    /\ told' = IF note[w].gen <= told.gen THEN told ELSE note[w]
    /\ note' = [note EXCEPT ![w] = Nobody]
    /\ place' = [place EXCEPT ![w] = IF @ = "counting" THEN "up" ELSE "off"]
    /\ UNCHANGED <<bondMode, registered, countGen, turns, flow>>

\* The writer of the session, which starts when Register has returned, writes a
\* packet; or that fails, and the writer ends while the worker is still chosen.
WriterSends(w) ==
    /\ place[w] = "up" /\ sendCh[w] # <<>> /\ sendCh' = [sendCh EXCEPT ![w] = Tail(@)]
    /\ \/ wired' = wired \cup {Head(sendCh[w])} /\ UNCHANGED <<place, sunk>>
       \/ /\ sunk' = sunk \cup {Head(sendCh[w])} /\ place' = [place EXCEPT ![w] = "failed"]
          /\ UNCHANGED wired
    /\ UNCHANGED <<bondMode, registered, note, countGen, told, turns, tokens, seqs>>

TimePasses ==
    /\ \E w \in ToSet(registered) : tokens[w] < Burst
    /\ tokens' = [w \in DispWorkers |->
                    IF w \notin ToSet(registered) THEN tokens[w]
                    ELSE IF tokens[w] + RefillStep > Burst THEN Burst ELSE tokens[w] + RefillStep]
    /\ UNCHANGED <<bondMode, counts, turns, sendCh, seqs, wired, sunk>>

-----------------------------------------------------------------------------
(* A packet is dispatched, under d.mu. *)

\* Fault: bulk goes out whatever the bucket owes.
AdmitAlways(w, lane) == TRUE

\* admit: latency packets may run into debt, bulk may not.
Admit(w, lane) == lane = "latency" \/ tokens[w] >= SizeOf[lane]

Takes(w, lane) == Len(sendCh[w]) < SendCap /\ Admit(w, lane)

\* Fault: the search leaves the last one out.
FromShort(s, start) == [i \in 1..(Len(s) - 1) |-> s[((start + i - 1) % Len(s)) + 1]]

\* A search begins at a remembered index, taken modulo today's length.
From(s, start) == [i \in 1..Len(s) |-> s[((start + i - 1) % Len(s)) + 1]]

IndexIn(s, x) == CHOOSE i \in 1..Len(s) : s[i] = x

ActiveRooms == SetToSortSeq({RoomOf[w] : w \in ToSet(registered)}, LAMBDA a, b : a < b)
InRoom(r) == SelectSeq(registered, LAMBDA w : RoomOf[w] = r)

\* Latency packets stay with the primary room, bulk goes round the rooms.
RoomOrder(lane) ==
    From(ActiveRooms,
         IF lane = "bulk" THEN roomRR
         ELSE IF primary \in ToSet(ActiveRooms) THEN IndexIn(ActiveRooms, primary) - 1 ELSE 0)

\* choose and chooseInRoom: every worker in the order in which it is tried.
BondOrder(lane) ==
    FlattenSeq([i \in 1..Len(ActiveRooms) |->
                  From(InRoom(RoomOrder(lane)[i]), workerRR[RoomOrder(lane)[i]])])

Order(lane) == IF bondMode THEN BondOrder(lane) ELSE From(registered, rrIndex)

Choice(lane) == SelectSeq(Order(lane), LAMBDA w : Takes(w, lane))

\* Where the next search begins when w took the packet.
NextTurn(w, lane) ==
    LET r == RoomOf[w]
        n == Len(InRoom(r))
    IN  IF bondMode
          THEN /\ workerRR' = [workerRR EXCEPT ![r] = IndexIn(InRoom(r), w) % n]
               /\ primary' = IF lane = "latency" THEN r ELSE primary
               /\ roomRR' = IF lane = "latency" THEN roomRR
                            ELSE IndexIn(ActiveRooms, r) % Len(ActiveRooms)
               /\ UNCHANGED rrIndex
          ELSE /\ rrIndex' = IndexIn(registered, w) % Len(registered)
               /\ UNCHANGED <<workerRR, primary, roomRR>>

Dispatch(lane) ==
    /\ registered # <<>> /\ Choice(lane) # <<>> /\ seqs[lane] < MaxFrames
    /\ LET w == Choice(lane)[1]
           n == seqs[lane] + 1
       IN  /\ NextTurn(w, lane)
           /\ tokens' = [tokens EXCEPT ![w] = @ - SizeOf[lane]]
           /\ sendCh' = [sendCh EXCEPT ![w] = Append(@, <<lane, n>>)]
           /\ seqs' = [seqs EXCEPT ![lane] = n]
    /\ UNCHANGED <<bondMode, counts, wired, sunk>>

\* Fault: the sequence number of a frame that could not be encoded stays used.
EncodeFailsKeeping(lane) ==
    /\ bondMode /\ registered # <<>> /\ Choice(lane) # <<>> /\ seqs[lane] < MaxFrames
    /\ NextTurn(Choice(lane)[1], lane)
    /\ seqs' = [seqs EXCEPT ![lane] = @ + 1]
    /\ UNCHANGED <<bondMode, counts, tokens, sendCh, wired, sunk>>

\* encodeBondFrame refuses the packet: the sequence number and the tokens are
\* given back, but the scheduler has moved on.
EncodeFails(lane) ==
    /\ bondMode /\ registered # <<>> /\ Choice(lane) # <<>>
    /\ NextTurn(Choice(lane)[1], lane)
    /\ UNCHANGED <<bondMode, counts, flow>>

\* Nobody may take it: the packet is dropped.
ShaperDrop(lane) ==
    /\ registered # <<>> /\ Choice(lane) = <<>>
    /\ rrIndex' = IF bondMode THEN rrIndex ELSE (rrIndex + 1) % Len(registered)
    /\ UNCHANGED <<bondMode, counts, roomRR, primary, workerRR, flow>>

DispNext ==
    \/ \E w \in DispWorkers :
         Register(w) \/ Unregister(w) \/ NotifyWorkerCount(w) \/ WriterSends(w)
    \/ \E l \in Lanes : Dispatch(l) \/ EncodeFails(l) \/ ShaperDrop(l)
    \/ TimePasses

DispSpec == DispInit /\ [][DispNext]_dispVars

-----------------------------------------------------------------------------
(* Properties. *)

\* Once no Register or Unregister is still reporting, the count the application
\* was told last is the number of workers registered, although the reports are
\* made outside d.mu.
CountSettles ==
    (\A w \in DispWorkers : note[w] = Nobody) => told.count = Len(registered)

\* Frames in the queue of a worker that is registered.
InQueue == UNION {ToSet(sendCh[w]) : w \in ToSet(registered)}

\* Every sequence number a lane has used is that of one frame, which was written
\* to the wire, waits for one writer, or went down with the session that had it.
\* So a number the server waits for in vain was lost with a session: a packet that
\* was refused or could not be encoded has used none.
NoGap ==
    /\ wired \cup InQueue \cup sunk = UNION {{l} \X (1..seqs[l]) : l \in Lanes}
    /\ wired \cap (InQueue \cup sunk) = {} /\ InQueue \cap sunk = {}
    /\ \A v, w \in ToSet(registered) :
         v # w => ToSet(sendCh[v]) \cap ToSet(sendCh[w]) = {}

\* The shaper drops a packet only when no worker that is registered could have
\* taken it, wherever the round-robin indices point after workers came and went:
\* each has a full queue, or the packet is bulk and it lacks the tokens.
DropsOnlyWhenFull ==
    \A l \in Lanes : Choice(l) = <<>> =>
        \A w \in ToSet(registered) :
            Len(sendCh[w]) = SendCap \/ (l = "bulk" /\ tokens[w] < SizeOf[l])

\* A worker in debt is given no bulk packet: its bucket goes below zero only by
\* latency packets.
BulkWaits ==
    [][\A w \in DispWorkers :
         tokens'[w] < tokens[w] /\ tokens'[w] < 0 => seqs'["latency"] > seqs["latency"]]_dispVars
=============================================================================
