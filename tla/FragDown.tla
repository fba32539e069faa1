------------------------------ MODULE FragDown ------------------------------
(***************************************************************************)
(* The way down of one FragPoC stream (internal/transport/fragpoc): the    *)
(* producer of a server session with its channel and its replay ring, the  *)
(* DOWN polls of the client, each on a connection of its own that may      *)
(* fail, the scheduler that sends them, and the Read that puts the frames  *)
(* back in order.                                                          *)
(*                                                                         *)
(* Abstractions.  A frame is its sequence number, the last one being the   *)
(* end of the stream.  Delays between polls are left out: a poll that may  *)
(* be sent is sent or not.  One stream: the round robin over streams and   *)
(* the tokens a poll needs are in FragSched and FragServer.                *)
(***************************************************************************)
EXTENDS Integers, Sequences, FiniteSets

CONSTANTS
    PollWorkers,      \* the goroutines of the scheduler
    RingSize,         \* replayRingSize
    ChanCap,          \* cap(frameCh)
    RetransmitAfter,  \* retransmitAfter
    RetransmitGap,    \* retransmitGap
    DownWindow,       \* client.downWindow; downCh holds twice as many
    MaxPending,       \* maxPendingFrames
    MaxMade,          \* bound: frames of data
    MaxLost           \* bound: polls that fail

NoFrame == -1

ASSUME FragDownAssumption ==
    /\ IsFiniteSet(PollWorkers)
    /\ {RingSize, ChanCap, RetransmitAfter, RetransmitGap, DownWindow, MaxPending} \subseteq Nat \ {0}
    /\ MaxMade \in Nat /\ MaxLost \in Nat

VARIABLES
    producer,   \* "reading", "offering" or "done" (producerDone)
    made,       \* frames made so far: the producer's seq
    eofAt,      \* the sequence number of the end, or NoFrame
    frameCh,    \* frames not yet taken by a poll
    ring,       \* replayRing, oldest first
    lastAck,    \* lastRetransmitAck
    served,     \* servedSinceAck, counted to one past RetransmitAfter
    poll,       \* each poll: where it is, its ack, shouldRT, its frame, its outcome
    scheduled,  \* the stream is among the scheduler's active ones
    window,     \* schedWindow
    inFlight,   \* schedInFlight
    downCh,     \* responses waiting for Read
    pending,    \* c.pending
    nextSeq,    \* c.nextSeq and recvAck
    eofSeq,     \* c.eofSeq; NoFrame without haveEOF
    over,       \* how the stream ended at the client: "", "eof", "error" or "closed"
    lostPolls   \* polls that have failed (history)

server == <<producer, made, eofAt, frameCh, ring, lastAck, served>>
sched == <<scheduled, window, inFlight>>
reader == <<downCh, pending, nextSeq, eofSeq>>
fragVars == <<server, poll, sched, reader, over, lostPolls>>

Rest == [at |-> "rest", ack |-> 0, rt |-> FALSE, frame |-> NoFrame, outcome |-> ""]

FragInit ==
    /\ producer = "reading" /\ made = 0 /\ eofAt = NoFrame
    /\ frameCh = <<>> /\ ring = <<>> /\ lastAck = 0 /\ served = 0
    /\ poll = [p \in PollWorkers |-> Rest]
    /\ scheduled = TRUE /\ window = 1 /\ inFlight = 0
    /\ downCh = <<>> /\ pending = {} /\ nextSeq = 0 /\ eofSeq = NoFrame
    /\ over = "" /\ lostPolls = 0

-----------------------------------------------------------------------------
(* The producer of the session. *)

Pushed(f) == IF Len(ring) < RingSize THEN Append(ring, f) ELSE Append(Tail(ring), f)

\* A read of the handler's end: data, or the end of the stream.
Produce ==
    /\ producer = "reading"
    /\ \/ made < MaxMade /\ UNCHANGED eofAt
       \/ eofAt' = made
    /\ ring' = Pushed(made) /\ made' = made + 1 /\ producer' = "offering"
    /\ UNCHANGED <<frameCh, lastAck, served, poll, sched, reader, over, lostPolls>>

Offer ==
    /\ producer = "offering" /\ Len(frameCh) < ChanCap
    /\ frameCh' = Append(frameCh, made - 1)
    /\ producer' = IF eofAt = NoFrame THEN "reading" ELSE "done"
    /\ UNCHANGED <<made, eofAt, ring, lastAck, served, poll, sched, reader, over, lostPolls>>

\* "consumers gone": nobody took a frame for 5 seconds, 2 for the last one.
GiveUp ==
    /\ producer = "offering" /\ Len(frameCh) = ChanCap
    /\ producer' = "done"
    /\ UNCHANGED <<made, eofAt, frameCh, ring, lastAck, served, poll, sched, reader, over, lostPolls>>

-----------------------------------------------------------------------------
(* A DOWN poll at the server: nextDownResponse. *)

\* findReplay: the frame itself, else the oldest after it, else the newest.
FindReplay(ack) ==
    LET later == {i \in DOMAIN ring : ring[i] >= ack}
    IN  IF \E i \in DOMAIN ring : ring[i] = ack THEN ack
        ELSE IF later # {} THEN ring[CHOOSE i \in later : \A j \in later : i <= j]
        ELSE ring[Len(ring)]

Answer(p, f) == poll' = [poll EXCEPT ![p] = [Rest EXCEPT !.at = "answered", !.frame = f]]
Hold(p, rt) ==
    /\ poll' = [poll EXCEPT ![p] = [@ EXCEPT !.at = "held", !.rt = rt, !.frame = Head(frameCh)]]
    /\ frameCh' = Tail(frameCh)

\* shouldRetransmit, then the channel, then the ring, then the long poll.
Arrive(p) ==
    LET ack == poll[p].ack
        same == ack = lastAck
        rt == same /\ served + 1 > RetransmitAfter
    IN  /\ poll[p].at = "sent"
        /\ lastAck' = IF ack > lastAck THEN ack ELSE lastAck
        /\ served' = IF ack > lastAck THEN 1
                     ELSE IF same /\ served <= RetransmitAfter THEN served + 1 ELSE served
        /\ \/ frameCh # <<>> /\ Hold(p, rt)
           \/ frameCh = <<>> /\ ring # <<>> /\ Answer(p, FindReplay(ack)) /\ UNCHANGED frameCh
           \/ /\ frameCh = <<>> /\ ring = <<>>
              /\ poll' = [poll EXCEPT ![p] = [@ EXCEPT !.at = "waiting", !.rt = rt]]
              /\ UNCHANGED frameCh
        /\ UNCHANGED <<producer, made, eofAt, ring, sched, reader, over, lostPolls>>

\* With a frame in hand: perhaps an older one is sent instead, and this one put
\* back behind the others, or dropped when the channel has filled up meanwhile.
Reply(p) ==
    LET f == poll[p].frame
        ack == poll[p].ack
    IN  /\ poll[p].at = "held"
        /\ IF poll[p].rt /\ f >= ack + RetransmitGap /\ \E i \in DOMAIN ring : ring[i] = ack
             THEN /\ Answer(p, ack)
                  /\ frameCh' = IF Len(frameCh) < ChanCap THEN Append(frameCh, f) ELSE frameCh
             ELSE Answer(p, f) /\ UNCHANGED frameCh
        /\ UNCHANGED <<producer, made, eofAt, ring, lastAck, served, sched, reader, over, lostPolls>>

\* The long poll: a frame comes, or time is up, or the producer has gone.
PollWoken(p) ==
    /\ poll[p].at = "waiting" /\ frameCh # <<>> /\ Hold(p, poll[p].rt)
    /\ UNCHANGED <<producer, made, eofAt, ring, lastAck, served, sched, reader, over, lostPolls>>
WaitOver(p) ==
    /\ poll[p].at = "waiting"
    /\ \/ frameCh # <<>> /\ Answer(p, Head(frameCh)) /\ frameCh' = Tail(frameCh)
       \/ /\ frameCh = <<>> /\ UNCHANGED frameCh
          /\ Answer(p, IF ring # <<>> THEN FindReplay(poll[p].ack) ELSE NoFrame)
    /\ UNCHANGED <<producer, made, eofAt, ring, lastAck, served, sched, reader, over, lostPolls>>

-----------------------------------------------------------------------------
(* The same poll at the client: pick, runScheduledDownPoll, finish. *)

DownChCap == 2 * DownWindow
CommittedPolls == {p \in PollWorkers : poll[p].at \in {"sent", "held", "waiting", "answered"}}

\* Fault: the responses not yet read are not counted.
PickMore(p) ==
    /\ poll[p].at = "rest" /\ scheduled /\ over = "" /\ inFlight < window
    /\ poll' = [poll EXCEPT ![p] = [Rest EXCEPT !.at = "sent", !.ack = nextSeq]]
    /\ inFlight' = inFlight + 1
    /\ UNCHANGED <<server, scheduled, window, reader, over, lostPolls>>

Pick(p) ==
    /\ poll[p].at = "rest" /\ scheduled /\ over = "" /\ inFlight < window
    /\ Len(downCh) + inFlight < DownChCap
    /\ poll' = [poll EXCEPT ![p] = [Rest EXCEPT !.at = "sent", !.ack = nextSeq]]
    /\ inFlight' = inFlight + 1
    /\ UNCHANGED <<server, scheduled, window, reader, over, lostPolls>>

Outcome(p, o) == poll' = [poll EXCEPT ![p] = [Rest EXCEPT !.at = "done", !.outcome = o]]

\* The request or its response is lost: isTransientDownError.
TimesOut(p) ==
    /\ poll[p].at \in {"sent", "answered"} /\ lostPolls < MaxLost
    /\ lostPolls' = lostPolls + 1
    /\ Outcome(p, "transient")
    /\ UNCHANGED <<server, sched, reader, over>>

\* Any other error ends the stream: errCh, and closeDone.
FailsForGood(p) ==
    /\ poll[p].at \in {"sent", "answered"} /\ lostPolls < MaxLost
    /\ lostPolls' = lostPolls + 1
    /\ Outcome(p, "fatal")
    /\ over' = IF over = "" THEN "error" ELSE over
    /\ scheduled' = FALSE
    /\ UNCHANGED <<server, window, inFlight, reader>>

Deliver(p) ==
    LET f == poll[p].frame IN
    /\ poll[p].at = "answered"
    /\ \/ f = NoFrame /\ Outcome(p, "idle") /\ UNCHANGED downCh
       \/ f # NoFrame /\ over # "" /\ Outcome(p, "closed") /\ UNCHANGED downCh
       \/ /\ f # NoFrame /\ Len(downCh) < DownChCap
          /\ downCh' = Append(downCh, f)
          /\ Outcome(p, IF f = eofAt THEN "eof" ELSE "data")
    /\ UNCHANGED <<server, sched, pending, nextSeq, eofSeq, over, lostPolls>>

\* finish; a stream that saw nothing but failures, or no payload, for too long
\* is given up: errSchedulerStuck.
Finish(p) ==
    LET o == poll[p].outcome IN
    /\ poll[p].at = "done" /\ poll' = [poll EXCEPT ![p] = Rest]
    /\ inFlight' = inFlight - 1
    /\ \/ ~scheduled /\ UNCHANGED <<scheduled, window, over>>
       \/ /\ scheduled /\ o = "data"
          /\ window' = IF window < DownWindow THEN window + 1 ELSE window
          /\ UNCHANGED <<scheduled, over>>
       \/ scheduled /\ o \in {"idle", "transient"} /\ window' = 1 /\ UNCHANGED <<scheduled, over>>
       \/ /\ scheduled /\ o \in {"idle", "transient"}
          /\ scheduled' = FALSE /\ over' = "error" /\ UNCHANGED window
       \/ /\ scheduled /\ o \in {"eof", "fatal", "closed"}
          /\ scheduled' = FALSE /\ UNCHANGED <<window, over>>
    /\ UNCHANGED <<server, reader, lostPolls>>

-----------------------------------------------------------------------------
(* Read and Close of the stream. *)

\* The frame that is next is held already.
ReadPending ==
    /\ over = "" /\ nextSeq \in pending
    /\ pending' = pending \ {nextSeq} /\ nextSeq' = nextSeq + 1
    /\ UNCHANGED <<server, poll, sched, downCh, eofSeq, over, lostPolls>>

ReadEOF ==
    /\ over = "" /\ nextSeq \notin pending /\ eofSeq = nextSeq
    /\ nextSeq' = nextSeq + 1 /\ over' = "eof" /\ scheduled' = FALSE
    /\ UNCHANGED <<server, poll, window, inFlight, downCh, pending, eofSeq, lostPolls>>

\* Fault: the end of the stream is taken for the end of the data.
ReceiveEndsEarly ==
    LET f == Head(downCh) IN
    /\ over = "" /\ downCh # <<>> /\ downCh' = Tail(downCh)
    /\ IF f = eofAt THEN over' = "eof" /\ scheduled' = FALSE /\ UNCHANGED <<nextSeq, pending>>
       ELSE /\ nextSeq' = IF f = nextSeq THEN nextSeq + 1 ELSE nextSeq
            /\ UNCHANGED <<pending, over, scheduled>>
    /\ UNCHANGED <<server, poll, window, inFlight, eofSeq, lostPolls>>

\* A response is taken from downCh.
Receive ==
    LET f == Head(downCh) IN
    /\ over = "" /\ nextSeq \notin pending /\ eofSeq # nextSeq /\ downCh # <<>>
    /\ downCh' = Tail(downCh)
    /\ \/ /\ f = eofAt /\ f < nextSeq /\ over' = "eof" /\ scheduled' = FALSE
          /\ UNCHANGED <<nextSeq, pending, eofSeq>>
       \/ f = eofAt /\ f >= nextSeq /\ eofSeq' = f /\ UNCHANGED <<nextSeq, pending, over, scheduled>>
       \/ f # eofAt /\ f < nextSeq /\ UNCHANGED <<nextSeq, pending, eofSeq, over, scheduled>>
       \/ f # eofAt /\ f = nextSeq /\ nextSeq' = f + 1 /\ UNCHANGED <<pending, eofSeq, over, scheduled>>
       \/ /\ f # eofAt /\ f > nextSeq
          /\ pending' = IF Cardinality(pending) < MaxPending THEN pending \cup {f} ELSE pending
          /\ UNCHANGED <<nextSeq, eofSeq, over, scheduled>>
    /\ UNCHANGED <<server, poll, window, inFlight, lostPolls>>

CloseConn ==
    /\ over = "" /\ over' = "closed" /\ scheduled' = FALSE
    /\ UNCHANGED <<server, poll, window, inFlight, reader, lostPolls>>

ServerStep == Produce \/ Offer
PollStep(p) ==
    Arrive(p) \/ Reply(p) \/ PollWoken(p) \/ WaitOver(p) \/ Pick(p) \/ Deliver(p) \/ Finish(p)
ReadStep == ReadPending \/ ReadEOF \/ Receive

FragNext ==
    \/ ServerStep \/ GiveUp \/ ReadStep \/ CloseConn
    \/ \E p \in PollWorkers : PollStep(p) \/ TimesOut(p) \/ FailsForGood(p)

FragSpec == FragInit /\ [][FragNext]_fragVars

-----------------------------------------------------------------------------
(* Properties. *)

\* A poll whose response has come always finds room in downCh: no worker of the
\* scheduler is ever blocked by a stream that nobody reads.
DownChHasRoom == Len(downCh) + Cardinality(CommittedPolls) <= DownChCap

\* A Read that returns io.EOF has returned every byte the server read before the
\* end, in whatever order the responses came.
EOFComplete == over = "eof" => nextSeq >= eofAt /\ eofAt # NoFrame

\* Both: the polls neither block a worker nor lose what was read.
DownSafe == DownChHasRoom /\ EOFComplete
=============================================================================
