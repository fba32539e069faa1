-------------------------------- MODULE VkMux -------------------------------
(***************************************************************************)
(* The streams of one VK TURN session (internal/transport/vkturn/mux.go):  *)
(* a client and a server end over one KCP connection, a read loop at each  *)
(* end that hands every frame to its stream, and the readers, writers,     *)
(* handlers and closers of the streams beside it.                          *)
(*                                                                         *)
(* Abstractions.  A stream's data is numbered per direction; a frame holds *)
(* one number.  KCP keeps the order of the frames and loses none until the *)
(* connection ends (external).  PING frames do nothing and are left out.   *)
(* Read deadlines make a Read return early and change nothing.  A process  *)
(* that panicked stands still and the other end with it: what that end can *)
(* do alone it can also do beside a process that is slow.                  *)
(***************************************************************************)
EXTENDS Naturals, Sequences, FiniteSets, SequencesExt

CONSTANTS
    MuxIds,      \* stream identifiers, nextID counts through them
    ReadChCap,   \* cap(readCh), 128 in the code
    MuxStarts    \* where the model starts: the streams already open, those of them whose
                 \* client has left its readCh full, and as bounds the streams that are
                 \* dialled and the frames of data each end writes

MuxEnds == {"client", "server"}
ASSUME MuxAssumption ==
    /\ ReadChCap \in Nat \ {0}
    /\ MuxStarts \subseteq [open : SUBSET MuxIds, full : SUBSET MuxIds, dials : SUBSET MuxIds,
                            quota : [MuxEnds -> Nat]]
    /\ \A m \in MuxStarts : /\ m.full \subseteq m.open
                            /\ \A i \in m.open, j \in m.dials : i < j

Peer(e) == IF e = "client" THEN "server" ELSE "client"

VARIABLES
    wire,      \* frames on their way to each end
    rrClosed,  \* closeWithError ran at an end
    sessDone,  \* its done channel is closed, and the connection with it
    muxTable,  \* s.streams of an end
    condition, \* of each stream at an end: "no", "open", "ending" (closeWithError
               \* will close it), "closing" (its Close is under way) or "closed"
    readCh,    \* its readCh
    consumed,  \* what its Reads returned
    written,   \* how much its Writes put on the wire
    loop,      \* the frame each read loop is about to push, <<>> if none
    dialState, \* newClientStream and DialContext of each stream
    panicked,  \* ends whose process panicked
    muxStart   \* the start that was chosen

muxVars == <<wire, rrClosed, sessDone, muxTable, condition, readCh, consumed, written, loop,
             dialState, panicked, muxStart>>
endVars == <<rrClosed, sessDone, muxStart>>

MuxInit ==
    /\ muxStart \in MuxStarts
    /\ wire = [e \in MuxEnds |-> <<>>]
    /\ rrClosed = {} /\ sessDone = {} /\ panicked = {}
    /\ muxTable = [e \in MuxEnds |-> muxStart.open]
    /\ condition = [e \in MuxEnds |-> [i \in MuxIds |-> IF i \in muxStart.open THEN "open" ELSE "no"]]
    /\ readCh = [e \in MuxEnds |-> [i \in MuxIds |->
          IF e = "client" /\ i \in muxStart.full THEN [n \in 1..ReadChCap |-> n] ELSE <<>>]]
    /\ consumed = [e \in MuxEnds |-> [i \in MuxIds |-> <<>>]]
    /\ written = [e \in MuxEnds |-> [i \in MuxIds |-> Len(readCh[Peer(e)][i])]]
    /\ loop = [e \in MuxEnds |-> <<>>]
    /\ dialState = [i \in MuxIds |-> IF i \in muxStart.open THEN "open" ELSE "idle"]

Runs(e) == panicked = {}
Frame(kind, i, n) == [kind |-> kind, id |-> i, n |-> n]

\* writeFrame: it fails once the connection is closed at this end; a frame sent to
\* an end that has closed goes nowhere.
Wired(e) == e \notin sessDone
Sent(e, f) ==
    IF Peer(e) \in sessDone THEN wire ELSE [wire EXCEPT ![Peer(e)] = Append(@, f)]

-----------------------------------------------------------------------------
(* The client's dials. *)

(* Fault: a session that has ended still takes a stream. *)
NewClientStreamAlways(i) ==
    /\ Runs("client") /\ dialState[i] = "idle" /\ i \in muxStart.dials
    /\ \A j \in muxStart.dials : j < i => dialState[j] # "idle"
    /\ dialState' = [dialState EXCEPT ![i] = "listed"]
    /\ muxTable' = [muxTable EXCEPT !["client"] = @ \cup {i}]
    /\ condition' = [condition EXCEPT !["client"][i] = "open"]
    /\ UNCHANGED <<wire, endVars, readCh, consumed, written, loop, panicked>>

\* newClientStream: the next identifier, listed before OPEN is written.
NewClientStream(i) ==
    /\ Runs("client") /\ dialState[i] = "idle" /\ i \in muxStart.dials
    /\ \A j \in muxStart.dials : j < i => dialState[j] # "idle"
    /\ IF "client" \in rrClosed
         THEN /\ dialState' = [dialState EXCEPT ![i] = "failed"]
              /\ UNCHANGED <<muxTable, condition>>
         ELSE /\ dialState' = [dialState EXCEPT ![i] = "listed"]
              /\ muxTable' = [muxTable EXCEPT !["client"] = @ \cup {i}]
              /\ condition' = [condition EXCEPT !["client"][i] = "open"]
    /\ UNCHANGED <<wire, endVars, readCh, consumed, written, loop, panicked>>

SendOpen(i) ==
    /\ Runs("client") /\ dialState[i] = "listed"
    /\ IF Wired("client")
         THEN /\ wire' = Sent("client", Frame("open", i, 0))
              /\ dialState' = [dialState EXCEPT ![i] = "waiting"] /\ UNCHANGED muxTable
         ELSE /\ muxTable' = [muxTable EXCEPT !["client"] = @ \ {i}]
              /\ dialState' = [dialState EXCEPT ![i] = "failed"] /\ UNCHANGED wire
    /\ condition' = IF Wired("client") \/ condition["client"][i] = "closed" THEN condition
                    ELSE [condition EXCEPT !["client"][i] = "no"]
    /\ UNCHANGED <<endVars, readCh, consumed, written, loop, panicked>>

\* The select of DialContext: the answer to OPEN, or its context or connectTimeout;
\* a dial that fails closes its stream.
Opened(i) ==
    /\ Runs("client") /\ dialState[i] = "answered"
    /\ dialState' = [dialState EXCEPT ![i] = "open"]
    /\ UNCHANGED <<wire, endVars, muxTable, condition, readCh, consumed, written, loop, panicked>>

DialFails(i) ==
    /\ Runs("client") /\ dialState[i] \in {"waiting", "answered", "refused"}
    /\ dialState' = [dialState EXCEPT ![i] = "failed"]
    /\ UNCHANGED <<wire, endVars, muxTable, condition, readCh, consumed, written, loop, panicked>>

-----------------------------------------------------------------------------
(* Streams. *)

\* Close: CLOSE is written, then the stream leaves the table and its channels are
\* closed; closeOnce lets one closer through.  A server's handler closes its stream
\* when it returns.
MayClose(e, i) == e = "server" \/ dialState[i] \in {"open", "failed"}
CloseStream(e, i) ==
    /\ Runs(e) /\ condition[e][i] \in {"open", "ending"} /\ MayClose(e, i)
    /\ condition' = [condition EXCEPT ![e][i] = "closing"]
    /\ wire' = IF Wired(e) THEN Sent(e, Frame("close", i, 0)) ELSE wire
    /\ UNCHANGED <<endVars, muxTable, readCh, consumed, written, loop, dialState, panicked>>

\* What a closed stream has left in readCh a Read may still return or not; the model
\* forgets it, and what was read before.
Released(e, i) ==
    /\ muxTable' = [muxTable EXCEPT ![e] = @ \ {i}]
    /\ condition' = [condition EXCEPT ![e][i] = "closed"]
    /\ readCh' = [readCh EXCEPT ![e][i] = <<>>]
    /\ consumed' = [consumed EXCEPT ![e][i] = <<>>]

CloseReleases(e, i) ==
    /\ Runs(e) /\ condition[e][i] = "closing" /\ Released(e, i)
    /\ UNCHANGED <<wire, endVars, written, loop, dialState, panicked>>

\* Write, one frame of it.
WriteData(e, i) ==
    /\ Runs(e) /\ condition[e][i] \in {"open", "ending", "closing"}
    /\ e = "client" => dialState[i] = "open"
    /\ Wired(e) /\ SumFunction(written[e]) < muxStart.quota[e]
    /\ written' = [written EXCEPT ![e][i] = @ + 1]
    /\ wire' = Sent(e, Frame("data", i, written[e][i] + 1))
    /\ UNCHANGED <<endVars, muxTable, condition, readCh, consumed, loop, dialState, panicked>>

\* Read: what is first in readCh.
ReadData(e, i) ==
    /\ Runs(e) /\ readCh[e][i] # <<>>
    /\ consumed' = [consumed EXCEPT ![e][i] = Append(@, Head(readCh[e][i]))]
    /\ readCh' = [readCh EXCEPT ![e][i] = Tail(@)]
    /\ UNCHANGED <<wire, endVars, muxTable, condition, written, loop, dialState, panicked>>

-----------------------------------------------------------------------------
(* The read loop. *)

Next1(e) == Head(wire[e])
Taken(e) == [wire EXCEPT ![e] = Tail(@)]
Looping(e) == Runs(e) /\ e \notin sessDone /\ loop[e] = <<>> /\ wire[e] # <<>>

\* OPEN at the server: the stream is listed, OPEN_OK is written and its handler
\* starts; a stream whose OPEN_OK cannot be written is closed at once.
HandleOpen ==
    LET i == Next1("server").id IN
    /\ Looping("server") /\ Next1("server").kind = "open"
    /\ IF "server" \in rrClosed
         THEN wire' = Taken("server") /\ UNCHANGED <<muxTable, condition>>
         ELSE /\ muxTable' = [muxTable EXCEPT !["server"] = @ \cup {i}]
              /\ condition' = [condition EXCEPT !["server"][i] = "open"]
              /\ wire' = [Taken("server") EXCEPT !["client"] =
                    IF "client" \in sessDone THEN @ ELSE Append(@, Frame("ok", i, 0))]
    /\ UNCHANGED <<endVars, readCh, consumed, written, loop, dialState, panicked>>

\* OPEN_OK: openCh holds one answer.
HandleOpenOK ==
    LET i == Next1("client").id IN
    /\ Looping("client") /\ Next1("client").kind = "ok" /\ wire' = Taken("client")
    /\ dialState' = IF i \in muxTable["client"] /\ dialState[i] = "waiting"
                      THEN [dialState EXCEPT ![i] = "answered"] ELSE dialState
    /\ UNCHANGED <<endVars, muxTable, condition, readCh, consumed, written, loop, panicked>>

\* DATA: getStream, then push.
HandleData(e) ==
    /\ Looping(e) /\ Next1(e).kind = "data" /\ wire' = Taken(e)
    /\ loop' = [loop EXCEPT ![e] = IF Next1(e).id \in muxTable[e] THEN <<Next1(e)>> ELSE @]
    /\ UNCHANGED <<endVars, muxTable, condition, readCh, consumed, written, dialState, panicked>>

(* Fault: a full readCh drops the data. *)
PushDrops(e) ==
    LET f == loop[e][1] IN
    /\ Runs(e) /\ loop[e] # <<>> /\ condition[e][f.id] # "closed"
    /\ readCh' = IF Len(readCh[e][f.id]) < ReadChCap
                   THEN [readCh EXCEPT ![e][f.id] = Append(@, f.n)] ELSE readCh
    /\ loop' = [loop EXCEPT ![e] = <<>>]
    /\ UNCHANGED <<wire, endVars, muxTable, condition, consumed, written, dialState, panicked>>

\* push waits while readCh is full, and the read loop with it.
Push(e) ==
    LET f == loop[e][1] IN
    /\ Runs(e) /\ loop[e] # <<>> /\ condition[e][f.id] # "closed"
    /\ Len(readCh[e][f.id]) < ReadChCap
    /\ readCh' = [readCh EXCEPT ![e][f.id] = Append(@, f.n)]
    /\ loop' = [loop EXCEPT ![e] = <<>>]
    /\ UNCHANGED <<wire, endVars, muxTable, condition, consumed, written, dialState, panicked>>

\* A stream closed between getStream and the select of push: the closed channel is
\* taken, or the send on the closed readCh panics.
PushClosed(e) ==
    /\ Runs(e) /\ loop[e] # <<>> /\ condition[e][loop[e][1].id] = "closed"
    /\ loop' = [loop EXCEPT ![e] = <<>>]
    /\ panicked' \in {panicked, panicked \cup {e}}
    /\ UNCHANGED <<wire, endVars, muxTable, condition, readCh, consumed, written, dialState>>

\* CLOSE: remoteClose of the stream, if it is still listed; while a Close is under
\* way closeOnce makes it wait for that one.
HandleClose(e) ==
    LET i == Next1(e).id IN
    /\ Looping(e) /\ Next1(e).kind = "close" /\ wire' = Taken(e)
    /\ IF i \in muxTable[e]
         THEN condition[e][i] = "open" /\ Released(e, i)
         ELSE UNCHANGED <<muxTable, condition, readCh, consumed>>
    /\ UNCHANGED <<endVars, written, loop, dialState, panicked>>

-----------------------------------------------------------------------------
(* The end of the session. *)

\* closeWithError, from Close or because the read failed: the table is taken under
\* s.mu; its streams are closed, each by closeOnce, then done and the connection.
EndSession(e) ==
    /\ Runs(e) /\ e \notin rrClosed /\ rrClosed' = rrClosed \cup {e}
    /\ muxTable' = [muxTable EXCEPT ![e] = {}]
    /\ condition' = [condition EXCEPT ![e] = [i \in MuxIds |->
          IF @[i] = "open" /\ i \in muxTable[e] THEN "ending" ELSE @[i]]]
    /\ UNCHANGED <<wire, sessDone, muxStart, readCh, consumed, written, loop, dialState, panicked>>

EndSessionStreams(e) ==
    /\ Runs(e) /\ e \in rrClosed \ sessDone
    /\ \A i \in MuxIds : condition[e][i] # "closing"
    /\ condition' = [condition EXCEPT ![e] = [i \in MuxIds |->
          IF @[i] = "ending" THEN "closed" ELSE @[i]]]
    /\ readCh' = [readCh EXCEPT ![e] = [i \in MuxIds |-> <<>>]]
    /\ consumed' = [consumed EXCEPT ![e] = [i \in MuxIds |-> <<>>]]
    /\ sessDone' = sessDone \cup {e} /\ wire' = [wire EXCEPT ![e] = <<>>]
    /\ UNCHANGED <<rrClosed, muxStart, muxTable, written, loop, dialState, panicked>>

MuxNext ==
    \/ \E i \in MuxIds : NewClientStream(i) \/ SendOpen(i) \/ Opened(i) \/ DialFails(i)
    \/ \E e \in MuxEnds, i \in MuxIds :
          CloseStream(e, i) \/ CloseReleases(e, i) \/ WriteData(e, i) \/ ReadData(e, i)
    \/ HandleOpen \/ HandleOpenOK
    \/ \E e \in MuxEnds :
          HandleData(e) \/ Push(e) \/ PushClosed(e) \/ HandleClose(e)
          \/ EndSession(e) \/ EndSessionStreams(e)

MuxSpec == MuxInit /\ [][MuxNext]_muxVars

-----------------------------------------------------------------------------
(* Properties. *)

DataOf(frames, i) == SelectSeq(frames, LAMBDA f : f.kind = "data" /\ f.id = i)

\* Of an open stream no data is lost, repeated or reordered on its way through the
\* connection, the read loop and readCh, whatever its neighbours do: what was read,
\* what waits in readCh, in push and on the wire is all that the other end wrote.
NothingLostOpen ==
    \A e \in MuxEnds, i \in MuxIds :
        condition[e][i] = "open" /\ e \notin rrClosed =>
            LET onTheWay == DataOf(loop[e] \o wire[e], i)
            IN  consumed[e][i] \o readCh[e][i] \o [k \in DOMAIN onTheWay |-> onTheWay[k].n]
                    = [k \in 1..written[Peer(e)][i] |-> k]

\* A session that has ended leaves no stream behind: none is open or listed, also
\* when OPEN or a dial came while it ended.
NoneOutlives ==
    \A e \in sessDone :
        muxTable[e] = {} /\ \A i \in MuxIds : condition[e][i] \in {"no", "closed"}
=============================================================================
