------------------------------ MODULE FragSched -----------------------------
(***************************************************************************)
(* The DOWN scheduler of a FragPoC client over several streams             *)
(* (internal/transport/fragpoc/scheduler.go): a fixed number of workers    *)
(* pick, in turn, a stream that may be polled, and finish puts it back.    *)
(* What one poll does is in FragDown.                                      *)
(*                                                                         *)
(* Abstractions.  A stream is ready, or has to wait for its schedNextPoll, *)
(* its window or its reader.  pick is one step under s.mu, with its search *)
(* as the loop of the code; the search must find what a plain definition   *)
(* of "the next ready stream in turn" finds.                               *)
(***************************************************************************)
EXTENDS Integers, Sequences, FiniteSets, SequencesExt

CONSTANTS
    Streams,      \* the streams of the client
    SchedWorkers  \* its DOWN workers

VARIABLES
    schedConns,    \* s.conns
    listedConns,   \* s.active
    turn,     \* s.next
    added,    \* streams that have been added: downOnce
    dead,     \* streams closed, or read to their end
    waits,    \* streams not to be polled now
    using,    \* the stream each worker polls, "" if none
    schedClosed

schedVars == <<schedConns, listedConns, turn, added, dead, waits, using, schedClosed>>

SchedInit ==
    /\ schedConns = <<>> /\ listedConns = {} /\ turn = 0 /\ added = {} /\ dead = {} /\ waits = {}
    /\ using = [w \in SchedWorkers |-> ""] /\ schedClosed = FALSE

-----------------------------------------------------------------------------
(* Fault: the turn is not moved when a stream before it goes. *)
RemoveAtNoShift(cs, n, i) ==
    LET cs2 == RemoveAt(cs, i + 1)
    IN  <<cs2, IF cs2 = <<>> \/ n >= Len(cs2) THEN 0 ELSE n>>

\* removeAtLocked: the list without its i-th stream (from 0), and the turn.
RemoveAtLocked(cs, n, i) ==
    LET cs2 == RemoveAt(cs, i + 1)
        n2 == IF n > i THEN n - 1 ELSE n
    IN  <<cs2, IF cs2 = <<>> \/ n2 >= Len(cs2) THEN 0 ELSE n2>>

Without(c) ==
    IF c \in ToSet(schedConns)
      THEN RemoveAtLocked(schedConns, turn, (CHOOSE i \in 1..Len(schedConns) : schedConns[i] = c) - 1)
      ELSE <<schedConns, turn>>

\* addConn, when a stream is read for the first time.
AddConn(c) ==
    /\ ~schedClosed /\ c \notin dead /\ c \notin added /\ added' = added \cup {c}
    /\ schedConns' = Append(schedConns, c) /\ listedConns' = listedConns \cup {c}
    /\ UNCHANGED <<turn, dead, waits, using, schedClosed>>

\* removeConn, from closeDone.
RemoveConn(c) ==
    /\ c \in listedConns /\ listedConns' = listedConns \ {c} /\ dead' = dead \cup {c}
    /\ schedConns' = Without(c)[1] /\ turn' = Without(c)[2]
    /\ UNCHANGED <<added, waits, using, schedClosed>>

\* A stream is closed, or sees its end: it stays in the list until a search
\* meets it or removeConn takes it out.
Dies(c) ==
    /\ c \in listedConns /\ c \notin dead /\ dead' = dead \cup {c}
    /\ UNCHANGED <<schedConns, listedConns, turn, added, waits, using, schedClosed>>

\* finish with an end or a fatal error drops the stream from both.
FinishDrops(w) ==
    LET c == using[w] IN
    /\ c # "" /\ using' = [using EXCEPT ![w] = ""]
    /\ listedConns' = listedConns \ {c} /\ schedConns' = Without(c)[1] /\ turn' = Without(c)[2]
    /\ UNCHANGED <<added, dead, waits, schedClosed>>

\* finish with data, nothing or a failure; the stream may have to wait.
FinishKeeps(w) ==
    LET c == using[w] IN
    /\ c # "" /\ using' = [using EXCEPT ![w] = ""]
    /\ waits' \in {waits \cup {c}, waits \ {c}}
    /\ UNCHANGED <<schedConns, listedConns, turn, added, dead, schedClosed>>

WaitEnds(c) ==
    /\ c \in waits /\ waits' = waits \ {c}
    /\ UNCHANGED <<schedConns, listedConns, turn, added, dead, using, schedClosed>>

CloseScheduler ==
    /\ ~schedClosed /\ schedClosed' = TRUE /\ schedConns' = <<>> /\ listedConns' = {}
    /\ UNCHANGED <<turn, added, dead, waits, using>>

-----------------------------------------------------------------------------
(* pick. *)

Gone(c) == c \notin listedConns \/ c \in dead
Ready(c) == ~Gone(c) /\ c \notin waits

\* The search of pick: the list, the turn and the stream it ends with.
RECURSIVE Search(_, _, _, _)
Search(cs, n, scanned, left) ==
    IF scanned >= left \/ cs = <<>> THEN [conns |-> cs, turn |-> n, found |-> ""]
    ELSE LET idx == (n + scanned) % Len(cs)
             c == cs[idx + 1]
             cut == RemoveAtLocked(cs, n, idx)
         IN  IF Gone(c) THEN Search(cut[1], cut[2], scanned, left - 1)
             ELSE IF ~Ready(c) THEN Search(cs, n, scanned + 1, left)
             ELSE [conns |-> cs, turn |-> (idx + 1) % Len(cs), found |-> c]

PickConn(w) ==
    LET r == Search(schedConns, turn, 0, Len(schedConns)) IN
    /\ using[w] = "" /\ ~schedClosed /\ schedConns # <<>>
    /\ schedConns' = r.conns /\ turn' = r.turn /\ using' = [using EXCEPT ![w] = r.found]
    /\ waits' \in {waits, waits \cup ({r.found} \cap Streams)}   \* its window may be full now
    /\ UNCHANGED <<listedConns, added, dead, schedClosed>>

SchedNext ==
    \/ \E c \in Streams : AddConn(c) \/ RemoveConn(c) \/ Dies(c) \/ WaitEnds(c)
    \/ \E w \in SchedWorkers : PickConn(w) \/ FinishDrops(w) \/ FinishKeeps(w)
    \/ CloseScheduler

SchedSpec == SchedInit /\ [][SchedNext]_schedVars

-----------------------------------------------------------------------------
(* Properties. *)

\* The stream that is next in turn: the first ready one in the cycle that starts
\* at s.next, gone streams or not.
NextReady ==
    LET cycle == [i \in 1..Len(schedConns) |-> schedConns[((turn + i - 1) % Len(schedConns)) + 1]]
        ready == SelectSeq(cycle, Ready)
    IN  IF ready = <<>> THEN "" ELSE ready[1]

\* pick finds the stream that is next in turn, also when it has to take streams
\* that are gone out of the list on the way: none is passed over.
PickInTurn == Search(schedConns, turn, 0, Len(schedConns)).found = NextReady

\* Every active stream that has not ended stays in the list a search goes
\* through, once.
ActiveListed ==
    listedConns \ dead \subseteq ToSet(schedConns) /\ Cardinality(ToSet(schedConns)) = Len(schedConns)
=============================================================================
