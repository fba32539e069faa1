--------------------------- MODULE CarrierProofs ----------------------------
(***************************************************************************)
(* Proofs about the admission of the dials that come out of the TUN, and   *)
(* about the way down of a FragPoC stream.                                 *)
(***************************************************************************)
EXTENDS TunDialer, FragDown, TLAPS

-----------------------------------------------------------------------------
(***************************************************************************)
(* The admission of flows.  The counts of SlotsAccounted are inductive     *)
(* once it is known which dial has a connection: one that succeeded and is *)
(* on its way out, or none at all.                                         *)
(***************************************************************************)
GateState ==
    [there : BOOLEAN, inFlight : Int, cool : {"zero", "future", "past"}, failures : Nat,
     opens : Nat, window : {"live", "stale"}]

TunDialTypeOK ==
    /\ tpc \in [TunDials -> {"idle", "recovery", "gate", "gateWait", "record"} \cup InGate]
    /\ target \in [TunDials -> TunTargets] /\ targetOK \in [TunDials -> BOOLEAN]
    /\ waitOn \in [TunDials -> {"none", "timer", "change"}]
    /\ gateGone \in [TunDials -> BOOLEAN] /\ gate \in [TunTargets -> GateState]
    /\ activeSlots \in Int /\ openSlots \in Int /\ tokenHeld \in [TunDials -> BOOLEAN]
    /\ activeConns \in SUBSET TunDials
    /\ conn \in [TunDials -> {"none", "open", "closing"}]
    /\ victim \in [TunDials -> TunDials \cup {NoVictim}] /\ victims \in SUBSET TunDials
    /\ udp \in {"idle", "attempt"}

\* What a dial's place, its outcome, its connection and its slot say of each other.
Linked(d) ==
    /\ conn[d] # "none" => tpc[d] = "idle" \/ targetOK[d]
    /\ targetOK[d] => tpc[d] \in {"unwindOpen", "unwindGate", "record"}
    /\ tokenHeld[d] <=> \/ tpc[d] \in {"pace", "open", "attempt", "unwindActive"}
                        \/ tpc[d] = "unwindOpen" /\ ~targetOK[d]
                        \/ conn[d] = "open"
    /\ conn[d] = "open" => d \in activeConns

Holders == {d \in TunDials : tokenHeld[d]}
Openers == {d \in TunDials : tpc[d] \in {"attempt", "unwindOpen"}}
Inside(t) == {d \in TunDials : tpc[d] \in InGate /\ target[d] = t}

ActiveCounted == activeSlots = Cardinality(Holders) /\ activeSlots <= ActiveCap
OpenCounted == openSlots = Cardinality(Openers) + (IF udp = "attempt" THEN 1 ELSE 0)
GateCounted(t) == gate[t].inFlight = Cardinality(Inside(t)) /\ gate[t].inFlight <= PerTarget

DialInv ==
    /\ TunDialTypeOK
    /\ \A d \in TunDials : Linked(d)
    /\ ActiveCounted /\ OpenCounted
    /\ \A t \in TunTargets : GateCounted(t)
    /\ NoLostWakeup

\* The invariant says what AdmissionSafe says, and holds at the start.
LEMMA DialInvSafe == DialInv => AdmissionSafe
  BY Zenon DEF DialInv, AdmissionSafe, SlotsAccounted, Linked, ActiveCounted, OpenCounted, GateCounted,
         Holders, Openers, Inside

\* What each operation on a gate does to it, as far as its count goes.
LEMMA GateThere ==
    ASSUME NEW g \in GateState
    PROVE  /\ [g EXCEPT !.there = TRUE] \in GateState
           /\ [g EXCEPT !.there = TRUE].inFlight = g.inFlight
           /\ [g EXCEPT !.there = TRUE].cool = g.cool
  BY Zenon DEF GateState

LEMMA GateCount == ASSUME NEW g \in GateState PROVE g.inFlight \in Int
  BY Zenon DEF GateState

LEMMA GateNone == NoGate \in GateState /\ NoGate.inFlight = 0
  BY DEF NoGate, GateState

LEMMA GateOpened ==
    ASSUME NEW g \in GateState
    PROVE  NoteOpen(g) \in GateState /\ NoteOpen(g).inFlight = g.inFlight + 1
  <1> DEFINE n == g.inFlight + 1
             o == IF g.opens > NoisyOver THEN g.opens ELSE g.opens + 1
  <1>1. n \in Int /\ o \in Nat
    BY TunDialerAssumption DEF GateState
  <1>2. NoteOpen(g) = [g EXCEPT !.inFlight = n, !.window = "live", !.opens = o]
    BY Zenon DEF NoteOpen, GateState
  <1> HIDE DEF n, o
  <1>3. /\ [g EXCEPT !.inFlight = n, !.window = "live", !.opens = o] \in GateState
        /\ [g EXCEPT !.inFlight = n, !.window = "live", !.opens = o].inFlight = n
    BY Zenon, <1>1 DEF GateState
  <1> QED  BY Zenon, <1>2, <1>3 DEF n

LEMMA GateCooled ==
    ASSUME NEW h \in GateState, NEW ok \in BOOLEAN
    PROVE  Cooled(h, ok) \in GateState /\ Cooled(h, ok).inFlight = h.inFlight
  <1>1. h.cool \in {"zero", "future", "past"} /\ h.failures \in Nat /\ CoolAfter \in Nat
    BY Zenon, TunDialerAssumption DEF GateState
  <1>2. \E n \in Nat, c \in {"zero", "future", "past"} :
           Cooled(h, ok) = [h EXCEPT !.failures = n, !.cool = c]
    <2>1. CASE ok
      BY Zenon, <2>1 DEF Cooled
    <2>2. CASE ~ok
      <3> DEFINE n == IF h.failures < CoolAfter THEN h.failures + 1 ELSE CoolAfter
                 c == IF n = CoolAfter THEN "future" ELSE h.cool
      <3>1. n \in Nat /\ c \in {"zero", "future", "past"}
        BY <1>1
      <3>2. Cooled(h, ok) = [h EXCEPT !.failures = n, !.cool = c]
        BY Zenon, <2>2 DEF Cooled, GateState
      <3> HIDE DEF n, c
      <3> QED  BY Zenon, <3>1, <3>2
    <2> QED  BY Zenon, <2>1, <2>2
  <1>3. PICK n \in Nat, c \in {"zero", "future", "past"} :
           Cooled(h, ok) = [h EXCEPT !.failures = n, !.cool = c]
    BY Zenon, <1>2
  <1> DEFINE k == [h EXCEPT !.failures = n, !.cool = c]
  <1>4. k \in GateState /\ k.inFlight = h.inFlight
    BY Zenon DEF GateState
  <1>5. Cooled(h, ok) = k
    BY Zenon, <1>3
  <1> HIDE DEF k
  <1> QED  BY Zenon, <1>4, <1>5

LEMMA GateReturned ==
    ASSUME NEW g \in GateState, NEW ok \in BOOLEAN
    PROVE  Left(g, ok) \in GateState /\ Left(g, ok).inFlight = g.inFlight - 1
  <1> DEFINE h == [g EXCEPT !.inFlight = @ - 1]
  <1>1. h \in GateState /\ h.inFlight = g.inFlight - 1
    BY DEF GateState
  <1>2. Left(g, ok) = Cooled(h, ok)
    BY Zenon DEF Left
  <1> HIDE DEF h
  <1>3. Cooled(h, ok) \in GateState /\ Cooled(h, ok).inFlight = h.inFlight
    BY Zenon, <1>1, GateCooled
  <1> QED  BY Zenon, <1>1, <1>2, <1>3

\* Time alone moves no count.
LEMMA GateTimes ==
    ASSUME TunDialTypeOK, NEW t \in TunTargets, CooldownOver(t) \/ WindowOver(t)
    PROVE  /\ gate' \in [TunTargets -> GateState]
           /\ \A u \in TunTargets : gate'[u].inFlight = gate[u].inFlight
  <1>1. gate \in [TunTargets -> GateState] /\ gate[t] \in GateState
    BY Zenon DEF TunDialTypeOK
  <1>2. ASSUME NEW g \in GateState, g.inFlight = gate[t].inFlight, gate' = [gate EXCEPT ![t] = g]
        PROVE  /\ gate' \in [TunTargets -> GateState]
               /\ \A u \in TunTargets : gate'[u].inFlight = gate[u].inFlight
    BY Zenon, <1>1, <1>2
  <1>3. CASE CooldownOver(t)
    <2> DEFINE g == [gate[t] EXCEPT !.cool = "past"]
    <2>1. g \in GateState /\ g.inFlight = gate[t].inFlight
      BY Zenon, <1>1 DEF GateState
    <2>2. gate' = [gate EXCEPT ![t] = g]
      BY Zenon, <1>3 DEF CooldownOver
    <2> HIDE DEF g
    <2> QED  BY Zenon, <1>2, <2>1, <2>2
  <1>4. CASE WindowOver(t)
    <2> DEFINE g == [gate[t] EXCEPT !.window = "stale", !.opens = 0]
    <2>1. g \in GateState /\ g.inFlight = gate[t].inFlight
      BY Zenon, <1>1 DEF GateState
    <2>2. gate' = [gate EXCEPT ![t] = g]
      BY Zenon, <1>1, <1>4 DEF WindowOver
    <2> HIDE DEF g
    <2> QED  BY Zenon, <1>2, <2>1, <2>2
  <1> QED  BY Zenon, <1>3, <1>4

\* A turn of acquireTargetGate: the dial goes in, or it waits and changes no count.
GoesIn(d) ==
    /\ tpc' = [tpc EXCEPT ![d] = "active"] /\ UNCHANGED <<waitOn, gateGone>>
    /\ gate[target[d]].inFlight < PerTarget
    /\ gate'[target[d]].inFlight = gate[target[d]].inFlight + 1
    /\ \A u \in TunTargets \ {target[d]} : gate'[u] = gate[u]
Waits(d) ==
    /\ tpc' = [tpc EXCEPT ![d] = "gateWait"] /\ gateGone' = [gateGone EXCEPT ![d] = FALSE]
    /\ \E w \in {"timer", "change"} :
         /\ waitOn' = [waitOn EXCEPT ![d] = w]
         /\ w = "change" => ~(gate[target[d]].inFlight < PerTarget)
    /\ \A u \in TunTargets : gate'[u].inFlight = gate[u].inFlight

LEMMA GateTurn ==
    ASSUME TunDialTypeOK, NEW d \in TunDials, AcquireTargetGate(d)
    PROVE  /\ gate' \in [TunTargets -> GateState] /\ tpc[d] = "gate"
           /\ UNCHANGED <<target, targetOK, slotVars, connVars, reaper, recVars, udp>>
           /\ GoesIn(d) \/ Waits(d)
  <1>1. /\ target[d] \in TunTargets /\ gate[target[d]] \in GateState
        /\ gate \in [TunTargets -> GateState]
    BY Zenon DEF TunDialTypeOK
  <1> DEFINE g == [gate[target[d]] EXCEPT !.there = TRUE]
  <1>2. g \in GateState /\ g.inFlight = gate[target[d]].inFlight
    BY Zenon, <1>1, GateThere
  <1>3. /\ tpc[d] = "gate"
        /\ UNCHANGED <<target, targetOK, slotVars, connVars, reaper, recVars, udp>>
        /\ IF g.inFlight < PerTarget /\ g.cool # "future"
             THEN /\ gate' = [gate EXCEPT ![target[d]] = NoteOpen(g)]
                  /\ tpc' = [tpc EXCEPT ![d] = "active"] /\ UNCHANGED <<waitOn, gateGone>>
             ELSE /\ gate' = [gate EXCEPT ![target[d]] = g]
                  /\ tpc' = [tpc EXCEPT ![d] = "gateWait"]
                  /\ waitOn' = [waitOn EXCEPT ![d] = IF g.cool = "future" THEN "timer" ELSE "change"]
                  /\ gateGone' = [gateGone EXCEPT ![d] = FALSE]
    BY Zenon DEF AcquireTargetGate, Goes
  <1> HIDE DEF g
  <1>4. NoteOpen(g) \in GateState /\ NoteOpen(g).inFlight = g.inFlight + 1
    BY Zenon, <1>2, GateOpened
  <1>5. CASE g.inFlight < PerTarget /\ g.cool # "future"
    <2>1. gate' = [gate EXCEPT ![target[d]] = NoteOpen(g)]
      BY Zenon, <1>3, <1>5
    <2>2. GoesIn(d)
      BY Zenon, <1>1, <1>2, <1>3, <1>4, <1>5, <2>1 DEF GoesIn
    <2> QED  BY Zenon, <1>1, <1>3, <1>4, <2>1, <2>2
  <1>6. CASE ~(g.inFlight < PerTarget /\ g.cool # "future")
    <2>1. gate' = [gate EXCEPT ![target[d]] = g]
      BY Zenon, <1>3, <1>6
    <2>2. \A u \in TunTargets : gate'[u].inFlight = gate[u].inFlight
      BY Zenon, <1>1, <1>2, <2>1
    <2>3. Waits(d)
      BY Zenon, <1>2, <1>3, <1>6, <2>2 DEF Waits
    <2> QED  BY Zenon, <1>1, <1>2, <1>3, <2>1, <2>3
  <1> QED  BY Zenon, <1>5, <1>6

\* releaseTargetGate: the count goes down by one, and the waiters are sent round again.
LEMMA GateRelease ==
    ASSUME TunDialTypeOK, NEW d \in TunDials, ReleaseTargetGate(d)
    PROVE  /\ gate' \in [TunTargets -> GateState]
           /\ gate'[target[d]].inFlight = gate[target[d]].inFlight - 1
           /\ \A u \in TunTargets \ {target[d]} : gate'[u] = gate[u]
  <1>1. /\ target[d] \in TunTargets /\ gate[target[d]] \in GateState
        /\ gate \in [TunTargets -> GateState] /\ targetOK[d] \in BOOLEAN
    BY Zenon DEF TunDialTypeOK
  <1> DEFINE g == Left(gate[target[d]], targetOK[d])
  <1>2. g \in GateState /\ g.inFlight = gate[target[d]].inFlight - 1
    BY Zenon, <1>1, GateReturned
  <1>3. PICK h \in {g, NoGate} : /\ gate' = [gate EXCEPT ![target[d]] = h]
                                 /\ h = NoGate => g.inFlight = 0 \/ h = g
    BY Zenon DEF ReleaseTargetGate
  <1> HIDE DEF g
  <1>4. h \in GateState /\ h.inFlight = g.inFlight
    BY Zenon, <1>2, <1>3, GateNone
  <1> QED  BY Zenon, <1>1, <1>2, <1>3, <1>4

\* reapStaleTargetGates forgets gates without dials.
LEMMA GateReaped ==
    ASSUME TunDialTypeOK, ReapGates
    PROVE  /\ gate' \in [TunTargets -> GateState]
           /\ \A u \in TunTargets : gate'[u].inFlight = gate[u].inFlight
  <1>1. gate \in [TunTargets -> GateState]
    BY Zenon DEF TunDialTypeOK
  <1>2. /\ gate' = [t \in TunTargets |-> IF Stale(gate[t]) THEN NoGate ELSE gate[t]]
        /\ \A t \in TunTargets : Stale(gate[t]) => gate[t].inFlight = 0
    BY Zenon DEF ReapGates, Stale
  <1> QED  BY Zenon, <1>1, <1>2, GateNone

\* Every step keeps the types.
LEMMA DialTypeStep ==
    ASSUME TunDialTypeOK, [TunDialNext]_tunDialVars
    PROVE  TunDialTypeOK'
  <1>a. ASSUME NEW c \in TunDials, CloseTunConn(c)
        PROVE  /\ conn' \in [TunDials -> {"none", "open", "closing"}]
               /\ activeSlots' \in Int /\ tokenHeld' \in [TunDials -> BOOLEAN]
    <2>0. /\ conn \in [TunDials -> {"none", "open", "closing"}]
          /\ activeSlots \in Int /\ tokenHeld \in [TunDials -> BOOLEAN]
      BY Zenon DEF TunDialTypeOK
    <2>1. CASE conn[c] = "open"
      <3>1. /\ conn' = [conn EXCEPT ![c] = "closing"] /\ activeSlots' = activeSlots - 1
            /\ tokenHeld' = [tokenHeld EXCEPT ![c] = FALSE]
        BY Zenon, <1>a, <2>1 DEF CloseTunConn
      <3> QED  BY <2>0, <3>1
    <2>2. CASE conn[c] # "open"
      BY Zenon, <1>a, <2>0, <2>2 DEF CloseTunConn
    <2> QED  BY Zenon, <2>1, <2>2
  <1> USE TunDialerAssumption DEF TunDialTypeOK, InGate, Goes, NotWaiting, dialVars, slotVars, connVars, recVars
  <1>1. ASSUME NEW d \in TunDials, DialStep(d) PROVE TunDialTypeOK'
    <2>1. CASE StartDial(d)
      BY <2>1 DEF StartDial
    <2>2. CASE WaitRecoveryWindow(d)
      BY Zenon, <2>2 DEF WaitRecoveryWindow
    <2>3. CASE RecoveryCancelled(d)
      BY Zenon, <2>3 DEF RecoveryCancelled
    <2>4. CASE RecordDialAdmission(d)
      BY Zenon, <2>4 DEF RecordDialAdmission
    <2>5. CASE AcquireTargetGate(d)
      <3>1. gate' \in [TunTargets -> GateState] /\ (GoesIn(d) \/ Waits(d))
        BY Zenon, <2>5, GateTurn
      <3>2. /\ tpc' \in [TunDials -> {"idle", "recovery", "gate", "gateWait", "record"} \cup InGate]
            /\ waitOn' \in [TunDials -> {"none", "timer", "change"}]
            /\ gateGone' \in [TunDials -> BOOLEAN]
        <4>1. CASE GoesIn(d)
          BY Zenon, <4>1 DEF GoesIn
        <4>2. CASE Waits(d)
          <5>1. PICK w \in {"timer", "change"} : waitOn' = [waitOn EXCEPT ![d] = w]
            BY Zenon, <4>2 DEF Waits
          <5> QED  BY Zenon, <4>2, <5>1 DEF Waits
        <4> QED  BY Zenon, <3>1, <4>1, <4>2
      <3> QED  BY Zenon, <2>5, <3>1, <3>2 DEF AcquireTargetGate
    <2>6. CASE GateTimer(d)
      BY Zenon, <2>6 DEF GateTimer
    <2>7. CASE GateCancelled(d)
      BY Zenon, <2>7 DEF GateCancelled
    <2>8. CASE ReleaseTargetGate(d)
      <3>1. gate' \in [TunTargets -> GateState]
        BY Zenon, <2>8, GateRelease
      <3> QED  BY Zenon, <2>8, <3>1 DEF ReleaseTargetGate
    <2>9. CASE AcquireActiveSlot(d)
      BY <2>9 DEF AcquireActiveSlot
    <2>10. CASE EvictPick(d)
      BY <2>10 DEF EvictPick
    <2>11. CASE EvictClose(d)
      BY Zenon, <2>11, <1>a DEF EvictClose
    <2>12. CASE AcquireOpenPace(d)
      BY Zenon, <2>12 DEF AcquireOpenPace
    <2>13. CASE AcquireOpenSlot(d)
      BY <2>13 DEF AcquireOpenSlot
    <2>14. CASE AttemptOK(d)
      BY Zenon, <2>14 DEF AttemptOK
    <2>15. CASE GiveUpDial(d)
      BY Zenon, <2>15 DEF GiveUpDial
    <2>16. CASE ReleaseOpenSlot(d)
      BY <2>16 DEF ReleaseOpenSlot
    <2>17. CASE ReleaseActiveSlot(d)
      BY <2>17 DEF ReleaseActiveSlot
    <2> QED  BY Zenon, <1>1, <2>1, <2>2, <2>3, <2>4, <2>5, <2>6, <2>7, <2>8, <2>9,
                <2>10, <2>11, <2>12, <2>13, <2>14, <2>15, <2>16, <2>17 DEF DialStep
  <1>2. ASSUME NEW d \in TunDials,
               Unregister(d) \/ OwnerCloses(d) \/ Touch(d) \/ DialTimePasses(d) \/ AbandonDial(d)
        PROVE  TunDialTypeOK'
    <2>1. CASE Unregister(d)
      BY Zenon, <2>1 DEF Unregister
    <2>2. CASE OwnerCloses(d)
      BY Zenon, <2>2, <1>a DEF OwnerCloses
    <2>3. CASE Touch(d)
      BY Zenon, <2>3 DEF Touch
    <2>4. CASE DialTimePasses(d)
      BY Zenon, <2>4 DEF DialTimePasses
    <2>5. CASE AbandonDial(d)
      BY Zenon, <2>5 DEF AbandonDial
    <2> QED  BY Zenon, <1>2, <2>1, <2>2, <2>3, <2>4, <2>5
  <1>3. ASSUME NEW t \in TunTargets, CooldownOver(t) \/ WindowOver(t) PROVE TunDialTypeOK'
    <2>1. gate' \in [TunTargets -> GateState]
      BY Zenon, <1>3, GateTimes
    <2>2. UNCHANGED <<dialVars, slotVars, connVars, reaper, recVars, udp>>
      BY Zenon, <1>3 DEF CooldownOver, WindowOver
    <2> QED  BY Zenon, <2>1, <2>2
  <1>4. CASE ReapPick
    BY Zenon, <1>4 DEF ReapPick
  <1>5. ASSUME NEW d \in TunDials, ReapClose(d) PROVE TunDialTypeOK'
    BY Zenon, <1>5, <1>a DEF ReapClose
  <1>6. CASE ReapGates
    <2>1. gate' \in [TunTargets -> GateState]
      BY Zenon, <1>6, GateReaped
    <2> QED  BY Zenon, <1>6, <2>1 DEF ReapGates
  <1>7. CASE RecoveryOver
    BY Zenon, <1>7 DEF RecoveryOver
  <1>8. CASE DialUDP
    BY <1>8 DEF DialUDP
  <1>9. CASE UNCHANGED tunDialVars
    BY Zenon, <1>9 DEF tunDialVars
  <1> QED  BY Zenon, <1>1, <1>2, <1>3, <1>4, <1>5, <1>6, <1>7, <1>8, <1>9 DEF TunDialNext, ReaperStep

\* Every step keeps what the parts of a dial's state say of each other.
LEMMA DialLinkStep ==
    ASSUME DialInv, [TunDialNext]_tunDialVars
    PROVE  \A e \in TunDials : Linked(e)'
  <1> SUFFICES ASSUME NEW e \in TunDials PROVE Linked(e)'
    BY Zenon
  <1>0. TunDialTypeOK /\ \A x \in TunDials : Linked(x)
    BY Zenon DEF DialInv
  <1> USE <1>0 DEF TunDialTypeOK, InGate, Linked, Goes, NotWaiting, dialVars, slotVars, connVars, recVars
  <1>1. ASSUME NEW d \in TunDials, DialStep(d) PROVE Linked(e)'
    <2>1. CASE StartDial(d)
      BY ZenonT(60), <2>1 DEF StartDial
    <2>2. CASE WaitRecoveryWindow(d)
      BY Zenon, <2>2 DEF WaitRecoveryWindow
    <2>3. CASE RecoveryCancelled(d)
      BY Zenon, <2>3 DEF RecoveryCancelled
    <2>4. CASE RecordDialAdmission(d)
      BY ZenonT(60), <2>4 DEF RecordDialAdmission
    <2>5. CASE AcquireTargetGate(d)
      BY <2>5 DEF AcquireTargetGate
    <2>6. CASE GateTimer(d)
      BY Zenon, <2>6 DEF GateTimer
    <2>7. CASE GateCancelled(d)
      BY Zenon, <2>7 DEF GateCancelled
    <2>8. CASE ReleaseTargetGate(d)
      BY Zenon, <2>8 DEF ReleaseTargetGate, Waiters
    <2>9. CASE AcquireActiveSlot(d)
      BY Zenon, <2>9 DEF AcquireActiveSlot
    <2>10. CASE EvictPick(d)
      BY ZenonT(60), <2>10 DEF EvictPick
    <2>11. CASE EvictClose(d)
      BY <2>11 DEF EvictClose, CloseTunConn
    <2>12. CASE AcquireOpenPace(d)
      BY Zenon, <2>12 DEF AcquireOpenPace
    <2>13. CASE AcquireOpenSlot(d)
      BY Zenon, <2>13 DEF AcquireOpenSlot
    <2>14. CASE AttemptOK(d)
      BY ZenonT(60), <2>14 DEF AttemptOK
    <2>15. CASE GiveUpDial(d)
      BY Zenon, <2>15 DEF GiveUpDial
    <2>16. CASE ReleaseOpenSlot(d)
      BY <2>16 DEF ReleaseOpenSlot
    <2>17. CASE ReleaseActiveSlot(d)
      BY Zenon, <2>17 DEF ReleaseActiveSlot
    <2> QED  BY Zenon, <1>1, <2>1, <2>2, <2>3, <2>4, <2>5, <2>6, <2>7, <2>8, <2>9,
                <2>10, <2>11, <2>12, <2>13, <2>14, <2>15, <2>16, <2>17 DEF DialStep
  <1>2. ASSUME NEW d \in TunDials,
               Unregister(d) \/ OwnerCloses(d) \/ Touch(d) \/ DialTimePasses(d) \/ AbandonDial(d)
        PROVE  Linked(e)'
    <2>1. CASE Unregister(d)
      BY ZenonT(60), <2>1 DEF Unregister
    <2>2. CASE OwnerCloses(d)
      BY <2>2 DEF OwnerCloses, CloseTunConn
    <2>3. CASE Touch(d)
      BY Zenon, <2>3 DEF Touch
    <2>4. CASE DialTimePasses(d)
      BY Zenon, <2>4 DEF DialTimePasses
    <2>5. CASE AbandonDial(d)
      BY Zenon, <2>5 DEF AbandonDial
    <2> QED  BY Zenon, <1>2, <2>1, <2>2, <2>3, <2>4, <2>5
  <1>3. ASSUME NEW t \in TunTargets, CooldownOver(t) \/ WindowOver(t) PROVE Linked(e)'
    BY <1>3 DEF CooldownOver, WindowOver
  <1>4. CASE ReapPick
    BY Zenon, <1>4 DEF ReapPick
  <1>5. ASSUME NEW d \in TunDials, ReapClose(d) PROVE Linked(e)'
    BY <1>5 DEF ReapClose, CloseTunConn
  <1>6. CASE ReapGates
    BY Zenon, <1>6 DEF ReapGates
  <1>7. CASE RecoveryOver
    BY Zenon, <1>7 DEF RecoveryOver
  <1>8. CASE DialUDP
    BY Zenon, <1>8 DEF DialUDP
  <1>9. CASE UNCHANGED tunDialVars
    BY Zenon, <1>9 DEF tunDialVars
  <1> QED  BY Zenon, <1>1, <1>2, <1>3, <1>4, <1>5, <1>6, <1>7, <1>8, <1>9 DEF TunDialNext, ReaperStep

\* What a step may do to the active slots: nothing, or one dial takes or gives one.
ActiveStays == UNCHANGED <<activeSlots, tokenHeld>>
ActiveTaken(x) ==
    /\ ~tokenHeld[x] /\ tokenHeld' = [tokenHeld EXCEPT ![x] = TRUE]
    /\ activeSlots < ActiveCap /\ activeSlots' = activeSlots + 1
ActiveGiven(x) ==
    /\ tokenHeld[x] /\ tokenHeld' = [tokenHeld EXCEPT ![x] = FALSE]
    /\ activeSlots' = activeSlots - 1

\* Every step is one of these, and so keeps the count.
LEMMA ActiveMoves ==
    ASSUME DialInv, [TunDialNext]_tunDialVars
    PROVE  ActiveStays \/ \E x \in TunDials : ActiveTaken(x) \/ ActiveGiven(x)
  <1>0. TunDialTypeOK /\ \A x \in TunDials : Linked(x)
    BY Zenon DEF DialInv
  <1>a. ASSUME NEW c \in TunDials, CloseTunConn(c) PROVE ActiveStays \/ ActiveGiven(c)
    BY Zenon, <1>a, <1>0 DEF CloseTunConn, Linked, ActiveStays, ActiveGiven
  <1> USE <1>0 DEF Goes, NotWaiting, dialVars, slotVars, connVars, recVars
  <1>1. ASSUME NEW d \in TunDials, DialStep(d) PROVE ActiveStays \/ \E x \in TunDials : ActiveTaken(x) \/ ActiveGiven(x)
    <2>1. CASE StartDial(d)
      BY Zenon, <2>1 DEF StartDial, ActiveStays
    <2>2. CASE WaitRecoveryWindow(d)
      BY Zenon, <2>2 DEF WaitRecoveryWindow, ActiveStays
    <2>3. CASE RecoveryCancelled(d)
      BY Zenon, <2>3 DEF RecoveryCancelled, ActiveStays
    <2>4. CASE RecordDialAdmission(d)
      BY Zenon, <2>4 DEF RecordDialAdmission, ActiveStays
    <2>5. CASE AcquireTargetGate(d)
      BY Zenon, <2>5 DEF AcquireTargetGate, ActiveStays
    <2>6. CASE GateTimer(d)
      BY Zenon, <2>6 DEF GateTimer, ActiveStays
    <2>7. CASE GateCancelled(d)
      BY Zenon, <2>7 DEF GateCancelled, ActiveStays
    <2>8. CASE ReleaseTargetGate(d)
      BY Zenon, <2>8 DEF ReleaseTargetGate, ActiveStays
    <2>9. CASE AcquireActiveSlot(d)
      <3>1. ~tokenHeld[d]
        BY Zenon, <2>9, <1>0 DEF AcquireActiveSlot, Linked
      <3> QED  BY Zenon, <2>9, <3>1 DEF AcquireActiveSlot, ActiveTaken
    <2>10. CASE EvictPick(d)
      BY Zenon, <2>10 DEF EvictPick, ActiveStays
    <2>11. CASE EvictClose(d)
      <3>1. victim[d] = NoVictim => ActiveStays
        BY Zenon, <2>11 DEF EvictClose, ActiveStays
      <3>2. victim[d] # NoVictim => victim[d] \in TunDials /\ CloseTunConn(victim[d])
        BY Zenon, <2>11 DEF EvictClose, TunDialTypeOK
      <3> QED  BY Zenon, <3>1, <3>2, <1>a
    <2>12. CASE AcquireOpenPace(d)
      BY Zenon, <2>12 DEF AcquireOpenPace, ActiveStays
    <2>13. CASE AcquireOpenSlot(d)
      BY Zenon, <2>13 DEF AcquireOpenSlot, ActiveStays
    <2>14. CASE AttemptOK(d)
      BY Zenon, <2>14 DEF AttemptOK, ActiveStays
    <2>15. CASE GiveUpDial(d)
      BY Zenon, <2>15 DEF GiveUpDial, ActiveStays
    <2>16. CASE ReleaseOpenSlot(d)
      BY Zenon, <2>16 DEF ReleaseOpenSlot, ActiveStays
    <2>17. CASE ReleaseActiveSlot(d)
      <3>1. tokenHeld[d]
        BY Zenon, <2>17, <1>0 DEF ReleaseActiveSlot, Linked
      <3> QED  BY Zenon, <2>17, <3>1 DEF ReleaseActiveSlot, ActiveGiven
    <2> QED  BY Zenon, <1>1, <2>1, <2>2, <2>3, <2>4, <2>5, <2>6, <2>7, <2>8, <2>9,
                <2>10, <2>11, <2>12, <2>13, <2>14, <2>15, <2>16, <2>17 DEF DialStep
  <1>2. ASSUME NEW d \in TunDials,
               Unregister(d) \/ OwnerCloses(d) \/ Touch(d) \/ DialTimePasses(d) \/ AbandonDial(d)
        PROVE  ActiveStays \/ \E x \in TunDials : ActiveTaken(x) \/ ActiveGiven(x)
    <2>1. CASE Unregister(d)
      BY Zenon, <2>1 DEF Unregister, ActiveStays
    <2>2. CASE OwnerCloses(d)
      BY Zenon, <2>2, <1>a DEF OwnerCloses
    <2>3. CASE Touch(d)
      BY Zenon, <2>3 DEF Touch, ActiveStays
    <2>4. CASE DialTimePasses(d)
      BY Zenon, <2>4 DEF DialTimePasses, ActiveStays
    <2>5. CASE AbandonDial(d)
      BY Zenon, <2>5 DEF AbandonDial, ActiveStays
    <2> QED  BY Zenon, <1>2, <2>1, <2>2, <2>3, <2>4, <2>5
  <1>3. ASSUME NEW t \in TunTargets, CooldownOver(t) \/ WindowOver(t) PROVE ActiveStays \/ \E x \in TunDials : ActiveTaken(x) \/ ActiveGiven(x)
    BY Zenon, <1>3 DEF CooldownOver, WindowOver, ActiveStays
  <1>4. CASE ReapPick
    BY Zenon, <1>4 DEF ReapPick, ActiveStays
  <1>5. ASSUME NEW d \in TunDials, ReapClose(d) PROVE ActiveStays \/ \E x \in TunDials : ActiveTaken(x) \/ ActiveGiven(x)
    BY Zenon, <1>5, <1>a DEF ReapClose
  <1>6. CASE ReapGates
    BY Zenon, <1>6 DEF ReapGates, ActiveStays
  <1>7. CASE RecoveryOver
    BY Zenon, <1>7 DEF RecoveryOver, ActiveStays
  <1>8. CASE DialUDP
    BY Zenon, <1>8 DEF DialUDP, ActiveStays
  <1>9. CASE UNCHANGED tunDialVars
    BY Zenon, <1>9 DEF tunDialVars, ActiveStays
  <1> QED  BY Zenon, <1>1, <1>2, <1>3, <1>4, <1>5, <1>6, <1>7, <1>8, <1>9 DEF TunDialNext, ReaperStep

\* The same of the open slots, which DialUDP takes and gives too.
OthersOpen(x) == \A e \in TunDials \ {x} : e \in Openers <=> e \in Openers'
OpenStays == UNCHANGED <<openSlots, udp>> /\ \A e \in TunDials : e \in Openers <=> e \in Openers'
OpenTaken(x) ==
    /\ OthersOpen(x) /\ x \notin Openers /\ x \in Openers'
    /\ openSlots' = openSlots + 1 /\ UNCHANGED udp
OpenGiven(x) ==
    /\ OthersOpen(x) /\ x \in Openers /\ x \notin Openers'
    /\ openSlots' = openSlots - 1 /\ UNCHANGED udp
OpenUDP ==
    /\ UNCHANGED tpc
    /\ \/ udp = "idle" /\ udp' = "attempt" /\ openSlots' = openSlots + 1
       \/ udp = "attempt" /\ udp' = "idle" /\ openSlots' = openSlots - 1

\* Every step is one of these, and so keeps the count.
LEMMA OpenMoves ==
    ASSUME TunDialTypeOK, [TunDialNext]_tunDialVars
    PROVE  OpenStays \/ (\E x \in TunDials : OpenTaken(x) \/ OpenGiven(x)) \/ OpenUDP
  <1> USE DEF TunDialTypeOK, Openers, Goes, NotWaiting, dialVars, slotVars, connVars, recVars
  <1>1. ASSUME NEW d \in TunDials, DialStep(d) PROVE OpenStays \/ (\E x \in TunDials : OpenTaken(x) \/ OpenGiven(x)) \/ OpenUDP
    <2>1. CASE StartDial(d)
      BY Zenon, <2>1 DEF StartDial, OpenStays
    <2>2. CASE WaitRecoveryWindow(d)
      BY Zenon, <2>2 DEF WaitRecoveryWindow, OpenStays
    <2>3. CASE RecoveryCancelled(d)
      BY Zenon, <2>3 DEF RecoveryCancelled, OpenStays
    <2>4. CASE RecordDialAdmission(d)
      BY Zenon, <2>4 DEF RecordDialAdmission, OpenStays
    <2>5. CASE AcquireTargetGate(d)
      BY ZenonT(60), <2>5 DEF AcquireTargetGate, OpenStays
    <2>6. CASE GateTimer(d)
      BY Zenon, <2>6 DEF GateTimer, OpenStays
    <2>7. CASE GateCancelled(d)
      BY Zenon, <2>7 DEF GateCancelled, OpenStays
    <2>8. CASE ReleaseTargetGate(d)
      BY Zenon, <2>8 DEF ReleaseTargetGate, Waiters, OpenStays
    <2>9. CASE AcquireActiveSlot(d)
      BY Zenon, <2>9 DEF AcquireActiveSlot, OpenStays
    <2>10. CASE EvictPick(d)
      BY Zenon, <2>10 DEF EvictPick, OpenStays
    <2>11. CASE EvictClose(d)
      BY Zenon, <2>11 DEF EvictClose, OpenStays
    <2>12. CASE AcquireOpenPace(d)
      BY Zenon, <2>12 DEF AcquireOpenPace, OpenStays
    <2>13. CASE AcquireOpenSlot(d)
      BY Zenon, <2>13 DEF AcquireOpenSlot, OpenTaken, OthersOpen
    <2>14. CASE AttemptOK(d)
      BY Zenon, <2>14 DEF AttemptOK, OpenStays
    <2>15. CASE GiveUpDial(d)
      BY Zenon, <2>15 DEF GiveUpDial, OpenStays
    <2>16. CASE ReleaseOpenSlot(d)
      BY Zenon, <2>16 DEF ReleaseOpenSlot, OpenGiven, OthersOpen
    <2>17. CASE ReleaseActiveSlot(d)
      BY Zenon, <2>17 DEF ReleaseActiveSlot, OpenStays
    <2> QED  BY Zenon, <1>1, <2>1, <2>2, <2>3, <2>4, <2>5, <2>6, <2>7, <2>8, <2>9,
                <2>10, <2>11, <2>12, <2>13, <2>14, <2>15, <2>16, <2>17 DEF DialStep
  <1>2. ASSUME NEW d \in TunDials,
               Unregister(d) \/ OwnerCloses(d) \/ Touch(d) \/ DialTimePasses(d) \/ AbandonDial(d)
        PROVE  OpenStays \/ (\E x \in TunDials : OpenTaken(x) \/ OpenGiven(x)) \/ OpenUDP
    <2>1. CASE Unregister(d)
      BY Zenon, <2>1 DEF Unregister, OpenStays
    <2>2. CASE OwnerCloses(d)
      BY Zenon, <2>2 DEF OwnerCloses, OpenStays
    <2>3. CASE Touch(d)
      BY Zenon, <2>3 DEF Touch, OpenStays
    <2>4. CASE DialTimePasses(d)
      BY Zenon, <2>4 DEF DialTimePasses, OpenStays
    <2>5. CASE AbandonDial(d)
      BY Zenon, <2>5 DEF AbandonDial, OpenStays
    <2> QED  BY Zenon, <1>2, <2>1, <2>2, <2>3, <2>4, <2>5
  <1>3. ASSUME NEW t \in TunTargets, CooldownOver(t) \/ WindowOver(t) PROVE OpenStays \/ (\E x \in TunDials : OpenTaken(x) \/ OpenGiven(x)) \/ OpenUDP
    BY Zenon, <1>3 DEF CooldownOver, WindowOver, OpenStays
  <1>4. CASE ReapPick
    BY Zenon, <1>4 DEF ReapPick, OpenStays
  <1>5. ASSUME NEW d \in TunDials, ReapClose(d) PROVE OpenStays \/ (\E x \in TunDials : OpenTaken(x) \/ OpenGiven(x)) \/ OpenUDP
    BY Zenon, <1>5 DEF ReapClose, OpenStays
  <1>6. CASE ReapGates
    BY Zenon, <1>6 DEF ReapGates, OpenStays
  <1>7. CASE RecoveryOver
    BY Zenon, <1>7 DEF RecoveryOver, OpenStays
  <1>8. CASE DialUDP
    BY Zenon, <1>8 DEF DialUDP, OpenUDP
  <1>9. CASE UNCHANGED tunDialVars
    BY Zenon, <1>9 DEF tunDialVars, OpenStays
  <1> QED  BY Zenon, <1>1, <1>2, <1>3, <1>4, <1>5, <1>6, <1>7, <1>8, <1>9 DEF TunDialNext, ReaperStep

\* The same of the gates: a dial goes in at the gate of its target, or out.
Elsewhere(x) ==
    /\ \A e \in TunDials \ {x} : (tpc[e] \in InGate <=> tpc'[e] \in InGate) /\ target'[e] = target[e]
    /\ target'[x] = target[x]
    /\ \A t \in TunTargets \ {target[x]} : gate'[t].inFlight = gate[t].inFlight
GatesStay ==
    /\ \A t \in TunTargets : gate'[t].inFlight = gate[t].inFlight
    /\ \A e \in TunDials : /\ tpc[e] \in InGate <=> tpc'[e] \in InGate
                           /\ tpc[e] \in InGate => target'[e] = target[e]
GateEntered(x) ==
    /\ Elsewhere(x) /\ tpc[x] \notin InGate /\ tpc'[x] \in InGate
    /\ gate[target[x]].inFlight < PerTarget
    /\ gate'[target[x]].inFlight = gate[target[x]].inFlight + 1
GateLeft(x) ==
    /\ Elsewhere(x) /\ tpc[x] \in InGate /\ tpc'[x] \notin InGate
    /\ gate'[target[x]].inFlight = gate[target[x]].inFlight - 1

\* Every step is one of these, and so keeps the count.
LEMMA GateMoves ==
    ASSUME TunDialTypeOK, [TunDialNext]_tunDialVars
    PROVE  GatesStay \/ \E x \in TunDials : GateEntered(x) \/ GateLeft(x)
  <1> USE DEF TunDialTypeOK, InGate, Goes, NotWaiting, dialVars, slotVars, connVars, recVars
  <1>1. ASSUME NEW d \in TunDials, DialStep(d) PROVE GatesStay \/ \E x \in TunDials : GateEntered(x) \/ GateLeft(x)
    <2>1. CASE StartDial(d)
      BY Zenon, <2>1 DEF StartDial, GatesStay
    <2>2. CASE WaitRecoveryWindow(d)
      BY Zenon, <2>2 DEF WaitRecoveryWindow, GatesStay
    <2>3. CASE RecoveryCancelled(d)
      BY Zenon, <2>3 DEF RecoveryCancelled, GatesStay
    <2>4. CASE RecordDialAdmission(d)
      BY Zenon, <2>4 DEF RecordDialAdmission, GatesStay
    <2>5. CASE AcquireTargetGate(d)
      <3>1. target[d] \in TunTargets /\ tpc[d] = "gate" /\ UNCHANGED target
        BY Zenon, <2>5 DEF AcquireTargetGate
      <3>2. CASE GoesIn(d)
        <4>1. GateEntered(d)
          BY Zenon, <3>1, <3>2 DEF GoesIn, GateEntered, Elsewhere
        <4> QED  BY Zenon, <4>1
      <3>3. CASE Waits(d)
        BY Zenon, <3>1, <3>3 DEF Waits, GatesStay
      <3> QED  BY Zenon, <2>5, <3>2, <3>3, GateTurn
    <2>6. CASE GateTimer(d)
      BY Zenon, <2>6 DEF GateTimer, GatesStay
    <2>7. CASE GateCancelled(d)
      BY Zenon, <2>7 DEF GateCancelled, GatesStay
    <2>8. CASE ReleaseTargetGate(d)
      <3>1. /\ gate'[target[d]].inFlight = gate[target[d]].inFlight - 1
            /\ \A u \in TunTargets \ {target[d]} : gate'[u] = gate[u]
        BY Zenon, <2>8, GateRelease
      <3>2. /\ tpc[d] = "unwindGate" /\ tpc'[d] = "record" /\ UNCHANGED target
            /\ \A e \in TunDials \ {d} : tpc[e] \in InGate <=> tpc'[e] \in InGate
        BY Zenon, <2>8 DEF ReleaseTargetGate, Waiters
      <3>3. GateLeft(d)
        BY Zenon, <3>1, <3>2 DEF GateLeft, Elsewhere
      <3> QED  BY Zenon, <3>3
    <2>9. CASE AcquireActiveSlot(d)
      BY Zenon, <2>9 DEF AcquireActiveSlot, GatesStay
    <2>10. CASE EvictPick(d)
      BY Zenon, <2>10 DEF EvictPick, GatesStay
    <2>11. CASE EvictClose(d)
      BY Zenon, <2>11 DEF EvictClose, GatesStay
    <2>12. CASE AcquireOpenPace(d)
      BY Zenon, <2>12 DEF AcquireOpenPace, GatesStay
    <2>13. CASE AcquireOpenSlot(d)
      BY Zenon, <2>13 DEF AcquireOpenSlot, GatesStay
    <2>14. CASE AttemptOK(d)
      BY Zenon, <2>14 DEF AttemptOK, GatesStay
    <2>15. CASE GiveUpDial(d)
      BY Zenon, <2>15 DEF GiveUpDial, GatesStay
    <2>16. CASE ReleaseOpenSlot(d)
      BY Zenon, <2>16 DEF ReleaseOpenSlot, GatesStay
    <2>17. CASE ReleaseActiveSlot(d)
      BY Zenon, <2>17 DEF ReleaseActiveSlot, GatesStay
    <2> QED  BY ZenonT(60), <1>1, <2>1, <2>2, <2>3, <2>4, <2>5, <2>6, <2>7, <2>8, <2>9,
                <2>10, <2>11, <2>12, <2>13, <2>14, <2>15, <2>16, <2>17 DEF DialStep
  <1>2. ASSUME NEW d \in TunDials,
               Unregister(d) \/ OwnerCloses(d) \/ Touch(d) \/ DialTimePasses(d) \/ AbandonDial(d)
        PROVE  GatesStay \/ \E x \in TunDials : GateEntered(x) \/ GateLeft(x)
    <2>1. CASE Unregister(d)
      BY Zenon, <2>1 DEF Unregister, GatesStay
    <2>2. CASE OwnerCloses(d)
      BY Zenon, <2>2 DEF OwnerCloses, GatesStay
    <2>3. CASE Touch(d)
      BY Zenon, <2>3 DEF Touch, GatesStay
    <2>4. CASE DialTimePasses(d)
      BY Zenon, <2>4 DEF DialTimePasses, GatesStay
    <2>5. CASE AbandonDial(d)
      BY Zenon, <2>5 DEF AbandonDial, GatesStay
    <2> QED  BY Zenon, <1>2, <2>1, <2>2, <2>3, <2>4, <2>5
  <1>3. ASSUME NEW t \in TunTargets, CooldownOver(t) \/ WindowOver(t) PROVE GatesStay \/ \E x \in TunDials : GateEntered(x) \/ GateLeft(x)
    <2>1. \A u \in TunTargets : gate'[u].inFlight = gate[u].inFlight
      BY Zenon, <1>3, GateTimes
    <2> QED  BY Zenon, <1>3, <2>1 DEF CooldownOver, WindowOver, GatesStay
  <1>4. CASE ReapPick
    BY Zenon, <1>4 DEF ReapPick, GatesStay
  <1>5. ASSUME NEW d \in TunDials, ReapClose(d) PROVE GatesStay \/ \E x \in TunDials : GateEntered(x) \/ GateLeft(x)
    BY Zenon, <1>5 DEF ReapClose, GatesStay
  <1>6. CASE ReapGates
    <2>1. \A u \in TunTargets : gate'[u].inFlight = gate[u].inFlight
      BY Zenon, <1>6, GateReaped
    <2> QED  BY Zenon, <1>6, <2>1 DEF ReapGates, GatesStay
  <1>7. CASE RecoveryOver
    BY Zenon, <1>7 DEF RecoveryOver, GatesStay
  <1>8. CASE DialUDP
    BY Zenon, <1>8 DEF DialUDP, GatesStay
  <1>9. CASE UNCHANGED tunDialVars
    BY Zenon, <1>9 DEF tunDialVars, GatesStay
  <1> QED  BY Zenon, <1>1, <1>2, <1>3, <1>4, <1>5, <1>6, <1>7, <1>8, <1>9 DEF TunDialNext, ReaperStep

\* NoLostWakeup of one dial.
Woken(e) ==
    tpc[e] = "gateWait" /\ waitOn[e] = "change" =>
        ~gateGone[e] /\ gate[target[e]].inFlight = PerTarget

\* No step leaves a dial waiting for a change of a gate that has room.
LEMMA WakeStep ==
    ASSUME DialInv, [TunDialNext]_tunDialVars
    PROVE  NoLostWakeup'
  <1> SUFFICES ASSUME NEW e \in TunDials PROVE Woken(e)'
    BY Zenon DEF NoLostWakeup, Woken
  <1>0. TunDialTypeOK /\ Woken(e) /\ \A t \in TunTargets : GateCounted(t)
    BY Zenon DEF DialInv, NoLostWakeup, Woken
  <1> USE <1>0 DEF TunDialTypeOK, InGate, Woken, Goes, NotWaiting, dialVars, slotVars, connVars, recVars
  <1>1. ASSUME NEW d \in TunDials, DialStep(d) PROVE Woken(e)'
    <2>1. CASE StartDial(d)
      BY Zenon, <2>1 DEF StartDial
    <2>2. CASE WaitRecoveryWindow(d)
      BY Zenon, <2>2 DEF WaitRecoveryWindow
    <2>3. CASE RecoveryCancelled(d)
      BY Zenon, <2>3 DEF RecoveryCancelled
    <2>4. CASE RecordDialAdmission(d)
      BY Zenon, <2>4 DEF RecordDialAdmission
    <2>5. CASE AcquireTargetGate(d)
      <3>1. /\ target[d] \in TunTargets /\ UNCHANGED target /\ gate[target[d]].inFlight \in Int
            /\ PerTarget \in Nat /\ gate[target[d]].inFlight <= PerTarget
        BY Zenon, <2>5, GateCount, TunDialerAssumption DEF AcquireTargetGate, GateCounted
      <3>2. CASE GoesIn(d)
        <4>1. CASE e = d
          BY Zenon, <3>2, <4>1 DEF GoesIn
        <4>2. CASE e # d /\ target[e] # target[d]
          BY Zenon, <3>1, <3>2, <4>2 DEF GoesIn
        <4>3. CASE e # d /\ target[e] = target[d]
          <5>1. gate[target[e]].inFlight # PerTarget
            BY <3>1, <3>2, <4>3 DEF GoesIn
          <5> QED  BY Zenon, <3>2, <4>3, <5>1 DEF GoesIn
        <4> QED  BY Zenon, <4>1, <4>2, <4>3
      <3>3. CASE Waits(d)
        <4>1. gate'[target'[e]].inFlight = gate[target[e]].inFlight
          BY Zenon, <3>1, <3>3 DEF Waits
        <4>2. CASE e = d
          <5>1. waitOn'[d] = "change" => gate[target[d]].inFlight = PerTarget
            <6>1. PICK w \in {"timer", "change"} :
                     /\ waitOn' = [waitOn EXCEPT ![d] = w]
                     /\ w = "change" => ~(gate[target[d]].inFlight < PerTarget)
              BY Zenon, <3>3 DEF Waits
            <6>2. waitOn'[d] = w
              BY Zenon, <6>1
            <6> QED  BY <3>1, <6>1, <6>2
          <5>2. gateGone'[d] = FALSE
            BY Zenon, <3>3 DEF Waits
          <5> QED  BY Zenon, <4>1, <4>2, <5>1, <5>2
        <4>3. CASE e # d
          <5>1. UNCHANGED <<tpc[e], waitOn[e], gateGone[e]>>
            BY Zenon, <3>3, <4>3 DEF Waits
          <5> QED  BY Zenon, <4>1, <5>1
        <4> QED  BY Zenon, <4>2, <4>3
      <3> QED  BY Zenon, <2>5, <3>2, <3>3, GateTurn
    <2>6. CASE GateTimer(d)
      BY Zenon, <2>6 DEF GateTimer
    <2>7. CASE GateCancelled(d)
      BY Zenon, <2>7 DEF GateCancelled
    <2>8. CASE ReleaseTargetGate(d)
      <3>1. target[d] \in TunTargets
        BY Zenon
      <3>2. CASE target[e] = target[d]
        BY Zenon, <2>8, <3>2 DEF ReleaseTargetGate, Waiters
      <3>3. CASE target[e] # target[d]
        BY Zenon, <2>8, <3>1, <3>3 DEF ReleaseTargetGate, Waiters
      <3> QED  BY Zenon, <3>2, <3>3
    <2>9. CASE AcquireActiveSlot(d)
      BY Zenon, <2>9 DEF AcquireActiveSlot
    <2>10. CASE EvictPick(d)
      BY Zenon, <2>10 DEF EvictPick
    <2>11. CASE EvictClose(d)
      BY Zenon, <2>11 DEF EvictClose
    <2>12. CASE AcquireOpenPace(d)
      BY Zenon, <2>12 DEF AcquireOpenPace
    <2>13. CASE AcquireOpenSlot(d)
      BY Zenon, <2>13 DEF AcquireOpenSlot
    <2>14. CASE AttemptOK(d)
      BY Zenon, <2>14 DEF AttemptOK
    <2>15. CASE GiveUpDial(d)
      BY Zenon, <2>15 DEF GiveUpDial
    <2>16. CASE ReleaseOpenSlot(d)
      BY Zenon, <2>16 DEF ReleaseOpenSlot
    <2>17. CASE ReleaseActiveSlot(d)
      BY Zenon, <2>17 DEF ReleaseActiveSlot
    <2> QED  BY ZenonT(60), <1>1, <2>1, <2>2, <2>3, <2>4, <2>5, <2>6, <2>7, <2>8, <2>9,
                <2>10, <2>11, <2>12, <2>13, <2>14, <2>15, <2>16, <2>17 DEF DialStep
  <1>2. ASSUME NEW d \in TunDials,
               Unregister(d) \/ OwnerCloses(d) \/ Touch(d) \/ DialTimePasses(d) \/ AbandonDial(d)
        PROVE  Woken(e)'
    <2>1. CASE Unregister(d)
      BY Zenon, <2>1 DEF Unregister
    <2>2. CASE OwnerCloses(d)
      BY Zenon, <2>2 DEF OwnerCloses
    <2>3. CASE Touch(d)
      BY Zenon, <2>3 DEF Touch
    <2>4. CASE DialTimePasses(d)
      BY Zenon, <2>4 DEF DialTimePasses
    <2>5. CASE AbandonDial(d)
      BY Zenon, <2>5 DEF AbandonDial
    <2> QED  BY Zenon, <1>2, <2>1, <2>2, <2>3, <2>4, <2>5
  <1>3. ASSUME NEW t \in TunTargets, CooldownOver(t) \/ WindowOver(t) PROVE Woken(e)'
    <2>1. gate'[target[e]].inFlight = gate[target[e]].inFlight
      BY Zenon, <1>3, GateTimes
    <2>2. UNCHANGED <<dialVars, slotVars, connVars, reaper, recVars, udp>>
      BY Zenon, <1>3 DEF CooldownOver, WindowOver
    <2> QED  BY Zenon, <2>1, <2>2
  <1>4. CASE ReapPick
    BY Zenon, <1>4 DEF ReapPick
  <1>5. ASSUME NEW d \in TunDials, ReapClose(d) PROVE Woken(e)'
    BY Zenon, <1>5 DEF ReapClose
  <1>6. CASE ReapGates
    BY Zenon, <1>6, TunDialerAssumption DEF ReapGates, Stale
  <1>7. CASE RecoveryOver
    BY Zenon, <1>7 DEF RecoveryOver
  <1>8. CASE DialUDP
    BY Zenon, <1>8 DEF DialUDP
  <1>9. CASE UNCHANGED tunDialVars
    BY Zenon, <1>9 DEF tunDialVars
  <1> QED  BY Zenon, <1>1, <1>2, <1>3, <1>4, <1>5, <1>6, <1>7, <1>8, <1>9 DEF TunDialNext, ReaperStep

-----------------------------------------------------------------------------
(***************************************************************************)
(* The way down of a FragPoC stream.  The scheduler reserves room with the *)
(* number of polls in flight, not with the ones that may still answer, so  *)
(* the invariant says that inFlight counts all polls that are not at rest. *)
(***************************************************************************)
Outcomes == {"", "transient", "fatal", "idle", "closed", "eof", "data"}

PollState ==
    [at : {"rest", "sent", "held", "waiting", "answered", "done"}, ack : Nat, rt : BOOLEAN,
     frame : Nat \cup {NoFrame}, outcome : Outcomes]

Channels == frameCh \in Seq(Nat) /\ ring \in Seq(Nat) /\ downCh \in Seq(Nat)

Polls ==
    /\ poll \in [PollWorkers -> PollState]
    /\ \A p \in PollWorkers : poll[p].at = "held" => poll[p].frame # NoFrame

Numbers ==
    /\ made \in Nat /\ nextSeq \in Nat /\ inFlight \in Int
    /\ eofAt \in Nat \cup {NoFrame} /\ eofSeq \in Nat \cup {NoFrame}
    /\ producer = "offering" => made > 0

FragTypeOK == Channels /\ Polls /\ Numbers

BusyPolls == {p \in PollWorkers : poll[p].at # "rest"}

InFlightCounted == inFlight = Cardinality(BusyPolls)

\* The end is known once it was read, and the reader knows no other.
EOFKnown ==
    /\ producer = "reading" => eofAt = NoFrame
    /\ eofSeq # NoFrame => eofSeq = eofAt
    /\ EOFComplete

FragInv == FragTypeOK /\ InFlightCounted /\ DownChHasRoom /\ EOFKnown

LEMMA NoFrameIsNone == NoFrame \in Int /\ NoFrame \notin Nat
  BY DEF NoFrame

\* The states a poll goes through are states of a poll.
LEMMA RestState == Rest \in PollState /\ Rest.at = "rest"
  BY Zenon DEF Rest, PollState, Outcomes

LEMMA AnsweredState ==
    ASSUME NEW f \in Nat \cup {NoFrame}
    PROVE  /\ [Rest EXCEPT !.at = "answered", !.frame = f] \in PollState
           /\ [Rest EXCEPT !.at = "answered", !.frame = f].at = "answered"
  BY Zenon DEF Rest, PollState, Outcomes

LEMMA SentState ==
    ASSUME NEW a \in Nat
    PROVE  /\ [Rest EXCEPT !.at = "sent", !.ack = a] \in PollState
           /\ [Rest EXCEPT !.at = "sent", !.ack = a].at = "sent"
  BY Zenon DEF Rest, PollState, Outcomes

LEMMA DoneState ==
    ASSUME NEW o \in Outcomes
    PROVE  /\ [Rest EXCEPT !.at = "done", !.outcome = o] \in PollState
           /\ [Rest EXCEPT !.at = "done", !.outcome = o].at = "done"
  BY Zenon DEF Rest, PollState, Outcomes

LEMMA WaitingState ==
    ASSUME NEW r \in PollState, NEW b \in BOOLEAN
    PROVE  /\ [r EXCEPT !.at = "waiting", !.rt = b] \in PollState
           /\ [r EXCEPT !.at = "waiting", !.rt = b].at = "waiting"
  BY Zenon DEF PollState

LEMMA StateFields ==
    ASSUME NEW r \in PollState
    PROVE  r.ack \in Nat /\ r.rt \in BOOLEAN /\ r.frame \in Nat \cup {NoFrame} /\ r.outcome \in Outcomes
  BY Zenon DEF PollState

-----------------------------------------------------------------------------
(* What a step of a poll does: it goes on, begins, ends or is over. *)

OnItsWay == {"sent", "held", "waiting", "answered"}

\* findReplay, on a ring that holds something, returns a frame.
ReplayKnown == ring # <<>> => \A n \in Nat : FindReplay(n) \in Nat

GoesOn(p, r) ==
    poll[p].at \in OnItsWay /\ r.at \in OnItsWay /\ UNCHANGED <<downCh, inFlight>>
Begins(p, r) ==
    /\ poll[p].at = "rest" /\ r.at \in OnItsWay /\ UNCHANGED downCh
    /\ Len(downCh) + inFlight < DownChCap /\ inFlight' = inFlight + 1
Ends(p, r) ==
    /\ poll[p].at \in OnItsWay /\ r.at = "done" /\ UNCHANGED inFlight
    /\ downCh' = downCh \/ \E f \in Nat : downCh' = Append(downCh, f)
IsOver(p, r) ==
    poll[p].at = "done" /\ r.at = "rest" /\ UNCHANGED downCh /\ inFlight' = inFlight - 1

Moves(p, r) ==
    /\ poll' = [poll EXCEPT ![p] = r] /\ (r.at = "held" => r.frame # NoFrame)
    /\ GoesOn(p, r) \/ Begins(p, r) \/ Ends(p, r) \/ IsOver(p, r)
    /\ frameCh' \in Seq(Nat) /\ UNCHANGED <<producer, made, eofAt, ring, nextSeq, eofSeq>>

\* A poll takes one such step at a time.
LEMMA PollMoves ==
    ASSUME FragTypeOK, ReplayKnown, NEW p \in PollWorkers, PollStep(p) \/ TimesOut(p) \/ FailsForGood(p)
    PROVE  \E r \in PollState : Moves(p, r)
  <1>0. /\ poll[p] \in PollState /\ poll[p].ack \in Nat /\ poll[p].rt \in BOOLEAN
        /\ poll[p].frame \in Nat \cup {NoFrame}
        /\ poll[p].at = "held" => poll[p].frame \in Nat
        /\ frameCh \in Seq(Nat) /\ ring \in Seq(Nat) /\ nextSeq \in Nat
    BY Zenon, StateFields DEF FragTypeOK, Channels, Polls, Numbers
  <1> USE DEF server, sched, reader
  <1>1. ASSUME NEW f \in Nat \cup {NoFrame}, Answer(p, f), poll[p].at \in OnItsWay,
               UNCHANGED <<downCh, inFlight>>, frameCh' \in Seq(Nat),
               UNCHANGED <<producer, made, eofAt, ring, nextSeq, eofSeq>>
        PROVE  \E r \in PollState : Moves(p, r)
    <2> DEFINE r == [Rest EXCEPT !.at = "answered", !.frame = f]
    <2>1. r \in PollState /\ r.at = "answered" /\ poll' = [poll EXCEPT ![p] = r]
      BY Zenon, <1>1, AnsweredState DEF Answer
    <2> HIDE DEF r
    <2> QED  BY Zenon, <1>1, <2>1 DEF Moves, GoesOn, OnItsWay
  <1>2. ASSUME NEW b \in BOOLEAN, Hold(p, b), frameCh # <<>>, poll[p].at \in OnItsWay,
               UNCHANGED <<downCh, inFlight>>,
               UNCHANGED <<producer, made, eofAt, ring, nextSeq, eofSeq>>
        PROVE  \E r \in PollState : Moves(p, r)
    <2> DEFINE h == Head(frameCh)
               r == [poll[p] EXCEPT !.at = "held", !.rt = b, !.frame = h]
    <2>1. h \in Nat /\ Tail(frameCh) \in Seq(Nat)
      BY <1>0, <1>2
    <2>2. poll' = [poll EXCEPT ![p] = r] /\ frameCh' = Tail(frameCh)
      BY Zenon, <1>2 DEF Hold
    <2> HIDE DEF h
    <2>3. r \in PollState /\ r.at = "held" /\ r.frame # NoFrame
      BY Zenon, <1>0, <1>2, <2>1, NoFrameIsNone DEF PollState
    <2> HIDE DEF r
    <2> QED  BY Zenon, <1>2, <2>1, <2>2, <2>3 DEF Moves, GoesOn, OnItsWay
  <1>3. ASSUME NEW o \in Outcomes, Outcome(p, o), poll[p].at \in OnItsWay,
               downCh' = downCh \/ \E f \in Nat : downCh' = Append(downCh, f),
               UNCHANGED <<inFlight, frameCh, producer, made, eofAt, ring, nextSeq, eofSeq>>
        PROVE  \E r \in PollState : Moves(p, r)
    <2> DEFINE r == [Rest EXCEPT !.at = "done", !.outcome = o]
    <2>1. r \in PollState /\ r.at = "done" /\ poll' = [poll EXCEPT ![p] = r]
      BY Zenon, <1>3, DoneState DEF Outcome
    <2> HIDE DEF r
    <2> QED  BY Zenon, <1>0, <1>3, <2>1 DEF Moves, Ends
  <1>4. CASE Arrive(p)
    <2>1. /\ poll[p].at \in OnItsWay /\ UNCHANGED <<downCh, inFlight>>
          /\ UNCHANGED <<producer, made, eofAt, ring, nextSeq, eofSeq>>
      BY Zenon, <1>4 DEF Arrive, OnItsWay
    <2> DEFINE b == poll[p].ack = lastAck /\ served + 1 > RetransmitAfter
    <2>2. CASE frameCh # <<>>
      <3>1. Hold(p, b) /\ b \in BOOLEAN
        BY Zenon, <1>4, <2>2 DEF Arrive
      <3> HIDE DEF b
      <3> QED  BY Zenon, <1>2, <2>1, <2>2, <3>1
    <2>3. CASE frameCh = <<>> /\ ring # <<>>
      <3>1. Answer(p, FindReplay(poll[p].ack)) /\ frameCh' = frameCh
        BY Zenon, <1>4, <2>3 DEF Arrive
      <3>2. FindReplay(poll[p].ack) \in Nat
        BY Zenon, <1>0, <2>3 DEF ReplayKnown
      <3> QED  BY Zenon, <1>0, <1>1, <2>1, <3>1, <3>2
    <2>4. CASE frameCh = <<>> /\ ring = <<>>
      <3> DEFINE r == [poll[p] EXCEPT !.at = "waiting", !.rt = b]
      <3>1. poll' = [poll EXCEPT ![p] = r] /\ frameCh' = frameCh
        BY Zenon, <1>4, <2>4 DEF Arrive
      <3>2. r \in PollState /\ r.at = "waiting"
        BY Zenon, <1>0, WaitingState
      <3> HIDE DEF r
      <3> QED  BY Zenon, <1>0, <2>1, <3>1, <3>2 DEF Moves, GoesOn, OnItsWay
    <2> QED  BY Zenon, <2>2, <2>3, <2>4
  <1>5. CASE Reply(p)
    <2>1. /\ poll[p].at = "held" /\ UNCHANGED <<downCh, inFlight>>
          /\ UNCHANGED <<producer, made, eofAt, ring, nextSeq, eofSeq>>
          /\ \/ Answer(p, poll[p].ack) /\ frameCh' \in {frameCh, Append(frameCh, poll[p].frame)}
             \/ Answer(p, poll[p].frame) /\ frameCh' = frameCh
      BY Zenon, <1>5 DEF Reply
    <2>2. poll[p].frame \in Nat /\ poll[p].at \in OnItsWay
      BY Zenon, <1>0, <2>1 DEF OnItsWay
    <2>3. frameCh' \in Seq(Nat)
      <3>1. Append(frameCh, poll[p].frame) \in Seq(Nat)
        BY <1>0, <2>2
      <3> QED  BY Zenon, <1>0, <2>1, <3>1
    <2> QED  BY Zenon, <1>0, <1>1, <2>1, <2>2, <2>3
  <1>6. CASE PollWoken(p)
    <2>1. /\ poll[p].at \in OnItsWay /\ UNCHANGED <<downCh, inFlight>> /\ frameCh # <<>>
          /\ UNCHANGED <<producer, made, eofAt, ring, nextSeq, eofSeq>> /\ Hold(p, poll[p].rt)
      BY Zenon, <1>6 DEF PollWoken, OnItsWay
    <2> QED  BY Zenon, <1>0, <1>2, <2>1
  <1>7. CASE WaitOver(p)
    <2>1. /\ poll[p].at \in OnItsWay /\ UNCHANGED <<downCh, inFlight>>
          /\ UNCHANGED <<producer, made, eofAt, ring, nextSeq, eofSeq>>
      BY Zenon, <1>7 DEF WaitOver, OnItsWay
    <2>2. CASE frameCh # <<>>
      <3>1. Head(frameCh) \in Nat /\ Tail(frameCh) \in Seq(Nat)
        BY <1>0, <2>2
      <3>2. Answer(p, Head(frameCh)) /\ frameCh' = Tail(frameCh)
        BY Zenon, <1>7, <2>2 DEF WaitOver
      <3> QED  BY Zenon, <1>1, <2>1, <3>1, <3>2
    <2>3. CASE frameCh = <<>> /\ ring # <<>>
      <3>1. Answer(p, FindReplay(poll[p].ack)) /\ frameCh' = frameCh
        BY Zenon, <1>7, <2>3 DEF WaitOver
      <3>2. FindReplay(poll[p].ack) \in Nat
        BY Zenon, <1>0, <2>3 DEF ReplayKnown
      <3> QED  BY Zenon, <1>0, <1>1, <2>1, <3>1, <3>2
    <2>4. CASE frameCh = <<>> /\ ring = <<>>
      <3>1. Answer(p, NoFrame) /\ frameCh' = frameCh
        BY Zenon, <1>7, <2>4 DEF WaitOver
      <3> QED  BY Zenon, <1>0, <1>1, <2>1, <3>1
    <2> QED  BY Zenon, <2>2, <2>3, <2>4
  <1>8. CASE Pick(p)
    <2> DEFINE r == [Rest EXCEPT !.at = "sent", !.ack = nextSeq]
    <2>1. r \in PollState /\ r.at = "sent"
      BY Zenon, <1>0, SentState
    <2>2. /\ poll[p].at = "rest" /\ poll' = [poll EXCEPT ![p] = r]
          /\ Len(downCh) + inFlight < DownChCap /\ inFlight' = inFlight + 1
          /\ UNCHANGED <<downCh, frameCh, producer, made, eofAt, ring, nextSeq, eofSeq>>
      BY Zenon, <1>8 DEF Pick
    <2> HIDE DEF r
    <2> QED  BY Zenon, <1>0, <2>1, <2>2 DEF Moves, Begins, OnItsWay
  <1>9. CASE Deliver(p)
    <2>1. /\ poll[p].at \in OnItsWay
          /\ Outcome(p, "idle") \/ Outcome(p, "closed") \/ Outcome(p, "eof") \/ Outcome(p, "data")
          /\ \/ downCh' = downCh
             \/ poll[p].frame # NoFrame /\ downCh' = Append(downCh, poll[p].frame)
          /\ UNCHANGED <<inFlight, frameCh, producer, made, eofAt, ring, nextSeq, eofSeq>>
      BY Zenon, <1>9 DEF Deliver, OnItsWay
    <2>2. poll[p].frame # NoFrame => poll[p].frame \in Nat
      BY Zenon, <1>0
    <2>3. \E o \in Outcomes : Outcome(p, o)
      BY Zenon, <2>1 DEF Outcomes
    <2> QED  BY Zenon, <1>3, <2>1, <2>2, <2>3
  <1>10. CASE Finish(p)
    <2>1. /\ poll[p].at = "done" /\ poll' = [poll EXCEPT ![p] = Rest] /\ inFlight' = inFlight - 1
          /\ UNCHANGED <<downCh, frameCh, producer, made, eofAt, ring, nextSeq, eofSeq>>
      BY Zenon, <1>10 DEF Finish
    <2> QED  BY Zenon, <1>0, <2>1, RestState DEF Moves, IsOver
  <1>11. CASE TimesOut(p) \/ FailsForGood(p)
    <2>1. /\ poll[p].at \in OnItsWay
          /\ Outcome(p, "transient") \/ Outcome(p, "fatal")
          /\ UNCHANGED <<downCh, inFlight, frameCh, producer, made, eofAt, ring, nextSeq, eofSeq>>
      BY Zenon, <1>11 DEF TimesOut, FailsForGood, OnItsWay
    <2>2. \E o \in Outcomes : Outcome(p, o)
      BY Zenon, <2>1 DEF Outcomes
    <2> QED  BY Zenon, <1>3, <2>1, <2>2
  <1> QED  BY Zenon, <1>4, <1>5, <1>6, <1>7, <1>8, <1>9, <1>10, <1>11 DEF PollStep

\* Every step keeps the types.
LEMMA FragTypeStep ==
    ASSUME FragTypeOK, ReplayKnown, [FragNext]_fragVars
    PROVE  FragTypeOK'
  <1> USE DEF server, sched, reader
  <1>1. ASSUME NEW p \in PollWorkers, PollStep(p) \/ TimesOut(p) \/ FailsForGood(p)
        PROVE  FragTypeOK'
    <2>1. PICK r \in PollState : Moves(p, r)
      BY Zenon, <1>1, PollMoves
    <2>2. Polls'
      BY Zenon, <2>1 DEF FragTypeOK, Polls, Moves
    <2>3. downCh' \in Seq(Nat) /\ inFlight' \in Int
      <3>1. downCh \in Seq(Nat) /\ inFlight \in Int
        BY Zenon DEF FragTypeOK, Channels, Numbers
      <3>2. /\ downCh' = downCh \/ \E f \in Nat : downCh' = Append(downCh, f)
            /\ inFlight' \in {inFlight, inFlight + 1, inFlight - 1}
        BY Zenon, <2>1 DEF Moves, GoesOn, Begins, Ends, IsOver
      <3> QED  BY <3>1, <3>2
    <2>4. Channels'
      BY Zenon, <2>1, <2>3 DEF FragTypeOK, Channels, Moves
    <2>5. Numbers'
      BY Zenon, <2>1, <2>3 DEF FragTypeOK, Numbers, Moves
    <2> QED  BY Zenon, <2>2, <2>4, <2>5 DEF FragTypeOK
  <1>2. CASE Produce
    <2>1. Pushed(made) \in Seq(Nat)
      <3>1. RingSize \in Nat \ {0}
        BY Zenon, FragDownAssumption
      <3>2. ring \in Seq(Nat) /\ made \in Nat
        BY Zenon DEF FragTypeOK, Channels, Numbers
      <3>3. ~(Len(ring) < RingSize) => ring # <<>>
        BY <3>1, <3>2
      <3>4. ring # <<>> => Tail(ring) \in Seq(Nat)
        BY <3>2
      <3> QED  BY <3>2, <3>3, <3>4 DEF Pushed
    <2>2. Channels' /\ Polls'
      BY Zenon, <1>2, <2>1 DEF Produce, FragTypeOK, Channels, Polls
    <2>3. Numbers'
      BY <1>2 DEF Produce, FragTypeOK, Numbers
    <2> QED  BY Zenon, <2>2, <2>3 DEF FragTypeOK
  <1>3. CASE Offer
    <2>1. made - 1 \in Nat
      BY <1>3 DEF Offer, FragTypeOK, Numbers
    <2>2. Channels' /\ Polls'
      BY <1>3, <2>1 DEF Offer, FragTypeOK, Channels, Polls
    <2>3. Numbers'
      BY Zenon, <1>3 DEF Offer, FragTypeOK, Numbers
    <2> QED  BY Zenon, <2>2, <2>3 DEF FragTypeOK
  <1>4. CASE GiveUp \/ CloseConn \/ UNCHANGED fragVars
    BY Zenon, <1>4 DEF GiveUp, CloseConn, fragVars, FragTypeOK, Channels, Polls, Numbers
  <1>5. CASE ReadPending \/ ReadEOF
    <2>1. Channels' /\ Polls'
      BY Zenon, <1>5 DEF ReadPending, ReadEOF, FragTypeOK, Channels, Polls
    <2>2. nextSeq' = nextSeq + 1 /\ UNCHANGED <<made, inFlight, eofAt, eofSeq, producer>>
      BY Zenon, <1>5 DEF ReadPending, ReadEOF
    <2>3. Numbers'
      BY <2>2 DEF FragTypeOK, Numbers
    <2> QED  BY Zenon, <2>1, <2>3 DEF FragTypeOK
  <1>6. CASE Receive
    <2>1. downCh \in Seq(Nat) /\ downCh # <<>> /\ downCh' = Tail(downCh)
      BY Zenon, <1>6 DEF Receive, FragTypeOK, Channels
    <2>2. Head(downCh) \in Nat /\ downCh' \in Seq(Nat)
      BY <2>1
    <2>3. Channels' /\ Polls'
      BY Zenon, <1>6, <2>2 DEF Receive, FragTypeOK, Channels, Polls
    <2>4. /\ nextSeq' = nextSeq \/ nextSeq' = Head(downCh) + 1
          /\ eofSeq' = eofSeq \/ eofSeq' = Head(downCh)
          /\ UNCHANGED <<made, inFlight, eofAt, producer>>
      BY Zenon, <1>6 DEF Receive
    <2>5. Numbers'
      BY <2>2, <2>4 DEF FragTypeOK, Numbers
    <2> QED  BY Zenon, <2>3, <2>5 DEF FragTypeOK
  <1> QED  BY Zenon, <1>1, <1>2, <1>3, <1>4, <1>5, <1>6 DEF FragNext, ServerStep, ReadStep

\* Every step keeps what is known of the end of the stream.
LEMMA EOFStep ==
    ASSUME FragInv, ReplayKnown, [FragNext]_fragVars
    PROVE  EOFKnown'
  <1>0. FragTypeOK /\ EOFKnown
    BY Zenon DEF FragInv
  <1>1. /\ nextSeq \in Nat /\ eofAt \in Nat \cup {NoFrame} /\ eofSeq \in Nat \cup {NoFrame}
        /\ NoFrame \notin Nat /\ made \in Nat /\ downCh \in Seq(Nat)
    BY Zenon, <1>0, NoFrameIsNone DEF FragTypeOK, Numbers, Channels
  <1> USE <1>0 DEF EOFKnown, EOFComplete, server, sched, reader
  <1>2. ASSUME NEW p \in PollWorkers, PollStep(p) \/ TimesOut(p) \/ FailsForGood(p)
        PROVE  EOFKnown'
    <2>1. UNCHANGED <<producer, eofAt, nextSeq, eofSeq>>
      BY Zenon, <1>2, PollMoves DEF Moves
    <2>2. over' = "eof" => over = "eof"
      <3>1. CASE Arrive(p) \/ Reply(p) \/ PollWoken(p) \/ WaitOver(p)
        BY Zenon, <3>1 DEF Arrive, Reply, PollWoken, WaitOver
      <3>2. CASE Pick(p) \/ Deliver(p) \/ TimesOut(p)
        BY Zenon, <3>2 DEF Pick, Deliver, TimesOut
      <3>3. CASE Finish(p) \/ FailsForGood(p)
        BY Zenon, <3>3 DEF Finish, FailsForGood
      <3> QED  BY Zenon, <1>2, <3>1, <3>2, <3>3 DEF PollStep
    <2> QED  BY Zenon, <2>1, <2>2
  <1>3. CASE Produce
    BY Zenon, <1>1, <1>3 DEF Produce
  <1>4. CASE Offer \/ GiveUp \/ CloseConn
    BY Zenon, <1>4 DEF Offer, GiveUp, CloseConn
  <1>5. CASE ReadPending
    BY Zenon, <1>5 DEF ReadPending
  <1>6. CASE ReadEOF
    <2>1. /\ eofSeq = nextSeq /\ nextSeq' = nextSeq + 1
          /\ UNCHANGED <<producer, eofAt, eofSeq>>
      BY Zenon, <1>6 DEF ReadEOF
    <2>2. eofAt = nextSeq /\ eofAt # NoFrame /\ nextSeq' >= eofAt
      BY <1>1, <2>1
    <2> QED  BY Zenon, <2>1, <2>2
  <1>7. CASE Receive
    <2>0. downCh # <<>>
      BY Zenon, <1>7 DEF Receive
    <2>1. Head(downCh) \in Nat
      BY <1>1, <2>0
    <2>2. UNCHANGED <<producer, eofAt>> /\ over # "eof"
      BY Zenon, <1>7 DEF Receive
    <2>3. eofSeq' = eofSeq \/ eofSeq' = eofAt
      BY Zenon, <1>7 DEF Receive
    <2>4. over' = "eof" => Head(downCh) = eofAt /\ Head(downCh) < nextSeq /\ nextSeq' = nextSeq
      BY Zenon, <1>7, <2>2 DEF Receive
    <2>5. over' = "eof" => nextSeq' >= eofAt /\ eofAt # NoFrame
      BY <1>1, <2>1, <2>4
    <2> QED  BY Zenon, <2>2, <2>3, <2>5
  <1>8. CASE UNCHANGED fragVars
    BY Zenon, <1>8 DEF fragVars
  <1> QED  BY Zenon, <1>2, <1>3, <1>4, <1>5, <1>6, <1>7, <1>8 DEF FragNext, ServerStep, ReadStep

-----------------------------------------------------------------------------
(* The lemmas that count. *)

INSTANCE Counting

\* CountOne for sets of dials.
LEMMA DialCount ==
    ASSUME NEW S \in SUBSET TunDials, NEW T \in SUBSET TunDials, NEW x \in TunDials,
           \A e \in TunDials \ {x} : e \in S <=> e \in T
    PROVE  /\ Cardinality(S) \in Nat /\ Cardinality(T) \in Nat
           /\ (x \in S <=> x \in T) => Cardinality(T) = Cardinality(S)
           /\ x \notin S /\ x \in T => Cardinality(T) = Cardinality(S) + 1
           /\ x \in S /\ x \notin T => Cardinality(T) = Cardinality(S) - 1
  <1>1. IsFiniteSet(TunDials)
    BY Zenon, TunDialerAssumption
  <1> QED  BY <1>1, CountOne

LEMMA DialInvInit == TunDialInit => DialInv
  <1> SUFFICES ASSUME TunDialInit PROVE DialInv
    BY Zenon
  <1>1. TunDialTypeOK
    BY TunDialerAssumption DEF TunDialInit, TunDialTypeOK, GateState, NoGate, InGate
  <1>2. Holders = {} /\ Openers = {} /\ \A t \in TunTargets : Inside(t) = {}
    BY Zenon DEF TunDialInit, Holders, Openers, Inside, InGate
  <1>3. Cardinality(Holders) = 0 /\ Cardinality(Openers) = 0
    BY Zenon, <1>2, FS_EmptySet
  <1>4. \A t \in TunTargets : Cardinality(Inside(t)) = 0
    BY Zenon, <1>2, FS_EmptySet
  <1>5. \A t \in TunTargets : gate[t].inFlight = 0
    BY ZenonT(60) DEF TunDialInit, NoGate
  <1>6. ActiveCounted /\ OpenCounted /\ \A t \in TunTargets : GateCounted(t)
    BY SMTT(60), <1>3, <1>4, <1>5, TunDialerAssumption DEF TunDialInit, ActiveCounted, OpenCounted, GateCounted
  <1>7. NoLostWakeup /\ \A d \in TunDials : Linked(d)
    BY Zenon DEF TunDialInit, NoLostWakeup, Linked
  <1> QED  BY Zenon, <1>1, <1>6, <1>7 DEF DialInv

LEMMA ActiveStep ==
    ASSUME DialInv, TunDialTypeOK', [TunDialNext]_tunDialVars
    PROVE  ActiveCounted'
  <1>0. TunDialTypeOK /\ ActiveCounted
    BY Zenon DEF DialInv
  <1>1. CASE ActiveStays
    BY ZenonT(60), <1>0, <1>1 DEF ActiveStays, ActiveCounted, Holders
  <1>2. ASSUME NEW x \in TunDials, ActiveTaken(x) \/ ActiveGiven(x) PROVE ActiveCounted'
    <2>0. tokenHeld \in [TunDials -> BOOLEAN]
      BY Zenon, <1>0 DEF TunDialTypeOK
    <2>1. \A e \in TunDials \ {x} : e \in Holders <=> e \in Holders'
      BY Zenon, <2>0, <1>2 DEF ActiveTaken, ActiveGiven, Holders
    <2>2. Holders \in SUBSET TunDials /\ Holders' \in SUBSET TunDials
      BY Zenon DEF Holders
    <2>3. ActiveTaken(x) => x \notin Holders /\ x \in Holders'
      BY Zenon, <1>0 DEF TunDialTypeOK, ActiveTaken, Holders
    <2>4. ActiveGiven(x) => x \in Holders /\ x \notin Holders'
      BY ZenonT(60), <1>0 DEF TunDialTypeOK, ActiveGiven, Holders
    <2>5. /\ Cardinality(Holders) \in Nat
          /\ ActiveTaken(x) => Cardinality(Holders') = Cardinality(Holders) + 1
          /\ ActiveGiven(x) => Cardinality(Holders') = Cardinality(Holders) - 1
      <3> DEFINE S == Holders
                 T == Holders'
      <3>1. /\ S \in SUBSET TunDials /\ T \in SUBSET TunDials
            /\ \A e \in TunDials \ {x} : e \in S <=> e \in T
        BY Zenon, <2>1, <2>2
      <3> HIDE DEF S, T
      <3>2. /\ Cardinality(S) \in Nat
            /\ x \notin S /\ x \in T => Cardinality(T) = Cardinality(S) + 1
            /\ x \in S /\ x \notin T => Cardinality(T) = Cardinality(S) - 1
        BY Zenon, <3>1, DialCount
      <3> QED  BY Zenon, <2>3, <2>4, <3>2 DEF S, T
    <2> QED  BY <1>0, <1>2, <2>5, TunDialerAssumption DEF ActiveCounted, ActiveTaken, ActiveGiven
  <1> QED  BY Zenon, <1>1, <1>2, ActiveMoves

LEMMA OpenStep ==
    ASSUME DialInv, [TunDialNext]_tunDialVars
    PROVE  OpenCounted'
  <1>0. TunDialTypeOK /\ OpenCounted
    BY Zenon DEF DialInv
  <1>1. Openers \in SUBSET TunDials /\ Openers' \in SUBSET TunDials
    BY Zenon DEF Openers
  <1>2. CASE OpenStays
    <2>1. Openers' = Openers
      BY Zenon, <1>1, <1>2 DEF OpenStays
    <2> QED  BY Zenon, <1>0, <1>2, <2>1 DEF OpenStays, OpenCounted
  <1>3. ASSUME NEW x \in TunDials, OpenTaken(x) \/ OpenGiven(x) PROVE OpenCounted'
    <2>1. \A e \in TunDials \ {x} : e \in Openers <=> e \in Openers'
      BY Zenon, <1>3 DEF OpenTaken, OpenGiven, OthersOpen
    <2>2. /\ OpenTaken(x) => /\ x \notin Openers /\ x \in Openers'
                             /\ openSlots' = openSlots + 1 /\ udp' = udp
          /\ OpenGiven(x) => /\ x \in Openers /\ x \notin Openers'
                             /\ openSlots' = openSlots - 1 /\ udp' = udp
      BY Zenon DEF OpenTaken, OpenGiven
    <2>3. /\ Cardinality(Openers) \in Nat
          /\ OpenTaken(x) => Cardinality(Openers') = Cardinality(Openers) + 1
          /\ OpenGiven(x) => Cardinality(Openers') = Cardinality(Openers) - 1
      <3> DEFINE S == Openers
                 T == Openers'
      <3>1. /\ S \in SUBSET TunDials /\ T \in SUBSET TunDials
            /\ \A e \in TunDials \ {x} : e \in S <=> e \in T
        BY Zenon, <1>1, <2>1
      <3> HIDE DEF S, T
      <3>2. /\ Cardinality(S) \in Nat
            /\ x \notin S /\ x \in T => Cardinality(T) = Cardinality(S) + 1
            /\ x \in S /\ x \notin T => Cardinality(T) = Cardinality(S) - 1
        BY Zenon, <3>1, DialCount
      <3> QED  BY Zenon, <2>2, <3>2 DEF S, T
    <2> QED  BY <1>0, <1>3, <2>2, <2>3 DEF OpenCounted
  <1>4. CASE OpenUDP
    <2>1. Openers' = Openers
      BY Zenon, <1>4 DEF OpenUDP, Openers
    <2>2. Cardinality(Openers) \in Nat
      BY Zenon, <1>1, TunDialerAssumption, FS_Subset, FS_CardinalityType
    <2> QED  BY <1>0, <1>4, <2>1, <2>2 DEF OpenUDP, OpenCounted
  <1> QED  BY Zenon, <1>0, <1>2, <1>3, <1>4, OpenMoves

LEMMA GateStep ==
    ASSUME DialInv, TunDialTypeOK', [TunDialNext]_tunDialVars, NEW t \in TunTargets
    PROVE  GateCounted(t)'
  <1>0. TunDialTypeOK /\ GateCounted(t)
    BY Zenon DEF DialInv
  <1>1. Inside(t) \in SUBSET TunDials /\ Inside(t)' \in SUBSET TunDials
    BY Zenon DEF Inside
  <1>2. gate[t].inFlight \in Int /\ gate'[t].inFlight \in Int
    BY Zenon, <1>0 DEF TunDialTypeOK, GateState
  <1>3. CASE GatesStay
    <2>1. Inside(t)' = Inside(t)
      BY Zenon, <1>3 DEF GatesStay, Inside
    <2>2. gate'[t].inFlight = gate[t].inFlight
      BY Zenon, <1>3 DEF GatesStay
    <2> QED  BY Zenon, <1>0, <2>1, <2>2 DEF GateCounted
  <1>4. ASSUME NEW x \in TunDials, GateEntered(x) \/ GateLeft(x) PROVE GateCounted(t)'
    <2>1. /\ \A e \in TunDials \ {x} : e \in Inside(t) <=> e \in Inside(t)'
          /\ target'[x] = target[x]
          /\ target[x] # t => gate'[t].inFlight = gate[t].inFlight
      BY Zenon, <1>4 DEF GateEntered, GateLeft, Elsewhere, Inside
    <2>2. target[x] # t => x \notin Inside(t) /\ x \notin Inside(t)'
      BY Zenon, <2>1 DEF Inside
    <2>3. target[x] = t /\ GateEntered(x) =>
            /\ x \notin Inside(t) /\ x \in Inside(t)'
            /\ gate[t].inFlight < PerTarget /\ gate'[t].inFlight = gate[t].inFlight + 1
      BY Zenon, <2>1 DEF GateEntered, Inside
    <2>4. target[x] = t /\ GateLeft(x) =>
            /\ x \in Inside(t) /\ x \notin Inside(t)'
            /\ gate'[t].inFlight = gate[t].inFlight - 1
      BY Zenon, <2>1 DEF GateLeft, Inside
    <2> DEFINE S == Inside(t)
               T == Inside(t)'
    <2>5. /\ S \in SUBSET TunDials /\ T \in SUBSET TunDials
          /\ \A e \in TunDials \ {x} : e \in S <=> e \in T
      BY Zenon, <1>1, <2>1
    <2> HIDE DEF S, T
    <2>6. /\ Cardinality(S) \in Nat /\ Cardinality(T) \in Nat
          /\ (x \in S <=> x \in T) => Cardinality(T) = Cardinality(S)
          /\ x \notin S /\ x \in T => Cardinality(T) = Cardinality(S) + 1
          /\ x \in S /\ x \notin T => Cardinality(T) = Cardinality(S) - 1
      BY Zenon, <2>5, DialCount
    <2>7. /\ gate[t].inFlight = Cardinality(S) /\ gate[t].inFlight <= PerTarget
          /\ PerTarget \in Nat
      BY Zenon, <1>0, TunDialerAssumption DEF GateCounted, S
    <2>8. gate'[t].inFlight = Cardinality(T) /\ gate'[t].inFlight <= PerTarget
      <3>1. CASE target[x] # t
        BY ZenonT(60), <2>1, <2>2, <2>6, <2>7, <3>1 DEF S, T
      <3>2. CASE target[x] = t /\ GateEntered(x)
        <4>1. /\ x \notin S /\ x \in T
              /\ gate[t].inFlight < PerTarget /\ gate'[t].inFlight = gate[t].inFlight + 1
          BY Zenon, <2>3, <3>2 DEF S, T
        <4> QED  BY <1>2, <2>6, <2>7, <4>1
      <3>3. CASE target[x] = t /\ GateLeft(x)
        <4>1. x \in S /\ x \notin T /\ gate'[t].inFlight = gate[t].inFlight - 1
          BY Zenon, <2>4, <3>3 DEF S, T
        <4> QED  BY <1>2, <2>6, <2>7, <4>1
      <3> QED  BY Zenon, <1>4, <3>1, <3>2, <3>3
    <2> QED  BY Zenon, <2>8 DEF GateCounted, T
  <1> QED  BY Zenon, <1>0, <1>3, <1>4, GateMoves

\* TunDialer's AdmissionSafe, for any number of flows and targets and any caps: the
\* three counters of dialer_native.go are exact however dials end and connections are
\* closed, and no dial waits at a gate for a change that is not to come.
THEOREM AdmissionIsSafe == TunDialSpec => []AdmissionSafe
  <1>1. DialInv /\ [TunDialNext]_tunDialVars => DialInv'
    BY ZenonT(60), DialTypeStep, DialLinkStep, ActiveStep, OpenStep, GateStep, WakeStep DEF DialInv
  <1> QED  BY <1>1, DialInvInit, DialInvSafe, PTL DEF TunDialSpec

\* findReplay returns a frame of the ring, or the one asked for, which is there.
LEMMA ReplayIsKnown == FragTypeOK => ReplayKnown
  <1> SUFFICES ASSUME ring \in Seq(Nat), ring # <<>>, NEW n \in Nat
               PROVE  FindReplay(n) \in Nat
    BY Zenon DEF FragTypeOK, Channels, ReplayKnown
  <1> DEFINE later == {i \in DOMAIN ring : ring[i] >= n}
  <1>1. later \in SUBSET Nat /\ \A i \in later : ring[i] \in Nat
    OBVIOUS
  <1>2. later # {} => (CHOOSE i \in later : \A j \in later : i <= j) \in later
    BY Zenon, <1>1, LeastElement
  <1>3. ring[Len(ring)] \in Nat
    OBVIOUS
  <1> QED  BY Zenon, <1>1, <1>2, <1>3 DEF FindReplay

\* The initial states satisfy the invariant.
LEMMA FragInvInit == FragInit => FragInv
  <1> SUFFICES ASSUME FragInit PROVE FragInv
    BY Zenon
  <1>1. FragTypeOK
    <2>1. /\ producer = "reading" /\ made = 0 /\ eofAt = NoFrame /\ frameCh = <<>> /\ ring = <<>>
          /\ poll = [p \in PollWorkers |-> Rest] /\ inFlight = 0 /\ downCh = <<>>
          /\ nextSeq = 0 /\ eofSeq = NoFrame
      BY Zenon DEF FragInit
    <2>2. Channels /\ Numbers
      BY <2>1 DEF Channels, Numbers
    <2>3. Polls
      BY Zenon, <2>1, RestState DEF Polls
    <2> QED  BY Zenon, <2>2, <2>3 DEF FragTypeOK
  <1>2. BusyPolls = {} /\ CommittedPolls = {}
    BY Zenon, RestState DEF FragInit, BusyPolls, CommittedPolls
  <1>3. DownChCap \in Nat /\ Cardinality(BusyPolls) = 0 /\ Cardinality(CommittedPolls) = 0
    BY <1>2, FragDownAssumption, FS_EmptySet DEF DownChCap
  <1>4. inFlight = 0 /\ Len(downCh) = 0
    BY Zenon DEF FragInit
  <1>5. InFlightCounted /\ DownChHasRoom
    BY <1>3, <1>4 DEF InFlightCounted, DownChHasRoom
  <1>6. EOFKnown
    BY Zenon DEF FragInit, EOFKnown, EOFComplete
  <1> QED  BY Zenon, <1>1, <1>5, <1>6 DEF FragInv

\* What one poll's move does to the two counts.
LEMMA PollCounts ==
    ASSUME NEW p \in PollWorkers,
           \A q \in PollWorkers \ {p} : poll'[q] = poll[q]
    PROVE  /\ Cardinality(BusyPolls) \in Nat /\ Cardinality(CommittedPolls) \in Nat
           /\ Cardinality(CommittedPolls) <= Cardinality(BusyPolls)
           /\ (p \in BusyPolls <=> p \in BusyPolls') => Cardinality(BusyPolls') = Cardinality(BusyPolls)
           /\ p \notin BusyPolls /\ p \in BusyPolls' =>
                Cardinality(BusyPolls') = Cardinality(BusyPolls) + 1
           /\ p \in BusyPolls /\ p \notin BusyPolls' =>
                Cardinality(BusyPolls') = Cardinality(BusyPolls) - 1
           /\ (p \in CommittedPolls <=> p \in CommittedPolls') =>
                Cardinality(CommittedPolls') = Cardinality(CommittedPolls)
           /\ p \notin CommittedPolls /\ p \in CommittedPolls' =>
                Cardinality(CommittedPolls') = Cardinality(CommittedPolls) + 1
           /\ p \in CommittedPolls /\ p \notin CommittedPolls' =>
                Cardinality(CommittedPolls') = Cardinality(CommittedPolls) - 1
  <1>1. /\ BusyPolls \in SUBSET PollWorkers /\ BusyPolls' \in SUBSET PollWorkers
        /\ CommittedPolls \in SUBSET PollWorkers /\ CommittedPolls' \in SUBSET PollWorkers
        /\ CommittedPolls \subseteq BusyPolls
    BY Zenon DEF BusyPolls, CommittedPolls
  <1>2. /\ \A q \in PollWorkers \ {p} : q \in BusyPolls <=> q \in BusyPolls'
        /\ \A q \in PollWorkers \ {p} : q \in CommittedPolls <=> q \in CommittedPolls'
    BY Zenon DEF BusyPolls, CommittedPolls
  <1>3. IsFiniteSet(PollWorkers)
    BY Zenon, FragDownAssumption
  <1>4. Cardinality(CommittedPolls) <= Cardinality(BusyPolls)
    BY Zenon, <1>1, <1>3, FS_Subset
  <1> DEFINE B == BusyPolls
             C == BusyPolls'
             D == CommittedPolls
             E == CommittedPolls'
  <1>5. /\ B \in SUBSET PollWorkers /\ C \in SUBSET PollWorkers
        /\ \A q \in PollWorkers \ {p} : q \in B <=> q \in C
    BY Zenon, <1>1, <1>2
  <1>6. /\ D \in SUBSET PollWorkers /\ E \in SUBSET PollWorkers
        /\ \A q \in PollWorkers \ {p} : q \in D <=> q \in E
    BY ZenonT(60), <1>1, <1>2
  <1> HIDE DEF B, C, D, E
  <1>7. /\ Cardinality(B) \in Nat /\ Cardinality(C) \in Nat
        /\ (p \in B <=> p \in C) => Cardinality(C) = Cardinality(B)
        /\ p \notin B /\ p \in C => Cardinality(C) = Cardinality(B) + 1
        /\ p \in B /\ p \notin C => Cardinality(C) = Cardinality(B) - 1
    BY SMTT(60), <1>3, <1>5, CountOne
  <1>8. /\ Cardinality(D) \in Nat /\ Cardinality(E) \in Nat
        /\ (p \in D <=> p \in E) => Cardinality(E) = Cardinality(D)
        /\ p \notin D /\ p \in E => Cardinality(E) = Cardinality(D) + 1
        /\ p \in D /\ p \notin E => Cardinality(E) = Cardinality(D) - 1
    BY <1>3, <1>6, CountOne
  <1> QED  BY Zenon, <1>4, <1>7, <1>8 DEF B, C, D, E

\* Every step keeps the count of the polls in flight and the room for their answers.
LEMMA RoomStep ==
    ASSUME FragInv, FragTypeOK', [FragNext]_fragVars
    PROVE  InFlightCounted' /\ DownChHasRoom'
  <1>0. /\ FragTypeOK /\ InFlightCounted /\ DownChHasRoom
        /\ downCh \in Seq(Nat) /\ downCh' \in Seq(Nat) /\ inFlight \in Int /\ inFlight' \in Int
    BY Zenon DEF FragInv, FragTypeOK, Channels, Numbers
  <1>1. DownChCap \in Nat /\ DownChCap' = DownChCap /\ Len(downCh) \in Nat /\ Len(downCh') \in Nat
    BY <1>0, FragDownAssumption DEF DownChCap
  <1>2. ASSUME UNCHANGED <<poll, inFlight>>, Len(downCh') <= Len(downCh)
        PROVE  InFlightCounted' /\ DownChHasRoom'
    <2>1. BusyPolls' = BusyPolls /\ CommittedPolls' = CommittedPolls
      BY Zenon, <1>2 DEF BusyPolls, CommittedPolls
    <2>2. CommittedPolls \subseteq PollWorkers
      BY Zenon DEF CommittedPolls
    <2>3. Cardinality(CommittedPolls) \in Nat
      BY ZenonT(60), <2>2, FragDownAssumption, FS_Subset, FS_CardinalityType
    <2> QED  BY <1>0, <1>1, <1>2, <2>1, <2>3 DEF InFlightCounted, DownChHasRoom
  <1>3. ASSUME NEW p \in PollWorkers, PollStep(p) \/ TimesOut(p) \/ FailsForGood(p)
        PROVE  InFlightCounted' /\ DownChHasRoom'
    <2>1. PICK r \in PollState : Moves(p, r)
      BY ZenonT(60), <1>0, <1>3, PollMoves, ReplayIsKnown
    <2>2. poll'[p] = r /\ \A q \in PollWorkers \ {p} : poll'[q] = poll[q]
      BY Zenon, <1>0, <2>1 DEF Moves, FragTypeOK, Polls
    <2>3. /\ p \in BusyPolls <=> poll[p].at # "rest"
          /\ p \in BusyPolls' <=> r.at # "rest"
          /\ p \in CommittedPolls <=> poll[p].at \in OnItsWay
          /\ p \in CommittedPolls' <=> r.at \in OnItsWay
      BY Zenon, <2>2 DEF BusyPolls, CommittedPolls, OnItsWay
    <2>4. CASE GoesOn(p, r)
      <3>1. /\ p \in BusyPolls /\ p \in BusyPolls' /\ p \in CommittedPolls /\ p \in CommittedPolls'
            /\ UNCHANGED <<downCh, inFlight>>
        BY ZenonT(60), <2>3, <2>4 DEF GoesOn, OnItsWay
      <3> QED  BY ZenonT(60), <1>0, <1>1, <2>2, <3>1, PollCounts DEF InFlightCounted, DownChHasRoom
    <2>5. CASE Begins(p, r)
      <3>1. /\ p \notin BusyPolls /\ p \in BusyPolls'
            /\ p \notin CommittedPolls /\ p \in CommittedPolls' /\ UNCHANGED downCh
            /\ Len(downCh) + inFlight < DownChCap /\ inFlight' = inFlight + 1
        BY Zenon, <2>3, <2>5 DEF Begins, OnItsWay
      <3>2. /\ Cardinality(BusyPolls') = Cardinality(BusyPolls) + 1
            /\ Cardinality(CommittedPolls') = Cardinality(CommittedPolls) + 1
            /\ Cardinality(CommittedPolls) \in Nat /\ Cardinality(BusyPolls) \in Nat
            /\ Cardinality(CommittedPolls) <= Cardinality(BusyPolls)
        BY ZenonT(60), <2>2, <3>1, PollCounts
      <3> QED  BY SMTT(60), <1>0, <1>1, <3>1, <3>2 DEF InFlightCounted, DownChHasRoom
    <2>6. CASE Ends(p, r)
      <3>1. /\ p \in BusyPolls /\ p \in BusyPolls'
            /\ p \in CommittedPolls /\ p \notin CommittedPolls' /\ UNCHANGED inFlight
        BY Zenon, <2>3, <2>6 DEF Ends, OnItsWay
      <3>2. Len(downCh') <= Len(downCh) + 1
        BY <1>0, <2>6 DEF Ends
      <3>3. /\ Cardinality(BusyPolls') = Cardinality(BusyPolls)
            /\ Cardinality(CommittedPolls') = Cardinality(CommittedPolls) - 1
            /\ Cardinality(CommittedPolls) \in Nat
        BY Zenon, <2>2, <3>1, PollCounts
      <3> QED  BY SMTT(60), <1>0, <1>1, <3>1, <3>2, <3>3 DEF InFlightCounted, DownChHasRoom
    <2>7. CASE IsOver(p, r)
      <3>1. /\ p \in BusyPolls /\ p \notin BusyPolls'
            /\ p \notin CommittedPolls /\ p \notin CommittedPolls' /\ UNCHANGED downCh
            /\ inFlight' = inFlight - 1
        BY Zenon, <2>3, <2>7 DEF IsOver, OnItsWay
      <3> QED  BY Zenon, <1>0, <1>1, <2>2, <3>1, PollCounts DEF InFlightCounted, DownChHasRoom
    <2> QED  BY ZenonT(60), <2>1, <2>4, <2>5, <2>6, <2>7 DEF Moves
  <1>4. CASE Produce \/ Offer \/ GiveUp
    <2>1. UNCHANGED <<poll, inFlight, downCh>>
      BY ZenonT(60), <1>4 DEF Produce, Offer, GiveUp, sched, reader
    <2> QED  BY <1>1, <1>2, <2>1
  <1>5. CASE CloseConn \/ ReadPending \/ ReadEOF \/ UNCHANGED fragVars
    <2>1. UNCHANGED <<poll, inFlight, downCh>>
      BY Zenon, <1>5 DEF CloseConn, ReadPending, ReadEOF, fragVars, sched, reader
    <2> QED  BY <1>1, <1>2, <2>1
  <1>6. CASE Receive
    <2>1. UNCHANGED <<poll, inFlight>> /\ downCh # <<>> /\ downCh' = Tail(downCh)
      BY Zenon, <1>6 DEF Receive, sched
    <2>2. Len(downCh') <= Len(downCh)
      BY <1>0, <2>1
    <2> QED  BY Zenon, <1>2, <2>1, <2>2
  <1> QED  BY ZenonT(60), <1>3, <1>4, <1>5, <1>6 DEF FragNext, ServerStep, ReadStep

\* FragDown's DownSafe, for any number of polls, any sizes of the ring, the channels
\* and the window, and any losses: a poll that has been answered finds room in downCh,
\* and a Read that returns io.EOF has returned all that came before the end.
THEOREM DownIsSafe == FragSpec => []DownSafe
  <1>1. FragInv /\ [FragNext]_fragVars => FragInv'
    BY ZenonT(60), ReplayIsKnown, FragTypeStep, RoomStep, EOFStep DEF FragInv
  <1>2. FragInv => DownSafe
    BY Zenon DEF FragInv, EOFKnown, DownSafe
  <1> QED  BY <1>1, <1>2, FragInvInit, PTL DEF FragSpec
=============================================================================
