---------------------------- MODULE RunnerProofs ----------------------------
(***************************************************************************)
(* Proofs about the runner of the wgturn client: one holder of the         *)
(* password, one session per worker, and the answers of a person that are  *)
(* not used more often than they may be.                                   *)
(***************************************************************************)
EXTENDS WorkerGroup, TLAPS


-----------------------------------------------------------------------------
(***************************************************************************)
(* The claim to the password.  OneOwner needs to know where a worker can   *)
(* be that has the claim, and that one without it never settles it.        *)
(***************************************************************************)

Before == {"loop", "casFirst", "loadRecovery", "casAgain", "casRecovery"}
InSession == {"session", "up", "complete"}
Settling == {"clearRecovery", "release"}
Asking == {"loadSent", "storeRecovery"}

BrokerType ==
    /\ wpc \in [Workers -> Before \cup InSession \cup Settling \cup Asking]
    /\ getConf \in [Workers -> BOOLEAN]
    /\ inFlight \in BOOLEAN /\ recoveryNeeded \in BOOLEAN

\* A worker settles only a claim it has, and has none before its session nor
\* once it is settled.
ClaimPlaced ==
    \A w \in Workers :
        /\ wpc[w] \in Settling => getConf[w]
        /\ wpc[w] \in Before \cup Asking => ~getConf[w]

BrokerInv == BrokerType /\ ClaimPlaced /\ OneOwner

\* What a step of worker w does to the claim.
Others(w) ==
    /\ w \in Workers
    /\ \A v \in Workers \ {w} : wpc'[v] = wpc[v] /\ getConf'[v] = getConf[v]

\* The claim stays as it was, is taken while inFlight was not set, or is given
\* up.
ClaimEffect ==
    \/ UNCHANGED <<wpc, getConf, inFlight>>
    \/ \E w \in Workers :
         /\ Others(w)
         /\ \/ inFlight' = inFlight /\ (Holding(w)' <=> Holding(w))
            \/ ~inFlight /\ inFlight' /\ Holding(w)'
            \/ Holding(w) /\ ~inFlight' /\ ~Holding(w)'

\* The step of one worker, as the proof sees it.
BrokerEffect == BrokerType' /\ ClaimPlaced' /\ ClaimEffect

\* claim, one load or compare-and-swap at a time.
LEMMA ClaimEffects ==
    ASSUME BrokerInv, NEW w \in Workers, Claim(w)
    PROVE  BrokerEffect
  <1> USE DEF BrokerInv, BrokerType, ClaimPlaced, Before, InSession, Settling, Asking,
              BrokerEffect, ClaimEffect, Others, Holding, BrokerAt, OneOwner
  <1>1. CASE LoadSent(w)
    BY <1>1 DEF LoadSent, flags
  <1>2. CASE CasFirst(w)
    BY Zenon, <1>2 DEF CasFirst
  <1>3. CASE LoadRecovery(w)
    BY <1>3 DEF LoadRecovery, flags
  <1>4. CASE CasAgain(w)
    BY Zenon, <1>4 DEF CasAgain
  <1>5. CASE CasRecovery(w)
    <2>1. CASE recoveryNeeded = TRUE
      <3>1. BrokerType'
        BY Zenon, <1>5, <2>1 DEF CasRecovery
      <3>2. ClaimPlaced'
        BY Zenon, <1>5, <2>1 DEF CasRecovery
      <3>3. ClaimEffect
        BY Zenon, <1>5, <2>1 DEF CasRecovery
      <3> QED  BY Zenon, <3>1, <3>2, <3>3
    <2>2. CASE recoveryNeeded = FALSE
      <3>1. BrokerType'
        BY Zenon, <1>5, <2>2 DEF CasRecovery
      <3>2. ClaimPlaced'
        BY Zenon, <1>5, <2>2 DEF CasRecovery
      <3>3. ClaimEffect
        <4>1. Others(w) /\ ~inFlight'
          BY Zenon, <1>5, <2>2 DEF CasRecovery
        <4>2. Holding(w)
          BY Zenon, <1>5 DEF CasRecovery
        <4>3. ~Holding(w)'
          BY Zenon, <1>5, <2>2 DEF CasRecovery
        <4> HIDE DEF Others, Holding
        <4> QED  BY Zenon, <4>1, <4>2, <4>3
      <3> QED  BY Zenon, <3>1, <3>2, <3>3
    <2> QED  BY Zenon, <2>1, <2>2
  <1> QED  BY Zenon, <1>1, <1>2, <1>3, <1>4, <1>5 DEF Claim

\* The session of a worker, until it completes.
LEMMA SessionEffects ==
    ASSUME BrokerInv, NEW w \in Workers,
           \/ SessionFails(w) \/ BindConfig(w) \/ BindOK(w)
           \/ BindWait(w) \/ BindExhausted(w) \/ SessionEnds(w)
    PROVE  BrokerEffect
  <1> USE DEF BrokerInv, BrokerType, ClaimPlaced, Before, InSession, Settling, Asking,
              BrokerEffect, ClaimEffect, Others, Holding, BrokerAt, flags
  <1>1. CASE SessionFails(w)
    BY Zenon, <1>1 DEF SessionFails
  <1>2. CASE BindConfig(w)
    BY <1>2 DEF BindConfig
  <1>3. CASE BindOK(w)
    BY ZenonT(60), <1>3 DEF BindOK
  <1>4. CASE BindWait(w)
    BY Zenon, <1>4 DEF BindWait
  <1>5. CASE BindExhausted(w)
    BY Zenon, <1>5 DEF BindExhausted
  <1>6. CASE SessionEnds(w)
    BY Zenon, <1>6 DEF SessionEnds
  <1> QED  BY Zenon, <1>1, <1>2, <1>3, <1>4, <1>5, <1>6

\* complete and requestRecovery.
LEMMA SettleEffects ==
    ASSUME BrokerInv, NEW w \in Workers,
           \/ Complete(w) \/ ClearRecovery(w) \/ ReleaseClaim(w)
           \/ RequestRecovery(w) \/ StoreRecovery(w)
    PROVE  BrokerEffect
  <1> USE DEF BrokerInv, BrokerType, ClaimPlaced, Before, InSession, Settling, Asking,
              BrokerEffect, ClaimEffect, Others, Holding, BrokerAt, flags
  <1>1. CASE Complete(w)
    <2>1. CASE getConf[w]
      <3>1. BrokerType'
        BY Zenon, <1>1, <2>1 DEF Complete
      <3>2. ClaimPlaced'
        BY Zenon, <1>1, <2>1 DEF Complete
      <3>3. ClaimEffect
        BY Zenon, <1>1, <2>1 DEF Complete
      <3> QED  BY Zenon, <3>1, <3>2, <3>3
    <2>2. CASE ~getConf[w]
      <3>1. BrokerType'
        BY Zenon, <1>1, <2>2 DEF Complete, Settled, NextAttempt
      <3>2. ClaimPlaced'
        BY Zenon, <1>1, <2>2 DEF Complete, Settled, NextAttempt
      <3>3. ClaimEffect
        BY Zenon, <1>1, <2>2 DEF Complete, Settled, NextAttempt
      <3> QED  BY Zenon, <3>1, <3>2, <3>3
    <2> QED  BY Zenon, <2>1, <2>2
  <1>2. CASE ClearRecovery(w)
    BY ZenonT(60), <1>2 DEF ClearRecovery
  <1>3. CASE ReleaseClaim(w)
    BY ZenonT(60), <1>3 DEF ReleaseClaim, Settled, NextAttempt
  <1>4. CASE RequestRecovery(w)
    BY Zenon, <1>4 DEF RequestRecovery, NextAttempt
  <1>5. CASE StoreRecovery(w)
    BY Zenon, <1>5 DEF StoreRecovery, NextAttempt
  <1> QED  BY Zenon, <1>1, <1>2, <1>3, <1>4, <1>5

\* Whatever a step does to the claim, there is one owner after it.
LEMMA OneOwnerKept ==
    ASSUME BrokerInv, BrokerEffect
    PROVE  OneOwner'
  <1>1. CASE UNCHANGED <<wpc, getConf, inFlight>>
    BY Zenon, <1>1 DEF BrokerInv, OneOwner, Holding
  <1>2. ASSUME NEW w \in Workers, Others(w),
               \/ inFlight' = inFlight /\ (Holding(w)' <=> Holding(w))
               \/ ~inFlight /\ inFlight' /\ Holding(w)'
               \/ Holding(w) /\ ~inFlight' /\ ~Holding(w)'
        PROVE  OneOwner'
    <2>1. \A v \in Workers \ {w} : Holding(v)' <=> Holding(v)
      BY Zenon, <1>2 DEF Others, Holding
    <2>2. OneOwner
      BY Zenon DEF BrokerInv
    <2>3. inFlight \in BOOLEAN /\ inFlight' \in BOOLEAN
      BY Zenon DEF BrokerInv, BrokerType, BrokerEffect
    <2> QED  BY Zenon, <1>2, <2>1, <2>2, <2>3 DEF OneOwner
  <1> QED  BY Zenon, <1>1, <1>2 DEF BrokerEffect, ClaimEffect

\* The invariant of the election is inductive.
LEMMA BrokerStep ==
    ASSUME BrokerInv, [BrokerNext]_brokerVars
    PROVE  BrokerInv'
  <1>1. CASE UNCHANGED <<wpc, getConf, flags>>
    <2>1. BrokerType' /\ ClaimPlaced'
      BY Zenon, <1>1 DEF BrokerInv, BrokerType, ClaimPlaced, flags
    <2>2. OneOwner'
      BY Zenon, <1>1 DEF BrokerInv, OneOwner, Holding, flags
    <2> QED  BY Zenon, <2>1, <2>2 DEF BrokerInv
  <1>2. CASE BrokerEffect
    BY Zenon, <1>2, OneOwnerKept DEF BrokerInv, BrokerEffect
  <1>3. CASE Consume \/ ServerForgets
    BY Zenon, <1>1, <1>3 DEF Consume, ServerForgets, flags
  <1>4. CASE UNCHANGED brokerVars
    BY Zenon, <1>1, <1>4 DEF brokerVars
  <1>5. ASSUME NEW w \in Workers, Attempt(w) \/ SessionFails(w) \/ SessionEnds(w)
        PROVE  BrokerEffect
    BY Zenon, <1>5, ClaimEffects, SessionEffects, SettleEffects DEF Attempt
  <1> QED  BY Zenon, <1>2, <1>3, <1>4, <1>5 DEF BrokerNext

\* It holds before any worker has begun.
LEMMA BrokerStart ==
    ASSUME BrokerInit
    PROVE  BrokerInv
  BY Zenon DEF BrokerInit, BrokerInv, BrokerType, ClaimPlaced, OneOwner, Holding, Before,
         InSession, Settling, Asking

-----------------------------------------------------------------------------
(***************************************************************************)
(* The batches of a group.  A batch is replaced only when it has stopped,  *)
(* so that of the two batches the one that is not current is always done.  *)
(***************************************************************************)

Positions == AllWorkers \X Batches

GroupInv ==
    /\ slot \in [GroupIds -> Batches]
    /\ groupWorkers = [w \in Positions |-> groupWorkers[w]]
    /\ \A w \in AllWorkers : groupWorkers[<<w, 1 - slot[w[1]]>>].at = "done"

\* What a step does to the batches: nothing, a worker that has not returned moves,
\* or a group starts a batch in the place of one that has stopped.
GroupEffect ==
    \/ UNCHANGED <<slot, groupWorkers>>
    \/ /\ slot' = slot
       /\ \E w \in Positions : \E r :
            /\ groupWorkers[w].at # "done"
            /\ groupWorkers' = [groupWorkers EXCEPT ![w] = r]
    \/ \E g \in GroupIds : Launch(g)

\* A worker has a group, and its identifier tells which.
LEMMA WorkerGroups ==
    ASSUME NEW w \in AllWorkers
    PROVE  w[1] \in GroupIds /\ w \in Team(w[1]) /\ \A g \in GroupIds : w \in Team(g) => g = w[1]
  BY DEF AllWorkers, Team

\* The groups' own steps leave the workers alone, or launch a batch.
LEMMA GroupStepEffect ==
    ASSUME NEW g \in GroupIds, GroupStep(g) \/ FetchFails(g) \/ KillTimeout(g) \/ Signal(g)
    PROVE  GroupEffect
  <1>1. CASE \/ Begin(g) \/ Top(g) \/ Paused(g) \/ Resume(g) \/ Retry(g) \/ Recovered(g)
             \/ Rotate(g) \/ QuotaBackoff(g) \/ QuotaKilled(g) \/ GroupStops(g)
    BY Zenon, <1>1 DEF GroupEffect, Begin, Top, Paused, Resume, Retry, Recovered, Rotate,
                QuotaBackoff, QuotaKilled, GroupStops
  <1>2. CASE Lookup(g) \/ FetchOk(g) \/ FetchFails(g) \/ KillTimeout(g) \/ Signal(g)
    BY Zenon, <1>2 DEF GroupEffect, Lookup, FetchOk, FetchFails, KillTimeout, Signal
  <1>3. CASE Launch(g)
    BY Zenon, <1>3 DEF GroupEffect
  <1> QED  BY Zenon, <1>1, <1>2, <1>3 DEF GroupStep

\* A worker moves only while it has not returned.
LEMMA WorkerStepEffect ==
    ASSUME NEW w \in Positions, WorkerStep(w) \/ WorkerFault(w)
    PROVE  GroupEffect
  <1>1. groupWorkers[w].at # "done" /\ slot' = slot
    BY Zenon DEF WorkerStep, WorkerFault, TryAgain, SessionUp, SessionOver, Fails, FailsFatally,
           FailsByQuota, grp
  <1>2. \E r : groupWorkers' = [groupWorkers EXCEPT ![w] = r]
    BY Zenon DEF WorkerStep, WorkerFault, TryAgain, SessionUp, SessionOver, Fails, FailsFatally,
           FailsByQuota, Again, Move
  <1> QED  BY Zenon, <1>1, <1>2 DEF GroupEffect

\* The invariant of the batches is inductive.
LEMMA BatchStep ==
    ASSUME GroupInv, [GroupNext]_groupVars
    PROVE  GroupInv'
  <1>1. CASE UNCHANGED <<slot, groupWorkers>>
    BY Zenon, <1>1 DEF GroupInv, Positions, AllWorkers, Team, GroupIds
  <1>2. ASSUME slot' = slot, NEW w \in Positions, NEW r, groupWorkers[w].at # "done",
               groupWorkers' = [groupWorkers EXCEPT ![w] = r]
        PROVE  GroupInv'
    <2>1. \A v \in AllWorkers : <<v, 1 - slot[v[1]]>> # w
      BY Zenon, <1>2 DEF GroupInv
    <2>2. \A v \in AllWorkers : <<v, 1 - slot[v[1]]>> \in Positions
      BY WorkerGroups DEF GroupInv, Positions, Batches
    <2>3. groupWorkers' = [v \in Positions |-> IF v = w THEN r ELSE groupWorkers[v]]
      BY Zenon, <1>2 DEF GroupInv
    <2> QED  BY Zenon, <1>2, <2>1, <2>2, <2>3 DEF GroupInv
  <1>3. ASSUME NEW g \in GroupIds, Launch(g)
        PROVE  GroupInv'
    <2>1. /\ BatchDone(g) /\ slot' = [slot EXCEPT ![g] = 1 - @]
          /\ groupWorkers' = [w \in Positions |->
                IF w[1] \in Team(g) /\ w[2] = 1 - slot[g]
                  THEN [at |-> "ready", gen |-> 0] ELSE groupWorkers[w]]
      BY Zenon, <1>3 DEF Launch, GroupInv
    <2>2. slot' \in [GroupIds -> Batches] /\ slot'[g] = 1 - slot[g]
          /\ \A h \in GroupIds \ {g} : slot'[h] = slot[h]
      BY <2>1 DEF GroupInv, Batches
    <2>3. ASSUME NEW w \in AllWorkers
          PROVE  groupWorkers'[<<w, 1 - slot'[w[1]]>>].at = "done"
      <3>1. w[1] \in GroupIds /\ w \in Team(w[1]) /\ (w \in Team(g) => g = w[1])
        BY Zenon, WorkerGroups
      <3>2. 1 - slot'[w[1]] \in Batches
        BY <2>2, <3>1 DEF Batches
      <3>3. CASE w[1] = g
        <4>1. 1 - slot'[g] = slot[g] /\ slot[g] # 1 - slot[g]
          BY <2>2 DEF GroupInv, Batches
        <4>2. groupWorkers'[<<w, slot[g]>>] = groupWorkers[<<w, slot[g]>>]
          BY Zenon, <2>1, <3>2, <3>3, <4>1 DEF Positions
        <4>3. groupWorkers[<<w, slot[g]>>].at = "done"
          BY Zenon, <2>1, <3>1, <3>3 DEF BatchDone
        <4> QED  BY Zenon, <3>3, <4>1, <4>2, <4>3
      <3>4. CASE w[1] # g
        <4>1. slot'[w[1]] = slot[w[1]] /\ w \notin Team(g)
          BY Zenon, <2>2, <3>1, <3>4
        <4>2. groupWorkers'[<<w, 1 - slot'[w[1]]>>] = groupWorkers[<<w, 1 - slot'[w[1]]>>]
          BY <2>1, <3>2, <4>1 DEF Positions
        <4> QED  BY Zenon, <4>1, <4>2 DEF GroupInv
      <3> QED  BY Zenon, <3>3, <3>4
    <2>4. groupWorkers' = [w \in Positions |-> groupWorkers'[w]]
      BY Zenon, <2>1
    <2> QED  BY Zenon, <2>2, <2>3, <2>4 DEF GroupInv
  <1>4. CASE GroupEffect
    BY Zenon, <1>1, <1>2, <1>3, <1>4 DEF GroupEffect
  <1>5. DOMAIN groupWorkers = Positions
    BY Zenon DEF GroupInv
  <1>6. CASE CacheExpires \/ Published \/ MinuteOver \/ Shutdown \/ SetPaused \/ StartReturns
    BY Zenon, <1>1, <1>6 DEF CacheExpires, Published, MinuteOver, Shutdown, SetPaused, StartReturns, grp
  <1>7. CASE UNCHANGED groupVars
    BY Zenon, <1>1, <1>7 DEF groupVars, grp
  <1> QED  BY Zenon, <1>4, <1>5, <1>6, <1>7, GroupStepEffect, WorkerStepEffect DEF GroupNext

\* It holds while no batch has started.
LEMMA BatchStart ==
    ASSUME GroupInit
    PROVE  GroupInv
  <1>1. ASSUME NEW w \in AllWorkers PROVE groupWorkers[<<w, 1 - slot[w[1]]>>].at = "done"
    BY WorkerGroups DEF GroupInit, Batches, Idle
  <1> QED  BY Zenon, <1>1 DEF GroupInit, GroupInv, Positions, Batches

\* Of a worker's two places one is always done.
LEMMA BatchSafe ==
    ASSUME GroupInv
    PROVE  OneSessionPerWorker
  <1>1. ASSUME NEW w \in AllWorkers
        PROVE  groupWorkers[<<w, 0>>].at = "done" \/ groupWorkers[<<w, 1>>].at = "done"
    <2>1. 1 - slot[w[1]] = 0 \/ 1 - slot[w[1]] = 1
      BY WorkerGroups DEF GroupInv, Batches
    <2> QED  BY Zenon, <2>1 DEF GroupInv
  <1> QED  BY Zenon, <1>1 DEF OneSessionPerWorker

-----------------------------------------------------------------------------
(***************************************************************************)
(* The answers of a person.  An answer on its way to the fetch that asked  *)
(* is in one place only and nobody has used it; from when it is cached on, *)
(* its uses so far, the fetches about to use it and what the cache still   *)
(* allows add up to no more than it may be used.                           *)
(***************************************************************************)

FetchPlaces ==
    {"idle", "helper", "helping", "calls", "acquire", "backoff", "request", "pop",
     "queue", "headless", "challenge", "webview", "pause", "panel", "push", "use", "refused",
     "login", "failed", "done"}

PlaceType ==
    /\ cpc \in [Fetchers -> FetchPlaces] /\ wvSem \in Fetchers \cup {NoOne}
    /\ challenge \in Fetchers \cup {NoOne}

NumberType ==
    /\ answers \in 0..MaxAnswers /\ resultCh \in 0..answers /\ cachedToken \in 0..answers
    /\ holds \in [Fetchers -> 0..answers] /\ results \in [Fetchers -> 0..answers]
    /\ cachedUsages \in Nat /\ used \in [1..MaxAnswers -> Nat]

\* Where a fetch has an answer, and that it is the one in captchaWVSem while it
\* asks the WebView.
Holders ==
    /\ \A f \in Fetchers :
         /\ holds[f] # 0 => cpc[f] \in {"pause", "push", "use"}
         /\ cpc[f] \in {"push", "use"} => holds[f] # 0
         /\ cpc[f] \in {"webview", "pause"} => wvSem = f
    /\ cachedUsages > 0 => cachedToken # 0

Unseen(a) == used[a] = 0 /\ cachedToken # a /\ \A f \in Fetchers : holds[f] # a

\* An answer that nobody has used or cached yet is in one place.
AheadUnused == \A a \in 1..MaxAnswers : a > answers => used[a] = 0

InChannel ==
    resultCh # 0 => Unseen(resultCh) /\ \A f \in Fetchers : results[f] # resultCh

InFile ==
    \A f \in Fetchers : results[f] # 0 =>
        Unseen(results[f]) /\ \A g \in Fetchers : results[g] = results[f] => g = f

InHand ==
    \A f \in Fetchers : holds[f] # 0 /\ cpc[f] # "use" =>
        /\ used[holds[f]] = 0 /\ cachedToken # holds[f]
        /\ \A g \in Fetchers : holds[g] = holds[f] => g = f

OnTheWay == AheadUnused /\ InChannel /\ InFile /\ InHand

Users(a) == {f \in Fetchers : holds[f] = a}
LeftInCache(a) == IF cachedToken = a THEN cachedUsages ELSE 0

\* The uses of an answer, those under way and those the cache still allows.
Spending ==
    \A a \in 1..MaxAnswers :
        used[a] + Cardinality(Users(a)) + LeftInCache(a) <= 1 + CacheUses

FetchInv == PlaceType /\ NumberType /\ Holders /\ OnTheWay /\ Spending

(* What a step of a fetch f does with the answers. *)

OnlyMoves(f) ==
    f \in Fetchers /\ \A g \in Fetchers \ {f} : cpc'[g] = cpc[g]

Rests ==
    /\ UNCHANGED <<holds, used, results, resultCh, cacheVars, answers>>
    /\ \A f \in Fetchers : holds[f] # 0 => (cpc'[f] = "use" <=> cpc[f] = "use")

Pops(f) ==
    /\ OnlyMoves(f) /\ cpc'[f] = "use" /\ holds[f] = 0 /\ cachedUsages > 0
    /\ holds' = [holds EXCEPT ![f] = cachedToken] /\ cachedUsages' = cachedUsages - 1
    /\ UNCHANGED <<used, results, resultCh, cachedToken, answers>>

Pushes(f) ==
    /\ OnlyMoves(f) /\ cpc[f] # "use" /\ cpc'[f] = "use" /\ holds[f] # 0
    /\ cachedToken' = holds[f] /\ cachedUsages' = CacheUses
    /\ UNCHANGED <<holds, used, results, resultCh, answers>>

Uses(f) ==
    /\ OnlyMoves(f) /\ cpc[f] = "use" /\ holds[f] # 0
    /\ used' = [used EXCEPT ![holds[f]] = @ + 1] /\ holds' = [holds EXCEPT ![f] = 0]
    /\ UNCHANGED <<results, resultCh, cacheVars, answers>>

Invalidates(f) ==
    /\ OnlyMoves(f) /\ holds[f] = 0 /\ cachedToken' = 0 /\ cachedUsages' = 0
    /\ UNCHANGED <<holds, used, results, resultCh, answers>>

Finds(f) ==
    /\ OnlyMoves(f) /\ cpc'[f] # "use" /\ holds[f] = 0
    /\ answers < MaxAnswers /\ answers' = answers + 1 /\ holds' = [holds EXCEPT ![f] = answers + 1]
    /\ UNCHANGED <<used, results, resultCh, cacheVars>>

Receives(f) ==
    /\ OnlyMoves(f) /\ cpc'[f] # "use" /\ holds[f] = 0
    /\ \/ /\ resultCh # 0 /\ holds' = [holds EXCEPT ![f] = resultCh]
          /\ resultCh' = 0 /\ results' = results
       \/ /\ results[f] # 0 /\ holds' = [holds EXCEPT ![f] = results[f]]
          /\ results' = [results EXCEPT ![f] = 0] /\ resultCh' = resultCh
    /\ UNCHANGED <<used, cacheVars, answers>>

Drops(f) ==
    /\ OnlyMoves(f) /\ holds[f] = 0
    /\ \/ resultCh' = 0 /\ results' = results
       \/ resultCh' = resultCh /\ results' = [results EXCEPT ![f] = 0]
    /\ UNCHANGED <<holds, used, cacheVars, answers>>

Submits ==
    /\ answers < MaxAnswers /\ answers' = answers + 1 /\ cpc' = cpc
    /\ \/ resultCh' = answers + 1 /\ results' = results
       \/ /\ resultCh' = resultCh
          /\ \E f \in Fetchers : results' = [results EXCEPT ![f] = answers + 1]
    /\ UNCHANGED <<holds, used, cacheVars>>

FetchEffect ==
    \/ Rests \/ Submits
    \/ \E f \in Fetchers : \/ Pops(f) \/ Pushes(f) \/ Uses(f) \/ Invalidates(f)
                           \/ Finds(f) \/ Receives(f) \/ Drops(f)

\* The numbers of the answers, without the places.
LEMMA FetchNumbers ==
    ASSUME FetchInv
    PROVE  /\ answers \in Nat /\ resultCh \in Nat /\ cachedToken \in Nat
           /\ holds \in [Fetchers -> Nat] /\ results \in [Fetchers -> Nat]
           /\ used \in [1..MaxAnswers -> Nat]
           /\ resultCh <= answers /\ cachedToken <= answers
           /\ \A f \in Fetchers : holds[f] <= answers /\ results[f] <= answers
           /\ answers <= MaxAnswers /\ MaxAnswers \in Nat
  BY FetchAssumption DEF FetchInv, NumberType

\* An answer that nobody gave yet is nowhere.
LEMMA NextUnseen ==
    ASSUME FetchInv, answers + 1 <= MaxAnswers
    PROVE  /\ Unseen(answers + 1) /\ resultCh # answers + 1
           /\ \A f \in Fetchers : results[f] # answers + 1
  <1>1. used[answers + 1] = 0
    BY FetchNumbers DEF FetchInv, OnTheWay, AheadUnused
  <1> QED  BY <1>1, FetchNumbers DEF Unseen

\* getCredsForHash, getUniqueVKCreds and the steps that move no answer.
LEMMA FetchRests ==
    ASSUME FetchInv, NEW f \in Fetchers,
           \/ StartFetch(f) \/ Acquire(f) \/ HelperReturns(f) \/ VKCalls(f) \/ Release(f)
           \/ BackedOff(f) \/ Request(f) \/ Login(f) \/ LeaveWebView(f) \/ SolveExpires(f)
    PROVE  FetchEffect /\ PlaceType' /\ Holders'
  <1> USE DEF Goes, waysVars, cacheVars
  <1>1. PlaceType /\ Holders
    BY Zenon DEF FetchInv
  <1>2. CASE StartFetch(f)
    <2>1. PlaceType'
      BY Zenon, <1>1, <1>2 DEF StartFetch, PlaceType, FetchPlaces
    <2>2. Holders'
      BY Zenon, <1>1, <1>2, FetchNumbers DEF StartFetch, PlaceType, Holders
    <2>3. Rests
      BY Zenon, <1>1, <1>2, FetchNumbers DEF StartFetch, Rests, OnlyMoves, PlaceType, Holders
    <2> QED  BY Zenon, <2>1, <2>2, <2>3 DEF FetchEffect
  <1>3. CASE Acquire(f)
    <2>1. PlaceType'
      BY Zenon, <1>1, <1>3 DEF Acquire, PlaceType, FetchPlaces
    <2>2. Holders'
      BY Zenon, <1>1, <1>3, FetchNumbers DEF Acquire, PlaceType, Holders
    <2>3. Rests
      BY Zenon, <1>1, <1>3, FetchNumbers DEF Acquire, Rests, OnlyMoves, PlaceType, Holders
    <2> QED  BY Zenon, <2>1, <2>2, <2>3 DEF FetchEffect
  <1>4. CASE Release(f)
    <2>1. PlaceType'
      BY Zenon, <1>1, <1>4 DEF Release, PlaceType, FetchPlaces
    <2>2. Holders'
      BY Zenon, <1>1, <1>4, FetchNumbers DEF Release, PlaceType, Holders
    <2>3. Rests
      BY Zenon, <1>1, <1>4, FetchNumbers DEF Release, Rests, OnlyMoves, PlaceType, Holders
    <2> QED  BY Zenon, <2>1, <2>2, <2>3 DEF FetchEffect
  <1>5. CASE BackedOff(f)
    <2>1. PlaceType'
      BY Zenon, <1>1, <1>5 DEF BackedOff, PlaceType, FetchPlaces
    <2>2. Holders'
      BY Zenon, <1>1, <1>5, FetchNumbers DEF BackedOff, PlaceType, Holders
    <2>3. Rests
      BY Zenon, <1>1, <1>5, FetchNumbers DEF BackedOff, Rests, OnlyMoves, PlaceType, Holders
    <2> QED  BY Zenon, <2>1, <2>2, <2>3 DEF FetchEffect
  <1>6. CASE Request(f)
    <2>1. PlaceType'
      BY Zenon, <1>1, <1>6 DEF Request, PlaceType, FetchPlaces
    <2>2. Holders'
      BY Zenon, <1>1, <1>6, FetchNumbers DEF Request, PlaceType, Holders
    <2>3. Rests
      BY Zenon, <1>1, <1>6, FetchNumbers DEF Request, Rests, OnlyMoves, PlaceType, Holders
    <2> QED  BY Zenon, <2>1, <2>2, <2>3 DEF FetchEffect
  <1>7. CASE Login(f)
    <2>1. PlaceType'
      BY Zenon, <1>1, <1>7 DEF Login, PlaceType, FetchPlaces
    <2>2. Holders'
      BY Zenon, <1>1, <1>7, FetchNumbers DEF Login, PlaceType, Holders
    <2>3. Rests
      BY Zenon, <1>1, <1>7, FetchNumbers DEF Login, Rests, OnlyMoves, PlaceType, Holders
    <2> QED  BY Zenon, <2>1, <2>2, <2>3 DEF FetchEffect
  <1>8. CASE LeaveWebView(f)
    <2>1. PlaceType'
      BY Zenon, <1>1, <1>8 DEF LeaveWebView, PlaceType, FetchPlaces
    <2>2. Holders'
      BY Zenon, <1>1, <1>8, FetchNumbers DEF LeaveWebView, PlaceType, Holders
    <2>3. Rests
      BY Zenon, <1>1, <1>8, FetchNumbers DEF LeaveWebView, Rests, OnlyMoves, PlaceType, Holders
    <2> QED  BY Zenon, <2>1, <2>2, <2>3 DEF FetchEffect
  <1>9. CASE SolveExpires(f)
    <2>1. PlaceType'
      BY Zenon, <1>1, <1>9 DEF SolveExpires, PlaceType, FetchPlaces, MarkStatus, WriteFileAtomic
    <2>2. Holders'
      BY Zenon, <1>1, <1>9, FetchNumbers DEF SolveExpires, PlaceType, Holders, MarkStatus, WriteFileAtomic
    <2>3. Rests
      BY Zenon, <1>1, <1>9, FetchNumbers DEF SolveExpires, Rests, OnlyMoves, PlaceType, Holders, MarkStatus, WriteFileAtomic
    <2> QED  BY Zenon, <2>1, <2>2, <2>3 DEF FetchEffect
  <1>10. CASE HelperReturns(f)
    <2>1. PlaceType'
      BY Zenon, <1>1, <1>10 DEF HelperReturns, PlaceType, FetchPlaces
    <2>2. Holders'
      BY Zenon, <1>1, <1>10, FetchNumbers DEF HelperReturns, PlaceType, Holders
    <2>3. Rests
      BY Zenon, <1>1, <1>10, FetchNumbers DEF HelperReturns, Rests, OnlyMoves, PlaceType, Holders
    <2> QED  BY Zenon, <2>1, <2>2, <2>3 DEF FetchEffect
  <1>11. CASE VKCalls(f)
    <2>1. PlaceType'
      BY Zenon, <1>1, <1>11 DEF VKCalls, PlaceType, FetchPlaces
    <2>2. Holders'
      BY Zenon, <1>1, <1>11, FetchNumbers DEF VKCalls, PlaceType, Holders
    <2>3. Rests
      BY Zenon, <1>1, <1>11, FetchNumbers DEF VKCalls, Rests, OnlyMoves, PlaceType, Holders
    <2> QED  BY Zenon, <2>1, <2>2, <2>3 DEF FetchEffect
  <1> QED  BY Zenon, <1>2, <1>3, <1>4, <1>5, <1>6, <1>7, <1>8, <1>9, <1>10, <1>11

\* The cached token, and the request that uses an answer.
LEMMA FetchUses ==
    ASSUME FetchInv, NEW f \in Fetchers,
           PopCachedToken(f) \/ PushCachedToken(f) \/ UseAnswer(f) \/ Refused(f)
    PROVE  FetchEffect /\ PlaceType' /\ Holders'
  <1> USE DEF Goes, waysVars, cacheVars
  <1>1. PlaceType /\ Holders
    BY Zenon DEF FetchInv
  <1>2. CASE PopCachedToken(f)
    <2>1. PlaceType'
      BY Zenon, <1>1, <1>2 DEF PopCachedToken, PlaceType, FetchPlaces, Ways
    <2>2. Holders'
      BY Zenon, <1>1, <1>2, FetchNumbers DEF PopCachedToken, PlaceType, Holders, Ways
    <2>3. Pops(f) \/ Rests
      BY Zenon, <1>1, <1>2, FetchNumbers DEF PopCachedToken, Pops, Rests, OnlyMoves, PlaceType, Holders, Ways
    <2> QED  BY Zenon, <2>1, <2>2, <2>3 DEF FetchEffect
  <1>3. CASE PushCachedToken(f)
    <2>1. PlaceType'
      BY Zenon, <1>1, <1>3 DEF PushCachedToken, PlaceType, FetchPlaces
    <2>2. Holders'
      BY Zenon, <1>1, <1>3, FetchNumbers DEF PushCachedToken, PlaceType, Holders
    <2>3. Pushes(f)
      BY Zenon, <1>1, <1>3, FetchNumbers DEF PushCachedToken, Pushes, OnlyMoves, PlaceType, Holders
    <2> QED  BY Zenon, <2>1, <2>2, <2>3 DEF FetchEffect
  <1>4. CASE UseAnswer(f)
    <2>1. PlaceType'
      BY Zenon, <1>1, <1>4 DEF UseAnswer, PlaceType, FetchPlaces
    <2>2. Holders'
      BY Zenon, <1>1, <1>4, FetchNumbers DEF UseAnswer, PlaceType, Holders
    <2>3. Uses(f)
      BY Zenon, <1>1, <1>4, FetchNumbers DEF UseAnswer, Uses, OnlyMoves, PlaceType, Holders
    <2> QED  BY Zenon, <2>1, <2>2, <2>3 DEF FetchEffect
  <1>5. CASE Refused(f)
    <2>1. PlaceType'
      BY Zenon, <1>1, <1>5 DEF Refused, PlaceType, FetchPlaces
    <2>2. Holders'
      <3>1. /\ cpc[f] = "refused" /\ cpc'[f] = "failed" /\ \A g \in Fetchers \ {f} : cpc'[g] = cpc[g]
            /\ UNCHANGED <<holds, wvSem>>
            /\ \/ cachedToken' = 0 /\ cachedUsages' = 0
               \/ UNCHANGED <<cachedToken, cachedUsages>>
        BY <1>1, <1>5 DEF Refused, PlaceType
      <3>2. cachedUsages' > 0 => cachedToken' # 0
        BY <1>1, <3>1 DEF Holders
      <3>3. ASSUME NEW g \in Fetchers
            PROVE  /\ holds'[g] # 0 => cpc'[g] \in {"pause", "push", "use"}
                   /\ cpc'[g] \in {"push", "use"} => holds'[g] # 0
                   /\ cpc'[g] \in {"webview", "pause"} => wvSem' = g
        BY Zenon, <1>1, <3>1 DEF Holders
      <3> QED  BY Zenon, <3>2, <3>3 DEF Holders
    <2>3. Invalidates(f) \/ Rests
      BY Zenon, <1>1, <1>5, FetchNumbers DEF Refused, Invalidates, Rests, OnlyMoves, PlaceType, Holders
    <2> QED  BY Zenon, <2>1, <2>2, <2>3 DEF FetchEffect
  <1> QED  BY Zenon, <1>2, <1>3, <1>4, <1>5

\* The ways to a person, and to an answer without one.
LEMMA FetchAsks ==
    ASSUME FetchInv, NEW f \in Fetchers,
           Headless(f) \/ AskWebView(f) \/ WebViewAnswers(f) \/ WriteChallenge(f) \/ PollResult(f)
    PROVE  FetchEffect /\ PlaceType' /\ Holders'
  <1> USE DEF Goes, waysVars, cacheVars
  <1>1. PlaceType /\ Holders
    BY Zenon DEF FetchInv
  <1>2. CASE Headless(f)
    <2>1. PlaceType'
      BY Zenon, <1>1, <1>2 DEF Headless, PlaceType, FetchPlaces
    <2>2. Holders'
      BY SMTT(60), <1>1, <1>2, FetchNumbers DEF Headless, PlaceType, Holders
    <2>3. Finds(f) \/ Rests
      BY Zenon, <1>1, <1>2, FetchNumbers DEF Headless, Finds, Rests, OnlyMoves, PlaceType, Holders
    <2> QED  BY Zenon, <2>1, <2>2, <2>3 DEF FetchEffect
  <1>3. CASE AskWebView(f)
    <2>1. PlaceType'
      BY Zenon, <1>1, <1>3 DEF AskWebView, PlaceType, FetchPlaces
    <2>2. Holders'
      <3>1. /\ cpc[f] = "queue" /\ \A g \in Fetchers \ {f} : cpc'[g] = cpc[g]
            /\ UNCHANGED <<holds, cachedToken, cachedUsages>>
            /\ \/ wvSem = NoOne /\ cpc'[f] = "webview" /\ wvSem' = f
               \/ cpc'[f] = "failed" /\ wvSem' = wvSem
        BY <1>1, <1>3 DEF AskWebView, PlaceType
      <3>2. ASSUME NEW g \in Fetchers
            PROVE  /\ holds'[g] # 0 => cpc'[g] \in {"pause", "push", "use"}
                   /\ cpc'[g] \in {"push", "use"} => holds'[g] # 0
                   /\ cpc'[g] \in {"webview", "pause"} => wvSem' = g
        BY Zenon, <1>1, <3>1, FetchAssumption DEF Holders
      <3>3. cachedUsages' > 0 => cachedToken' # 0
        BY Zenon, <1>1, <3>1 DEF Holders
      <3> QED  BY Zenon, <3>2, <3>3 DEF Holders
    <2>3. Drops(f) \/ Rests
      BY Zenon, <1>1, <1>3, FetchNumbers DEF AskWebView, Drops, Rests, OnlyMoves, PlaceType, Holders
    <2> QED  BY Zenon, <2>1, <2>2, <2>3 DEF FetchEffect
  <1>4. CASE WebViewAnswers(f)
    <2>1. PlaceType'
      BY Zenon, <1>1, <1>4 DEF WebViewAnswers, PlaceType, FetchPlaces
    <2>2. Holders'
      BY Zenon, <1>1, <1>4, FetchNumbers DEF WebViewAnswers, PlaceType, Holders
    <2>3. Receives(f) \/ Drops(f) \/ Rests
      BY Zenon, <1>1, <1>4, FetchNumbers DEF WebViewAnswers, Receives, Drops, Rests, OnlyMoves, PlaceType, Holders
    <2> QED  BY Zenon, <2>1, <2>2, <2>3 DEF FetchEffect
  <1>5. CASE WriteChallenge(f)
    <2>1. PlaceType'
      BY Zenon, <1>1, <1>5 DEF WriteChallenge, PlaceType, FetchPlaces, WriteFileAtomic
    <2>2. Holders'
      BY Zenon, <1>1, <1>5, FetchNumbers DEF WriteChallenge, PlaceType, Holders, WriteFileAtomic
    <2>3. Drops(f) \/ Rests
      BY Zenon, <1>1, <1>5, FetchNumbers DEF WriteChallenge, Drops, Rests, OnlyMoves, PlaceType, Holders, WriteFileAtomic
    <2> QED  BY Zenon, <2>1, <2>2, <2>3 DEF FetchEffect
  <1>6. CASE PollResult(f)
    <2>1. PlaceType'
      BY Zenon, <1>1, <1>6 DEF PollResult, PlaceType, FetchPlaces, ReadResult, MarkStatus, WriteFileAtomic
    <2>2. Holders'
      BY Zenon, <1>1, <1>6, FetchNumbers DEF PollResult, PlaceType, Holders, ReadResult, MarkStatus, WriteFileAtomic
    <2>3. Receives(f)
      BY Zenon, <1>1, <1>6, FetchNumbers DEF PollResult, Receives, OnlyMoves, PlaceType, Holders, ReadResult, MarkStatus, WriteFileAtomic
    <2> QED  BY Zenon, <2>1, <2>2, <2>3 DEF FetchEffect
  <1> QED  BY Zenon, <1>2, <1>3, <1>4, <1>5, <1>6

\* The application and the panel, and the end of the context.
LEMMA FetchTold ==
    ASSUME FetchInv, SubmitCaptchaResult \/ PanelAnswers \/ StopFetches
    PROVE  FetchEffect /\ PlaceType' /\ Holders'
  <1> USE DEF waysVars, cacheVars
  <1>1. PlaceType /\ Holders
    BY Zenon DEF FetchInv
  <1>2. PlaceType'
    BY Zenon, <1>1 DEF PlaceType, SubmitCaptchaResult, PanelAnswers, StopFetches
  <1>3. Holders'
    BY Zenon, <1>1 DEF Holders, SubmitCaptchaResult, PanelAnswers, StopFetches
  <1>4. Submits \/ Rests
    BY Zenon, <1>1 DEF PlaceType, SubmitCaptchaResult, PanelAnswers, StopFetches, Submits, Rests
  <1> QED  BY Zenon, <1>2, <1>3, <1>4 DEF FetchEffect

\* The numbers stay in their ranges.
LEMMA NumbersKept ==
    ASSUME FetchInv, FetchEffect
    PROVE  NumberType'
  <1> USE FetchAssumption DEF NumberType, cacheVars
  <1>1. NumberType
    BY Zenon DEF FetchInv
  <1>2. CASE Rests
    BY Zenon, <1>1, <1>2 DEF Rests
  <1>3. CASE Submits
    <2>1. /\ answers' \in 0..MaxAnswers /\ answers' = answers + 1 /\ answers \in Nat
          /\ UNCHANGED <<holds, used, cachedToken, cachedUsages>>
      BY <1>1, <1>3 DEF Submits
    <2>2. resultCh' \in 0..answers' /\ results' \in [Fetchers -> 0..answers']
      BY SMTT(60), <1>1, <1>3, <2>1 DEF Submits
    <2>3. holds' \in [Fetchers -> 0..answers'] /\ cachedToken' \in 0..answers'
      BY <1>1, <2>1
    <2> QED  BY <1>1, <2>1, <2>2, <2>3
  <1>4. ASSUME NEW f \in Fetchers, Pops(f) \/ Pushes(f) \/ Invalidates(f) PROVE NumberType'
    <2>1. CASE Pops(f)
      BY <1>1, <2>1 DEF Pops
    <2>2. CASE Pushes(f)
      BY <1>1, <2>2 DEF Pushes
    <2>3. CASE Invalidates(f)
      BY <1>1, <2>3 DEF Invalidates
    <2> QED  BY Zenon, <1>4, <2>1, <2>2, <2>3
  <1>5. ASSUME NEW f \in Fetchers, Uses(f) PROVE NumberType'
    BY <1>1, <1>5 DEF Uses
  <1>6. ASSUME NEW f \in Fetchers, Finds(f) PROVE NumberType'
    BY <1>1, <1>6 DEF Finds
  <1>7. ASSUME NEW f \in Fetchers, Receives(f) \/ Drops(f) PROVE NumberType'
    <2>1. UNCHANGED <<answers, used, cachedToken, cachedUsages>>
      BY Zenon, <1>7 DEF Receives, Drops
    <2>2. CASE Receives(f)
      <3>1. resultCh' \in 0..answers
        BY <1>1, <2>2 DEF Receives
      <3>2. results' \in [Fetchers -> 0..answers]
        BY <1>1, <2>2 DEF Receives
      <3>3. holds' \in [Fetchers -> 0..answers]
        BY <1>1, <2>2 DEF Receives
      <3> QED  BY Zenon, <1>1, <2>1, <3>1, <3>2, <3>3
    <2>3. CASE Drops(f)
      <3>1. resultCh' \in 0..answers /\ holds' \in [Fetchers -> 0..answers]
        BY <1>1, <2>3 DEF Drops
      <3>2. results' \in [Fetchers -> 0..answers]
        BY <1>1, <2>3 DEF Drops
      <3> QED  BY Zenon, <1>1, <2>1, <3>1, <3>2
    <2> QED  BY Zenon, <1>7, <2>2, <2>3
  <1> QED  BY Zenon, <1>2, <1>3, <1>4, <1>5, <1>6, <1>7 DEF FetchEffect

\* A fetch that takes an answer nobody has seen is the only one to have it.
LEMMA TakenInHand ==
    ASSUME FetchInv, NEW f \in Fetchers, NEW a \in Nat, Unseen(a),
           holds' = [holds EXCEPT ![f] = a], UNCHANGED <<used, cachedToken>>,
           \A g \in Fetchers \ {f} : cpc'[g] = cpc[g]
    PROVE  InHand'
  <1>1. \A g \in Fetchers : holds'[g] = IF g = f THEN a ELSE holds[g]
    BY FetchNumbers
  <1>2. /\ used[a] = 0 /\ cachedToken # a /\ used' = used /\ cachedToken' = cachedToken
        /\ \A g \in Fetchers : holds[g] # a
    BY Zenon DEF Unseen
  <1> SUFFICES ASSUME NEW g \in Fetchers, holds'[g] # 0, cpc'[g] # "use"
               PROVE  /\ used'[holds'[g]] = 0 /\ cachedToken' # holds'[g]
                      /\ \A h \in Fetchers : holds'[h] = holds'[g] => h = g
    BY Zenon DEF InHand
  <1>3. CASE g = f
    <2>1. holds'[g] = a
      BY Zenon, <1>1, <1>3
    <2>2. \A h \in Fetchers : h # f => holds'[h] # a
      BY Zenon, <1>1, <1>2
    <2> QED  BY Zenon, <1>2, <1>3, <2>1, <2>2
  <1>4. CASE g # f
    <2>1. holds'[g] = holds[g] /\ cpc'[g] = cpc[g] /\ holds[g] # a
      BY Zenon, <1>1, <1>2, <1>4
    <2>2. /\ used[holds[g]] = 0 /\ cachedToken # holds[g]
          /\ \A h \in Fetchers : holds[h] = holds[g] => h = g
      BY Zenon, <2>1 DEF FetchInv, OnTheWay, InHand
    <2>3. \A h \in Fetchers : holds'[h] = holds[g] => h = g
      BY Zenon, <1>1, <2>1, <2>2
    <2> QED  BY Zenon, <1>2, <2>1, <2>2, <2>3
  <1> QED  BY Zenon, <1>3, <1>4

\* Whatever happens to the answers, the ones on their way stay in one place.
LEMMA OnTheWayKept ==
    ASSUME FetchInv, FetchEffect
    PROVE  OnTheWay'
  <1>1. AheadUnused /\ InChannel /\ InFile /\ InHand
    BY Zenon DEF FetchInv, OnTheWay
  <1>2. CASE Rests
    <2>1. AheadUnused'
      BY Zenon, <1>1, <1>2, FetchNumbers DEF Rests, AheadUnused, Unseen, cacheVars
    <2>2. InChannel'
      BY Zenon, <1>1, <1>2, FetchNumbers DEF Rests, InChannel, Unseen, cacheVars
    <2>3. InFile'
      BY Zenon, <1>1, <1>2, FetchNumbers DEF Rests, InFile, Unseen, cacheVars
    <2>4. InHand'
      BY Zenon, <1>1, <1>2, FetchNumbers DEF Rests, InHand, Unseen, cacheVars
    <2> QED  BY Zenon, <2>1, <2>2, <2>3, <2>4 DEF OnTheWay
  <1>3. CASE Submits
    <2>1. AheadUnused'
      BY <1>1, <1>3, FetchNumbers, NextUnseen DEF Submits, AheadUnused, Unseen, cacheVars
    <2>2. InChannel'
      BY <1>1, <1>3, FetchNumbers, NextUnseen DEF Submits, InChannel, Unseen, cacheVars
    <2>3. InFile'
      BY <1>1, <1>3, FetchNumbers, NextUnseen DEF Submits, InFile, Unseen, cacheVars
    <2>4. InHand'
      BY Zenon, <1>1, <1>3, FetchNumbers, NextUnseen DEF Submits, InHand, Unseen, cacheVars
    <2> QED  BY Zenon, <2>1, <2>2, <2>3, <2>4 DEF OnTheWay
  <1>4. ASSUME NEW f \in Fetchers, Pops(f) PROVE OnTheWay'
    <2>1. AheadUnused'
      BY Zenon, <1>1, <1>4, FetchNumbers DEF Pops, AheadUnused, Unseen, cacheVars, OnlyMoves
    <2>2. InChannel'
      BY Zenon, <1>1, <1>4, FetchNumbers DEF Pops, InChannel, Unseen, cacheVars, OnlyMoves
    <2>3. InFile'
      BY Zenon, <1>1, <1>4, FetchNumbers DEF Pops, InFile, Unseen, cacheVars, OnlyMoves
    <2>4. InHand'
      BY Zenon, <1>1, <1>4, FetchNumbers DEF Pops, InHand, Unseen, cacheVars, OnlyMoves
    <2> QED  BY Zenon, <2>1, <2>2, <2>3, <2>4 DEF OnTheWay
  <1>5. ASSUME NEW f \in Fetchers, Pushes(f) PROVE OnTheWay'
    <2>1. AheadUnused'
      BY Zenon, <1>1, <1>5, FetchNumbers DEF Pushes, AheadUnused, Unseen, cacheVars, OnlyMoves
    <2>2. InChannel'
      BY Zenon, <1>1, <1>5, FetchNumbers DEF Pushes, InChannel, Unseen, cacheVars, OnlyMoves
    <2>3. InFile'
      BY Zenon, <1>1, <1>5, FetchNumbers DEF Pushes, InFile, Unseen, cacheVars, OnlyMoves
    <2>4. InHand'
      BY Zenon, <1>1, <1>5, FetchNumbers DEF Pushes, InHand, Unseen, cacheVars, OnlyMoves
    <2> QED  BY Zenon, <2>1, <2>2, <2>3, <2>4 DEF OnTheWay
  <1>6. ASSUME NEW f \in Fetchers, Uses(f) PROVE OnTheWay'
    <2>1. AheadUnused'
      BY <1>1, <1>6, FetchNumbers DEF Uses, AheadUnused, Unseen, cacheVars, OnlyMoves
    <2>2. InChannel'
      BY <1>1, <1>6, FetchNumbers DEF Uses, InChannel, Unseen, cacheVars, OnlyMoves
    <2>3. InFile'
      BY <1>1, <1>6, FetchNumbers DEF Uses, InFile, Unseen, cacheVars, OnlyMoves
    <2>4. InHand'
      BY <1>1, <1>6, FetchNumbers DEF Uses, InHand, Unseen, cacheVars, OnlyMoves
    <2> QED  BY Zenon, <2>1, <2>2, <2>3, <2>4 DEF OnTheWay
  <1>7. ASSUME NEW f \in Fetchers, Invalidates(f) PROVE OnTheWay'
    <2>1. AheadUnused'
      BY Zenon, <1>1, <1>7, FetchNumbers DEF Invalidates, AheadUnused, Unseen, cacheVars, OnlyMoves
    <2>2. InChannel'
      BY Zenon, <1>1, <1>7, FetchNumbers DEF Invalidates, InChannel, Unseen, cacheVars, OnlyMoves
    <2>3. InFile'
      BY Zenon, <1>1, <1>7, FetchNumbers DEF Invalidates, InFile, Unseen, cacheVars, OnlyMoves
    <2>4. InHand'
      BY Zenon, <1>1, <1>7, FetchNumbers DEF Invalidates, InHand, Unseen, cacheVars, OnlyMoves
    <2> QED  BY Zenon, <2>1, <2>2, <2>3, <2>4 DEF OnTheWay
  <1>8. ASSUME NEW f \in Fetchers, Finds(f) PROVE OnTheWay'
    <2>1. AheadUnused'
      BY <1>1, <1>8, FetchNumbers, NextUnseen DEF Finds, AheadUnused, Unseen, cacheVars, OnlyMoves
    <2>2. InChannel'
      BY <1>1, <1>8, FetchNumbers, NextUnseen DEF Finds, InChannel, Unseen, cacheVars, OnlyMoves
    <2>3. InFile'
      BY <1>1, <1>8, FetchNumbers, NextUnseen DEF Finds, InFile, Unseen, cacheVars, OnlyMoves
    <2>4. InHand'
      <3>1. answers + 1 \in Nat /\ Unseen(answers + 1)
        BY <1>8, FetchNumbers, FetchAssumption, NextUnseen DEF Finds
      <3>2. /\ holds' = [holds EXCEPT ![f] = answers + 1] /\ UNCHANGED <<used, cachedToken>>
            /\ \A g \in Fetchers \ {f} : cpc'[g] = cpc[g]
        BY Zenon, <1>8 DEF Finds, cacheVars, OnlyMoves
      <3> QED  BY Zenon, <1>8, <3>1, <3>2, TakenInHand
    <2> QED  BY Zenon, <2>1, <2>2, <2>3, <2>4 DEF OnTheWay
  <1>9. ASSUME NEW f \in Fetchers, Receives(f) PROVE OnTheWay'
    <2>1. AheadUnused'
      BY Zenon, <1>1, <1>9 DEF Receives, AheadUnused
    <2>2. /\ cpc'[f] # "use" /\ holds[f] = 0 /\ UNCHANGED <<used, cachedToken>>
          /\ \A g \in Fetchers \ {f} : cpc'[g] = cpc[g]
      BY Zenon, <1>9 DEF Receives, OnlyMoves, cacheVars
    <2>3. PICK a \in Nat :
            /\ a # 0 /\ holds' = [holds EXCEPT ![f] = a] /\ Unseen(a)
            /\ resultCh' \in {0, resultCh} /\ resultCh' # a
            /\ \A g \in Fetchers : results'[g] \in {0, results[g]} /\ results'[g] # a
      <3>1. CASE /\ resultCh # 0 /\ holds' = [holds EXCEPT ![f] = resultCh]
                 /\ resultCh' = 0 /\ results' = results
        BY <1>1, <3>1, FetchNumbers DEF InChannel
      <3>2. CASE /\ results[f] # 0 /\ holds' = [holds EXCEPT ![f] = results[f]]
                 /\ results' = [results EXCEPT ![f] = 0] /\ resultCh' = resultCh
        <4>1. Unseen(results[f]) /\ \A g \in Fetchers : results[g] = results[f] => g = f
          BY Zenon, <1>1, <3>2 DEF InFile
        <4>2. resultCh # results[f]
          BY Zenon, <1>1, <3>2 DEF InChannel
        <4>3. \A g \in Fetchers : results'[g] = IF g = f THEN 0 ELSE results[g]
          BY <3>2, FetchNumbers
        <4> QED  BY <3>2, <4>1, <4>2, <4>3, FetchNumbers
      <3> QED  BY Zenon, <1>9, <3>1, <3>2 DEF Receives
    <2>4. \A g \in Fetchers : holds'[g] = IF g = f THEN a ELSE holds[g]
      BY <2>3, FetchNumbers
    <2>5. \A c \in Nat : c # a /\ Unseen(c) => Unseen(c)'
      BY Zenon, <2>2, <2>4 DEF Unseen
    <2>6. InChannel'
      BY <1>1, <2>3, <2>5, FetchNumbers DEF InChannel
    <2>7. InFile'
      BY <1>1, <2>3, <2>5, FetchNumbers DEF InFile
    <2>8. InHand'
      BY Zenon, <1>9, <2>2, <2>3, TakenInHand
    <2> QED  BY Zenon, <2>1, <2>6, <2>7, <2>8 DEF OnTheWay
  <1>10. ASSUME NEW f \in Fetchers, Drops(f) PROVE OnTheWay'
    <2>1. AheadUnused'
      BY Zenon, <1>1, <1>10, FetchNumbers DEF Drops, AheadUnused, Unseen, cacheVars, OnlyMoves
    <2>2. InChannel'
      BY Zenon, <1>1, <1>10, FetchNumbers DEF Drops, InChannel, Unseen, cacheVars, OnlyMoves
    <2>3. InFile'
      BY <1>1, <1>10, FetchNumbers DEF Drops, InFile, Unseen, cacheVars, OnlyMoves
    <2>4. InHand'
      BY Zenon, <1>1, <1>10, FetchNumbers DEF Drops, InHand, Unseen, cacheVars, OnlyMoves
    <2> QED  BY Zenon, <2>1, <2>2, <2>3, <2>4 DEF OnTheWay
  <1> QED  BY Zenon, <1>2, <1>3, <1>4, <1>5, <1>6, <1>7, <1>8, <1>9, <1>10 DEF FetchEffect

-----------------------------------------------------------------------------
(* The users of an answer, counted. *)

INSTANCE Counting

\* The users of an answer when one fetch takes or leaves one.
LEMMA UsersCount ==
    ASSUME NEW f \in Fetchers, NEW a \in 1..MaxAnswers, NEW b \in Nat,
           holds \in [Fetchers -> Nat], holds' = [holds EXCEPT ![f] = b]
    PROVE  /\ Cardinality(Users(a)) \in Nat /\ Cardinality(Users(a))' \in Nat
           /\ (holds[f] = a <=> b = a) => Cardinality(Users(a))' = Cardinality(Users(a))
           /\ holds[f] # a /\ b = a => Cardinality(Users(a))' = Cardinality(Users(a)) + 1
           /\ holds[f] = a /\ b # a => Cardinality(Users(a))' = Cardinality(Users(a)) - 1
  <1> DEFINE S == Users(a)
             T == Users(a)'
  <1>1. S \in SUBSET Fetchers /\ T \in SUBSET Fetchers
    BY Zenon DEF Users
  <1>2. \A g \in Fetchers \ {f} : g \in S <=> g \in T
    BY Zenon DEF Users
  <1>3. (f \in S <=> holds[f] = a) /\ (f \in T <=> b = a)
    BY Zenon DEF Users
  <1>4. IsFiniteSet(Fetchers)
    BY Zenon, FetchAssumption
  <1> HIDE DEF S, T
  <1>5. /\ Cardinality(S) \in Nat /\ Cardinality(T) \in Nat
        /\ (f \in S <=> f \in T) => Cardinality(T) = Cardinality(S)
        /\ f \notin S /\ f \in T => Cardinality(T) = Cardinality(S) + 1
        /\ f \in S /\ f \notin T => Cardinality(T) = Cardinality(S) - 1
    BY <1>1, <1>2, <1>4, CountOne
  <1>6. Cardinality(Users(a)) = Cardinality(S) /\ Cardinality(Users(a))' = Cardinality(T)
    BY Zenon DEF S, T
  <1> QED  BY Zenon, <1>3, <1>5, <1>6

\* An answer nobody holds has no users, and one that a single fetch holds has one.
LEMMA UsersFew ==
    ASSUME NEW a
    PROVE  /\ Cardinality(Users(a)) \in Nat
           /\ (\A g \in Fetchers : holds[g] # a) => Cardinality(Users(a)) = 0
           /\ \A f \in Fetchers :
                holds[f] = a /\ (\A g \in Fetchers : holds[g] = a => g = f)
                  => Cardinality(Users(a)) = 1
  <1>1. Cardinality(Users(a)) \in Nat
    BY Zenon, FetchAssumption, FS_Subset, FS_CardinalityType DEF Users
  <1>2. ASSUME \A g \in Fetchers : holds[g] # a PROVE Cardinality(Users(a)) = 0
    <2>1. Users(a) = {}
      BY Zenon, <1>2 DEF Users
    <2> QED  BY Zenon, <2>1, FS_EmptySet
  <1>3. ASSUME NEW f \in Fetchers, holds[f] = a, \A g \in Fetchers : holds[g] = a => g = f
        PROVE  Cardinality(Users(a)) = 1
    <2>1. Users(a) = {f}
      BY Zenon, <1>3 DEF Users
    <2> QED  BY Zenon, <2>1, FS_Singleton
  <1> QED  BY Zenon, <1>1, <1>2, <1>3

\* Whatever happens to the answers, none is used more often than it may be.
LEMMA SpendingKept ==
    ASSUME FetchInv, FetchEffect
    PROVE  Spending'
  <1> SUFFICES ASSUME NEW a \in 1..MaxAnswers
               PROVE  (used[a] + Cardinality(Users(a)) + LeftInCache(a) <= 1 + CacheUses)'
    BY Zenon DEF Spending
  <1>1. /\ CacheUses \in Nat /\ used[a] \in Nat /\ cachedUsages \in Nat
        /\ used[a] + Cardinality(Users(a)) + LeftInCache(a) <= 1 + CacheUses
        /\ holds \in [Fetchers -> Nat] /\ a \in Nat \ {0}
    BY FetchAssumption DEF FetchInv, NumberType, Spending
  <1>2. Cardinality(Users(a)) \in Nat
    BY Zenon, UsersFew
  <1>3. UNCHANGED holds => Cardinality(Users(a))' = Cardinality(Users(a))
    BY Zenon DEF Users
  <1>4. CASE UNCHANGED <<holds, used, cacheVars>>
    <2>1. LeftInCache(a)' = LeftInCache(a) /\ used'[a] = used[a]
      BY Zenon, <1>4 DEF LeftInCache, cacheVars
    <2> QED  BY Zenon, <1>1, <1>3, <1>4, <2>1
  <1>5. ASSUME Rests \/ Submits \/ \E f \in Fetchers : Drops(f)
        PROVE  UNCHANGED <<holds, used, cacheVars>>
    BY Zenon, <1>5 DEF Rests, Submits, Drops
  <1>6. ASSUME NEW f \in Fetchers, Pops(f)
        PROVE  (used[a] + Cardinality(Users(a)) + LeftInCache(a) <= 1 + CacheUses)'
    <2>1. /\ holds' = [holds EXCEPT ![f] = cachedToken] /\ holds[f] = 0
          /\ cachedUsages > 0 /\ cachedUsages' = cachedUsages - 1
          /\ cachedToken' = cachedToken /\ used' = used
      BY Zenon, <1>6 DEF Pops
    <2>2. cachedToken \in Nat
      BY DEF FetchInv, NumberType
    <2>3. Cardinality(Users(a))' =
            IF cachedToken = a THEN Cardinality(Users(a)) + 1 ELSE Cardinality(Users(a))
      BY ZenonT(60), <1>1, <2>1, <2>2, UsersCount
    <2> QED  BY <1>1, <1>2, <2>1, <2>3 DEF LeftInCache
  <1>7. ASSUME NEW f \in Fetchers, Pushes(f)
        PROVE  (used[a] + Cardinality(Users(a)) + LeftInCache(a) <= 1 + CacheUses)'
    <2>1. /\ holds' = holds /\ used' = used
          /\ cachedToken' = holds[f] /\ cachedUsages' = CacheUses
      BY Zenon, <1>7 DEF Pushes
    <2>2. holds[f] = a => used[a] = 0 /\ Cardinality(Users(a)) = 1
      BY <1>7, UsersFew DEF Pushes, FetchInv, OnTheWay, InHand
    <2>3. LeftInCache(a)' = IF holds[f] = a THEN CacheUses ELSE 0
      BY Zenon, <2>1 DEF LeftInCache
    <2>4. LeftInCache(a) \in Nat
      BY Zenon, <1>1 DEF LeftInCache
    <2> QED  BY <1>1, <1>2, <1>3, <2>1, <2>2, <2>3, <2>4
  <1>8. ASSUME NEW f \in Fetchers, Uses(f)
        PROVE  (used[a] + Cardinality(Users(a)) + LeftInCache(a) <= 1 + CacheUses)'
    <2>1. /\ holds' = [holds EXCEPT ![f] = 0] /\ holds[f] # 0
          /\ used' = [used EXCEPT ![holds[f]] = @ + 1] /\ UNCHANGED cacheVars
      BY Zenon, <1>8 DEF Uses
    <2>2. Cardinality(Users(a))' =
            IF holds[f] = a THEN Cardinality(Users(a)) - 1 ELSE Cardinality(Users(a))
      BY Zenon, <1>1, <2>1, UsersCount
    <2>3. used'[a] = IF holds[f] = a THEN used[a] + 1 ELSE used[a]
      BY Zenon, <2>1 DEF FetchInv, NumberType
    <2>4. LeftInCache(a)' = LeftInCache(a) /\ LeftInCache(a) \in Nat
      BY Zenon, <1>1, <2>1 DEF LeftInCache, cacheVars
    <2> QED  BY <1>1, <1>2, <2>2, <2>3, <2>4
  <1>9. ASSUME NEW f \in Fetchers, Invalidates(f)
        PROVE  (used[a] + Cardinality(Users(a)) + LeftInCache(a) <= 1 + CacheUses)'
    <2>1. holds' = holds /\ used' = used /\ cachedToken' = 0 /\ cachedUsages' = 0
      BY Zenon, <1>9 DEF Invalidates
    <2>2. LeftInCache(a)' = 0 /\ LeftInCache(a) \in Nat
      BY ZenonT(60), <1>1, <2>1 DEF LeftInCache
    <2> QED  BY SMTT(60), <1>1, <1>2, <1>3, <2>1, <2>2
  <1>10. ASSUME NEW f \in Fetchers, Finds(f) \/ Receives(f)
         PROVE  (used[a] + Cardinality(Users(a)) + LeftInCache(a) <= 1 + CacheUses)'
    <2>1. PICK b \in Nat : /\ holds' = [holds EXCEPT ![f] = b] /\ holds[f] = 0
                           /\ b = a => used[a] = 0 /\ cachedToken # a
                                       /\ \A g \in Fetchers : holds[g] # a
      <3>1. CASE Finds(f)
        <4>1. answers + 1 \in Nat
          BY DEF FetchInv, NumberType
        <4>2. answers + 1 = a => used[a] = 0 /\ cachedToken # a
                                 /\ \A g \in Fetchers : holds[g] # a
          BY DEF FetchInv, NumberType, OnTheWay, AheadUnused
        <4> QED  BY ZenonT(60), <3>1, <4>1, <4>2 DEF Finds
      <3>2. CASE Receives(f)
        <4>1. resultCh \in Nat /\ results[f] \in Nat
          BY DEF FetchInv, NumberType
        <4>2. resultCh = a \/ results[f] = a => Unseen(a)
          BY Zenon, <1>1 DEF FetchInv, OnTheWay, InChannel, InFile
        <4> QED  BY ZenonT(60), <3>2, <4>1, <4>2 DEF Receives, Unseen
      <3> QED  BY Zenon, <1>10, <3>1, <3>2
    <2>2. used' = used /\ UNCHANGED cacheVars
      BY Zenon, <1>10 DEF Finds, Receives
    <2>3. Cardinality(Users(a))' = IF b = a THEN Cardinality(Users(a)) + 1
                                            ELSE Cardinality(Users(a))
      BY ZenonT(60), <1>1, <2>1, UsersCount
    <2>4. b = a => Cardinality(Users(a)) = 0 /\ LeftInCache(a) = 0
      BY Zenon, <2>1, UsersFew DEF LeftInCache
    <2>5. LeftInCache(a)' = LeftInCache(a) /\ used'[a] = used[a]
      BY Zenon, <2>2 DEF LeftInCache, cacheVars
    <2> QED  BY SMTT(60), <1>1, <1>2, <2>1, <2>3, <2>4, <2>5
  <1> QED  BY ZenonT(60), <1>4, <1>5, <1>6, <1>7, <1>8, <1>9, <1>10 DEF FetchEffect

\* The invariant of the fetches is inductive.
LEMMA FetchStep ==
    ASSUME FetchInv, [FetchNext]_fetchVars
    PROVE  FetchInv'
  <1>1. CASE FetchEffect /\ PlaceType' /\ Holders'
    BY ZenonT(60), <1>1, NumbersKept, OnTheWayKept, SpendingKept DEF FetchInv
  <1>2. CASE UNCHANGED fetchVars
    BY Zenon, <1>1, <1>2 DEF fetchVars, waysVars, cacheVars, FetchEffect, Rests, FetchInv, PlaceType, Holders
  <1>3. ASSUME NEW f \in Fetchers, StartFetch(f) \/ FetcherStep(f)
        PROVE  FetchEffect /\ PlaceType' /\ Holders'
    BY ZenonT(60), <1>3, FetchRests, FetchUses, FetchAsks DEF FetcherStep, FetchEffect
  <1>4. CASE SubmitCaptchaResult \/ PanelAnswers \/ StopFetches
    BY Zenon, <1>1, <1>4, FetchTold DEF FetchEffect
  <1> QED  BY ZenonT(60), <1>1, <1>2, <1>3, <1>4 DEF FetchNext

\* It holds before anybody was asked.
LEMMA FetchStart ==
    ASSUME FetchInit
    PROVE  FetchInv
  <1>1. PlaceType /\ NumberType /\ Holders /\ OnTheWay
    BY FetchAssumption DEF FetchInit, PlaceType, NumberType, FetchPlaces, Holders, OnTheWay, AheadUnused,
        InChannel, InFile, InHand
  <1>2. ASSUME NEW a \in 1..MaxAnswers
        PROVE  used[a] + Cardinality(Users(a)) + LeftInCache(a) <= 1 + CacheUses
    <2>1. Cardinality(Users(a)) = 0
      BY UsersFew DEF FetchInit
    <2> QED  BY <2>1, FetchAssumption DEF FetchInit, LeftInCache
  <1> QED  BY ZenonT(60), <1>1, <1>2 DEF FetchInv, Spending

\* From the invariant, the bound on the uses of an answer.
LEMMA FetchSafe ==
    ASSUME FetchInv
    PROVE  AnswersBounded
  <1>1. ASSUME NEW a \in 1..MaxAnswers PROVE used[a] <= 1 + CacheUses
    <2>1. used[a] \in Nat /\ LeftInCache(a) \in Nat /\ Cardinality(Users(a)) \in Nat
      BY Zenon, UsersFew DEF FetchInv, NumberType, LeftInCache
    <2>2. used[a] + Cardinality(Users(a)) + LeftInCache(a) <= 1 + CacheUses
      BY Zenon DEF FetchInv, Spending
    <2> QED  BY <2>1, <2>2, FetchAssumption
  <1>2. \A f, g \in Fetchers :
          cpc[f] \in {"webview", "pause"} /\ cpc[g] \in {"webview", "pause"} => f = g
    BY Zenon DEF FetchInv, Holders
  <1> QED  BY Zenon, <1>1, <1>2 DEF AnswersBounded

-----------------------------------------------------------------------------

\* The runner of the wgturn client, for every number of workers, groups and
\* fetches: never two holders of the password, never a worker twice, and no
\* answer used more often than the cache's promise allows.
THEOREM RunnerIsSafe == BrokerSpec /\ GroupSpec /\ FetchSpec => []RunnerSafe
  <1>1. BrokerSpec => []BrokerInv
    BY BrokerStart, BrokerStep, PTL DEF BrokerSpec
  <1>2. GroupSpec => []GroupInv
    BY BatchStart, BatchStep, PTL DEF GroupSpec
  <1>3. FetchSpec => []FetchInv
    BY FetchStart, FetchStep, PTL DEF FetchSpec
  <1>4. BrokerInv /\ GroupInv /\ FetchInv => RunnerSafe
    BY Zenon, BatchSafe, FetchSafe DEF BrokerInv, RunnerSafe
  <1> QED  BY <1>1, <1>2, <1>3, <1>4, PTL
=============================================================================
