------------------------------ MODULE MCRunner ------------------------------
(* The wgturn client's runner: the election of the worker that carries the *)
(* password, the groups of workers, the credentials they fetch, and the    *)
(* dispatcher in front of the workers.  They share no state here, so one   *)
(* of them runs, the others stand still.                                   *)
EXTENDS ConfigBroker, WorkerGroup, CredFetch, WgDispatch, TLC

CONSTANTS f1, f2, f3

VARIABLE part

MCFetchers == {f1, f2, f3}
MCTeamSize == <<1>>
MCRoomOf == <<1, 2>>
MCSizeOf == [latency |-> 1, bulk |-> 2]

allVars == <<brokerVars, groupVars, fetchVars, dispVars, part>>

MCInit ==
    /\ BrokerInit /\ GroupInit /\ FetchInit /\ DispInit
    /\ part \in {"broker", "group", "fetch", "dispatch"}
    /\ part # "dispatch" => ~bondMode

BrokerPart ==
    part = "broker" /\ BrokerNext /\ UNCHANGED <<groupVars, fetchVars, dispVars, part>>
GroupPart ==
    part = "group" /\ GroupNext /\ UNCHANGED <<brokerVars, fetchVars, dispVars, part>>
\* Of the three fetchers that compete for two permits one goes all the ways, one
\* fetches in process only, and one, as long as nobody has answered, has the helper.
FetchPart ==
    /\ part = "fetch" /\ FetchNext
    /\ cpc'[f2] \notin {"helper", "helping", "calls"}
    /\ cpc'[f3] \in (IF answers' = 0 THEN {"idle", "helper", "helping"} ELSE {"idle"})
    /\ UNCHANGED <<brokerVars, groupVars, dispVars, part>>
DispatchPart ==
    part = "dispatch" /\ DispNext /\ UNCHANGED <<brokerVars, groupVars, fetchVars, part>>

MCNext == BrokerPart \/ GroupPart \/ FetchPart \/ DispatchPart

\* Each goroutine runs; where a step is possible from the start it is owed in the
\* behaviours of its part only.  A fetch of credentials, a dial and a handshake end,
\* one way or the other, by their timeouts.
RunnerFairness ==
    /\ \A w \in Workers : WF_brokerVars(part = "broker" /\ Attempt(w))
    /\ WF_groupVars(part = "group" /\ \E g \in GroupIds : GroupStep(g) \/ FetchFails(g))
    /\ \A w \in AllWorkers \X Batches : WF_groupVars(WorkerGoesOn(w))
    /\ \A f \in Fetchers : WF_fetchVars(FetcherStep(f))

\* Strong fairness, one condition for parts that never run together.  A session does
\* not fail every time before the server has answered its BIND, or before it has
\* waited long enough.  A Go channel serves its senders in turn, so that a fetch
\* that waits for a permit or for the WebView is not passed over for ever.
StrongFairness ==
    /\ SF_allVars(\/ part = "broker" /\ (\E w \in Workers : BindConfig(w)) /\ BrokerPart
                  \/ part = "fetch" /\ (Acquire(f1) \/ AskWebView(f1)) /\ FetchPart)
    /\ SF_allVars(\/ part = "broker" /\ (\E w \in Workers : BindWait(w)) /\ BrokerPart
                  \/ part = "fetch" /\ (Acquire(f2) \/ AskWebView(f2)) /\ FetchPart)
    /\ SF_allVars(\/ part = "broker" /\ (\E w \in Workers : BindExhausted(w)) /\ BrokerPart
                  \/ part = "fetch" /\ Acquire(f3) /\ FetchPart)

MCSpec == MCInit /\ [][MCNext]_allVars /\ RunnerFairness /\ StrongFairness

\* What the dispatcher keeps: counts that settle, sequence numbers that are all
\* accounted for, and a shaper that drops only when it must.
DispatchSafe == [](CountSettles /\ NoGap /\ DropsOnlyWhenFull) /\ BulkWaits

\* The runner comes back: a Bond the server has lost is made again by the same run,
\* as long as a worker is between two sessions and the one with the claim does not
\* stay in its own; a pause ends the workers of the groups; and every attempt to
\* fetch credentials ends.
RunnerRecovers == []<>(part = "broker" => BondOrUp) /\ PauseStops /\ AttemptEnds
=============================================================================
