----------------------------- MODULE WorkerGroup ----------------------------
(***************************************************************************)
(* The lifecycle groups of a wgturn client (internal/wgturnclient:         *)
(* workerGroup in group.go, the room's credential cache in multiroom.go    *)
(* and creds.go, Start and Shutdown in runner.go).                         *)
(*                                                                         *)
(* Each group keeps one batch of workers running on a generation of TURN   *)
(* credentials and replaces the batch when the generation ages, or when    *)
(* the relay refuses it.  The groups here share one room and so its cache, *)
(* its lock and its limit on forced fetches.                               *)
(*                                                                         *)
(* Abstractions.  A generation of credentials is a number, used again when *)
(* nobody holds the old one any more.  Delays that only space out retries  *)
(* are left out, and a timer may fire whenever its goroutine waits.  What  *)
(* a worker's session does before it is up, and who carries the password,  *)
(* is the subject of ConfigBroker; how the credentials are got, that of    *)
(* CredFetch.  The three make up the runner and share no variable.         *)
(***************************************************************************)
EXTENDS Naturals, Sequences, FiniteSets, ConfigBroker, CredFetch

CONSTANTS
    Groups,      \* number of groups of the room, in cascade order
    TeamSize,    \* workers of each group: len(workerIDs)
    MaxGen,      \* names for credential generations
    QuotaLimit   \* 5: workers refused by quota before the group gives up

GroupIds == 1..Groups
Team(g) == {<<g, i>> : i \in 1..TeamSize[g]}
AllWorkers == UNION {Team(g) : g \in GroupIds}
Batches == {0, 1}     \* the batch that runs and the one before it

ASSUME GroupAssumption ==
    /\ Groups \in Nat \ {0} /\ TeamSize \in [GroupIds -> Nat \ {0}]
    /\ MaxGen \in Nat /\ QuotaLimit \in Nat \ {0}

VARIABLES
    ctxDone,   \* Shutdown was called, or the caller's context ended
    paused,    \* pauseFlag
    returned,  \* Start has closed configCh and returned
    cache,     \* roomCreds: the generation a lookup finds
    limited,   \* a forced fetch was made within the last minute
    auth,      \* group holding the room's credential lock; 0 if none
    gpc,       \* where each group is
    gen,       \* creds of the batch that runs
    fetched,   \* creds got for the next batch
    forced,    \* forcedPrevious; 0 is nil
    batch,     \* "none", "live" or "cancelled": prevCancel and its context
    slot,      \* which of the two batches is the current one
    rolling,   \* the next batch replaces one (rollingReplacement)
    signalled, \* signalReady is closed
    quotaCh,   \* quotaBackoffCh: a refused generation; 0 if empty
    quotaErr,  \* quotaErrorWorkers
    groupWorkers    \* each worker's place, and the generation it uses

room == <<cache, limited, auth>>
run == <<ctxDone, paused, returned>>
batchVars == <<quotaCh, quotaErr>>
grp == <<gpc, gen, fetched, forced, batch, slot, rolling, signalled>>
groupVars == <<run, room, grp, batchVars, groupWorkers>>

Idle == [at |-> "done", gen |-> 0]

GroupInit ==
    /\ ctxDone = FALSE /\ paused = FALSE /\ returned = FALSE
    /\ cache = 0 /\ limited = FALSE /\ auth = 0
    /\ gpc = [g \in GroupIds |-> "wait"]
    /\ gen = [g \in GroupIds |-> 0] /\ fetched = gen /\ forced = gen
    /\ batch = [g \in GroupIds |-> "none"] /\ slot = [g \in GroupIds |-> 0]
    /\ rolling = [g \in GroupIds |-> FALSE]
    /\ signalled = [g \in GroupIds |-> FALSE]
    /\ quotaCh = [g \in GroupIds |-> 0]
    /\ quotaErr = [g \in GroupIds |-> {}]
    /\ groupWorkers = [w \in AllWorkers \X Batches |-> Idle]

Live(g) == batch[g] = "live" /\ ~ctxDone
\* doneChannelsClosed: every goroutine of the current batch has returned.
BatchDone(g) == \A w \in Team(g) : groupWorkers[<<w, slot[g]>>].at = "done"
Goto(g, place) == gpc' = [gpc EXCEPT ![g] = place]
Cancel(g) == batch' = [batch EXCEPT ![g] = IF @ = "none" THEN "none" ELSE "cancelled"]
\* The group's function returns; its deferred killBatch cancels the batch and
\* waits for it, but never longer than its timeout.
Leave(g) == Goto(g, "ended") /\ Cancel(g)

-----------------------------------------------------------------------------
(* The loop of a group. *)

\* The cascade: a group starts when the one before it has.
Begin(g) ==
    /\ gpc[g] = "wait"
    /\ \/ ctxDone /\ Leave(g)
       \/ (IF g = 1 THEN TRUE ELSE signalled[g - 1]) /\ Goto(g, "top") /\ UNCHANGED batch
    /\ UNCHANGED <<run, room, gen, fetched, forced, slot, rolling, signalled, batchVars, groupWorkers>>

\* Fault: the pause flag is not looked at.
TopUnpaused(g) ==
    /\ gpc[g] = "top"
    /\ IF ctxDone THEN Leave(g) ELSE Goto(g, "acquire") /\ UNCHANGED batch
    /\ UNCHANGED <<run, room, gen, fetched, forced, slot, rolling, signalled, batchVars, groupWorkers>>

\* The top of the loop; a paused group kills its batch.
Top(g) ==
    /\ gpc[g] = "top"
    /\ CASE ctxDone -> Leave(g)
         [] ~ctxDone /\ paused -> Goto(g, "pausing") /\ Cancel(g)
         [] OTHER -> Goto(g, "acquire") /\ UNCHANGED batch
    /\ UNCHANGED <<run, room, gen, fetched, forced, slot, rolling, signalled, batchVars, groupWorkers>>

\* waitDoneChannels gives up after workerStopTimeout, and at once when ctx is
\* done: the group ends.
KillTimeout(g) ==
    /\ gpc[g] \in {"pausing", "replace", "quotaKill"}
    /\ ~BatchDone(g)
    /\ Leave(g)
    /\ UNCHANGED <<run, room, gen, fetched, forced, slot, rolling, signalled, batchVars, groupWorkers>>

Paused(g) ==
    /\ gpc[g] = "pausing" /\ BatchDone(g)
    /\ batch' = [batch EXCEPT ![g] = "none"] /\ Goto(g, "paused")
    /\ UNCHANGED <<run, room, gen, fetched, forced, slot, rolling, signalled, batchVars, groupWorkers>>

Resume(g) ==
    /\ gpc[g] = "paused" /\ (ctxDone \/ ~paused)
    /\ Goto(g, IF ctxDone THEN "ended" ELSE "acquire")
    /\ UNCHANGED <<run, room, gen, fetched, forced, batch, slot, rolling, signalled, batchVars, groupWorkers>>

-----------------------------------------------------------------------------
(* Credentials, under the room's lock. *)

\* The generation that must not be used again: of the rotation, or of the quota.
Previous(g) == IF gpc[g] = "refetch" THEN fetched[g] ELSE forced[g]

\* Credentials are there: the old batch goes before the new one starts.  Those
\* of the quota's own refresh are left in the cache, to be found at the top.
Have(g, n) ==
    IF gpc[g] \in {"refetch", "refetching"}
      THEN /\ Goto(g, "top") /\ rolling' = [rolling EXCEPT ![g] = TRUE]
           /\ fetched' = [fetched EXCEPT ![g] = 0]
           /\ UNCHANGED <<forced, batch>>
      ELSE /\ Goto(g, "replace") /\ fetched' = [fetched EXCEPT ![g] = n]
           /\ forced' = [forced EXCEPT ![g] = 0]
           /\ rolling' = [rolling EXCEPT ![g] = @ \/ batch[g] # "none"]
           /\ Cancel(g)

HaveNot(g) ==
    /\ Goto(g, IF gpc[g] \in {"refetch", "refetching"} THEN "refetchWait" ELSE "retry")
    /\ UNCHANGED <<fetched, forced, batch, rolling>>

\* A cached generation serves, unless it is the rejected one itself.
Fresh(g) == cache # 0 /\ cache # Previous(g)

Lookup(g) ==
    /\ gpc[g] \in {"acquire", "refetch"} /\ auth = 0
    /\ IF Fresh(g)
         THEN Have(g, cache) /\ UNCHANGED <<cache, limited, auth>>
         ELSE /\ cache' = 0  \* invalidateCredentials
              /\ IF Previous(g) = 0
                   THEN UNCHANGED limited
                   ELSE limited' = TRUE  \* reserveForcedCredentialRefresh
              /\ IF Previous(g) # 0 /\ limited
                   THEN HaveNot(g) /\ UNCHANGED auth
                   ELSE /\ auth' = g
                        /\ Goto(g, IF gpc[g] = "refetch" THEN "refetching" ELSE "fetching")
                        /\ UNCHANGED <<fetched, forced, batch, rolling>>
    /\ UNCHANGED <<run, gen, slot, signalled, batchVars, groupWorkers>>

Unused ==
    (1..MaxGen) \ ({cache} \cup {groupWorkers[w].gen : w \in DOMAIN groupWorkers}
                    \cup UNION {{gen[g], fetched[g], forced[g], quotaCh[g]} : g \in GroupIds})
NewGen == CHOOSE n \in Unused : \A m \in Unused : n <= m

\* A provider answers, and the room's cache is filled for the siblings too.
FetchOk(g) ==
    /\ gpc[g] \in {"fetching", "refetching"} /\ Unused # {}
    /\ cache' = NewGen /\ auth' = 0
    /\ Have(g, NewGen)
    /\ UNCHANGED <<run, limited, gen, slot, signalled, batchVars, groupWorkers>>

FetchFails(g) ==
    /\ gpc[g] \in {"fetching", "refetching"}
    /\ auth' = 0 /\ HaveNot(g)
    /\ UNCHANGED <<run, cache, limited, gen, slot, signalled, batchVars, groupWorkers>>

\* credentialRetryDelay, quotaRetryDelay.
Retry(g) ==
    /\ gpc[g] \in {"retry", "refetchWait"}
    /\ IF ctxDone THEN Leave(g)
       ELSE Goto(g, IF gpc[g] = "retry" THEN "top" ELSE "refetch") /\ UNCHANGED batch
    /\ UNCHANGED <<run, room, gen, fetched, forced, slot, rolling, signalled, batchVars, groupWorkers>>

\* The cached generation expires, or an external helper publishes a new one.
CacheExpires ==
    /\ cache # 0 /\ cache' = 0
    /\ UNCHANGED <<run, limited, auth, grp, batchVars, groupWorkers>>
Published ==
    /\ Unused # {} /\ cache' = NewGen
    /\ UNCHANGED <<run, limited, auth, grp, batchVars, groupWorkers>>
MinuteOver ==
    /\ limited /\ limited' = FALSE
    /\ UNCHANGED <<run, cache, auth, grp, batchVars, groupWorkers>>

-----------------------------------------------------------------------------
(* A batch. *)

\* Fault: the new batch starts though the old one has not stopped.
LaunchEarly(g) ==
    /\ gpc[g] = "replace"
    /\ slot' = [slot EXCEPT ![g] = 1 - @] /\ batch' = [batch EXCEPT ![g] = "live"]
    /\ gen' = [gen EXCEPT ![g] = fetched[g]]
    /\ groupWorkers' = [w \in DOMAIN groupWorkers |->
                     IF w[1] \in Team(g) /\ w[2] = 1 - slot[g]
                       THEN [at |-> "ready", gen |-> 0] ELSE groupWorkers[w]]
    /\ quotaCh' = [quotaCh EXCEPT ![g] = 0] /\ quotaErr' = [quotaErr EXCEPT ![g] = {}]
    /\ Goto(g, IF rolling[g] THEN "recover" ELSE "run")
    /\ rolling' = [rolling EXCEPT ![g] = FALSE]
    /\ fetched' = [fetched EXCEPT ![g] = 0]
    /\ UNCHANGED <<run, room, forced, signalled>>

\* The old batch has stopped: the new one starts with its own channels.
Launch(g) ==
    /\ gpc[g] = "replace" /\ BatchDone(g)
    /\ slot' = [slot EXCEPT ![g] = 1 - @] /\ batch' = [batch EXCEPT ![g] = "live"]
    /\ gen' = [gen EXCEPT ![g] = fetched[g]]
    /\ groupWorkers' = [w \in DOMAIN groupWorkers |->
                     IF w[1] \in Team(g) /\ w[2] = 1 - slot[g]
                       THEN [at |-> "ready", gen |-> 0] ELSE groupWorkers[w]]
    /\ quotaCh' = [quotaCh EXCEPT ![g] = 0] /\ quotaErr' = [quotaErr EXCEPT ![g] = {}]
    /\ Goto(g, IF rolling[g] THEN "recover" ELSE "run")
    /\ rolling' = [rolling EXCEPT ![g] = FALSE]
    /\ fetched' = [fetched EXCEPT ![g] = 0]
    /\ UNCHANGED <<run, room, forced, signalled>>

\* The goroutine that passes the baton, once, two seconds after the first start.
Signal(g) ==
    /\ batch[g] # "none" \/ gen[g] # 0
    /\ ~signalled[g] /\ signalled' = [signalled EXCEPT ![g] = TRUE]
    /\ UNCHANGED <<run, room, gpc, gen, fetched, forced, batch, slot, rolling, batchVars, groupWorkers>>

\* waitWorkerRecovery: until all of the group's workers are registered, or its
\* time is up, or ctx is done.
Recovered(g) ==
    /\ gpc[g] = "recover" /\ Goto(g, "run")
    /\ UNCHANGED <<run, room, gen, fetched, forced, batch, slot, rolling, signalled, batchVars, groupWorkers>>

\* The select at the end of the loop: the lifetime is over, or an early rotation.
Rotate(g) ==
    /\ gpc[g] = "run"
    /\ forced' = [forced EXCEPT ![g] = gen[g]] /\ Goto(g, "top")
    /\ UNCHANGED <<run, room, gen, fetched, batch, slot, rolling, signalled, batchVars, groupWorkers>>

\* TURN 486: the whole batch stops, and only then is a new generation asked for.
QuotaBackoff(g) ==
    /\ gpc[g] = "run" /\ quotaCh[g] # 0
    /\ fetched' = [fetched EXCEPT ![g] = quotaCh[g]]
    /\ quotaCh' = [quotaCh EXCEPT ![g] = 0]
    /\ Goto(g, "quotaKill") /\ Cancel(g)
    /\ UNCHANGED <<run, room, gen, forced, slot, rolling, signalled, quotaErr, groupWorkers>>

QuotaKilled(g) ==
    /\ gpc[g] = "quotaKill" /\ BatchDone(g)
    /\ batch' = [batch EXCEPT ![g] = "none"] /\ Goto(g, "refetch")
    /\ UNCHANGED <<run, room, gen, fetched, forced, slot, rolling, signalled, batchVars, groupWorkers>>

GroupStops(g) ==
    /\ gpc[g] \in {"run", "recover"} /\ ctxDone /\ Leave(g)
    /\ UNCHANGED <<run, room, gen, fetched, forced, slot, rolling, signalled, batchVars, groupWorkers>>
-----------------------------------------------------------------------------
(* A worker of a batch. *)

Mine(w) == w[1][1]
Move(w, place, n) == groupWorkers' = [groupWorkers EXCEPT ![w] = [at |-> place, gen |-> n]]
\* The batch the worker belongs to has been cancelled.
Cancelled(w) == w[2] # slot[Mine(w)] \/ ~Live(Mine(w))
\* After an error, or the end of a session: the loop goes on after a delay.
Again(w) == Move(w, IF Cancelled(w) THEN "done" ELSE "ready", 0)

\* The next attempt uses the generation published last, or the batch's own.
TryAgain(w) ==
    /\ groupWorkers[w].at = "ready"
    /\ IF Cancelled(w) THEN Move(w, "done", 0)
       ELSE Move(w, "dial", IF cache # 0 THEN cache ELSE gen[Mine(w)])
    /\ UNCHANGED <<run, room, grp, batchVars>>

SessionUp(w) ==
    /\ groupWorkers[w].at = "dial" /\ Move(w, "up", 0)
    /\ UNCHANGED <<run, room, grp, batchVars>>

\* A session that was up ends without an error.
SessionOver(w) ==
    /\ groupWorkers[w].at = "up" /\ Again(w)
    /\ quotaErr' = [quotaErr EXCEPT ![Mine(w)] = @ \ {w[1]}]
    /\ UNCHANGED <<run, room, grp, quotaCh>>

\* The attempt fails.  A closed stream and eight workers with rejected keys also
\* ask for a rotation, which here may come at any time.
Fails(w) ==
    /\ groupWorkers[w].at = "dial" /\ Again(w)
    /\ UNCHANGED <<run, room, grp, batchVars>>

\* FATAL_AUTH or a dead room: the worker gives up.  Once some worker has had the
\* configuration, which is left open here, it retries instead.
FailsFatally(w) ==
    /\ groupWorkers[w].at = "dial" /\ Move(w, "done", 0)
    /\ UNCHANGED <<run, room, grp, batchVars>>

\* The refused workers that end a batch.
QuotaThreshold(g) == IF TeamSize[g] > QuotaLimit THEN QuotaLimit ELSE TeamSize[g]

\* TURN 486: with enough workers refused, the first of them tells the group and
\* all of them return; quotaBackoffOnce is spent once quotaErr has been that full.
FailsByQuota(w) ==
    LET g == Mine(w)
        refused == quotaErr[g] \cup {w[1]}
    IN  /\ groupWorkers[w].at = "dial" /\ ~Cancelled(w)
        /\ quotaErr' = [quotaErr EXCEPT ![g] = refused]
        /\ IF Cardinality(refused) < QuotaThreshold(g)
             THEN Move(w, "ready", 0) /\ UNCHANGED quotaCh
             ELSE /\ Move(w, "done", 0)
                  /\ quotaCh' = [quotaCh EXCEPT ![g] = IF @ = 0 THEN groupWorkers[w].gen ELSE @]
        /\ UNCHANGED <<run, room, grp>>

-----------------------------------------------------------------------------
(* The runner. *)

Shutdown ==
    /\ ~ctxDone /\ ctxDone' = TRUE
    /\ UNCHANGED <<paused, returned, room, grp, batchVars, groupWorkers>>

SetPaused ==
    /\ paused' = ~paused
    /\ UNCHANGED <<ctxDone, returned, room, grp, batchVars, groupWorkers>>

\* Start: every group has returned.
StartReturns ==
    /\ ~returned /\ \A g \in GroupIds : gpc[g] = "ended"
    /\ returned' = TRUE
    /\ UNCHANGED <<ctxDone, paused, room, grp, batchVars, groupWorkers>>

GroupStep(g) ==
    \/ Begin(g) \/ Top(g) \/ Paused(g) \/ Resume(g) \/ Lookup(g) \/ FetchOk(g) \/ Retry(g)
    \/ Launch(g) \/ Recovered(g) \/ Rotate(g) \/ QuotaBackoff(g) \/ QuotaKilled(g) \/ GroupStops(g)

WorkerStep(w) == TryAgain(w) \/ SessionUp(w) \/ SessionOver(w)

WorkerFault(w) ==
    Fails(w) \/ FailsFatally(w) \/ FailsByQuota(w)

\* What a worker owes: it tries again, its attempt ends one way or the other, and so
\* does its session once the batch is cancelled.  A session that is up may stay up.
WorkerGoesOn(w) ==
    TryAgain(w) \/ SessionUp(w) \/ WorkerFault(w) \/ (Cancelled(w) /\ SessionOver(w))

GroupNext ==
    \/ \E g \in GroupIds : GroupStep(g) \/ FetchFails(g) \/ KillTimeout(g) \/ Signal(g)
    \/ \E w \in DOMAIN groupWorkers : WorkerStep(w) \/ WorkerFault(w)
    \/ CacheExpires \/ Published \/ MinuteOver \/ Shutdown \/ SetPaused \/ StartReturns

GroupSpec == GroupInit /\ [][GroupNext]_groupVars

-----------------------------------------------------------------------------
(* Properties. *)

\* "kill-one-add-one": a batch and its replacement never run the same worker at
\* once, so that no worker identifier is bound twice at the server.
OneSessionPerWorker ==
    \A w \in AllWorkers : groupWorkers[<<w, 0>>].at = "done" \/ groupWorkers[<<w, 1>>].at = "done"

\* What the runner keeps: one worker at most holds the claim to the password, no worker
\* runs twice, and no answer to a challenge is used more often than it may be.
RunnerSafe == OneOwner /\ OneSessionPerWorker /\ AnswersBounded

\* A runner that stays paused has, in the end, no worker left.
PauseStops ==
    []<>(~paused \/ \A w \in DOMAIN groupWorkers : groupWorkers[w].at = "done")
=============================================================================
