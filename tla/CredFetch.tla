----------------------------- MODULE CredFetch -----------------------------
(***************************************************************************)
(* Fetching TURN credentials for a room (internal/wgturnclient:            *)
(* getCredsForHash, getUniqueVKCreds and getVKCredsOnce in creds.go, the   *)
(* channels and semaphores of runner.go; internal/vkcreds:                 *)
(* FileCaptchaSolver in file_solver.go).                                   *)
(*                                                                         *)
(* The fetches of a runner share two permits, a token that a person's      *)
(* answer has earned and that the next four fetches may use again, and the *)
(* two ways to that person: the application's WebView, one question at a   *)
(* time over a channel of one answer, and the panel, over files.  What is  *)
(* asked and answered is left out, and so are the requests themselves and  *)
(* how an answer is found without a person: each succeeds or fails.        *)
(***************************************************************************)
EXTENDS Naturals, FiniteSets

CONSTANTS
    Fetchers,    \* goroutines that may fetch at a time
    Permits,     \* capacity of vkSemaphore
    CacheUses,   \* further uses of an answer, 4 in the code
    MaxAnswers,  \* bound: answers given
    NoOne

ASSUME FetchAssumption ==
    /\ IsFiniteSet(Fetchers) /\ NoOne \notin Fetchers
    /\ Permits \in Nat \ {0} /\ CacheUses \in Nat /\ MaxAnswers \in Nat

VARIABLES
    cpc,            \* getCredsForHash and what it calls, per fetcher
    permits,        \* permits of vkSemaphore that are taken
    wvSem,          \* the fetcher in captchaWVSem
    resultCh,       \* the answer in captchaResultCh, 0 when it is empty
    holds,          \* the answer a fetcher is about to use, 0 without one
    fromCache,      \* usedCache
    cachedToken, cachedUsages,
    challenge,      \* whose pending challenge is in challenge.json
    results,        \* the answer in result-<id>.json, by the fetcher whose id it is
    answers,        \* answers given so far
    used,           \* how often each answer was sent on
    stopped         \* the context of the fetches has ended

waysVars == <<wvSem, resultCh, challenge, results, answers>>
cacheVars == <<cachedToken, cachedUsages>>
fetchVars == <<cpc, permits, waysVars, holds, fromCache, cacheVars, used, stopped>>

FetchInit ==
    /\ cpc = [f \in Fetchers |-> "idle"]
    /\ permits = 0 /\ wvSem = NoOne /\ resultCh = 0
    /\ holds = [f \in Fetchers |-> 0] /\ fromCache = {}
    /\ cachedToken = 0 /\ cachedUsages = 0
    /\ challenge = NoOne /\ results = [f \in Fetchers |-> 0]
    /\ answers = 0 /\ used = [a \in 1..MaxAnswers |-> 0] /\ stopped = FALSE

Goes(f, from, to) == cpc[f] = from /\ cpc' = [cpc EXCEPT ![f] = to]

-----------------------------------------------------------------------------
(* getCredsForHash and getUniqueVKCreds. *)

\* The credential mode and the configuration say where to begin: with the helper,
\* with the anonymous calls, or in process.
StartFetch(f) ==
    /\ ~stopped /\ \E to \in {"helper", "calls", "acquire"} : Goes(f, "idle", to)
    /\ UNCHANGED <<permits, waysVars, holds, fromCache, cacheVars, used, stopped>>

\* A permit, for the helper or an attempt in process, or the context.
Acquire(f) ==
    /\ \/ /\ permits < Permits /\ permits' = permits + 1
          /\ Goes(f, "helper", "helping") \/ Goes(f, "acquire", "request")
       \/ /\ stopped /\ UNCHANGED permits
          /\ Goes(f, "helper", "idle") \/ Goes(f, "acquire", "idle")
    /\ UNCHANGED <<waysVars, holds, fromCache, cacheVars, used, stopped>>

\* AcquireRoomCredentials has returned and the permit is given back.  Without
\* complete credentials the anonymous calls are next.
HelperReturns(f) ==
    /\ Goes(f, "helping", "idle") \/ Goes(f, "helping", "calls")
    /\ permits' = permits - 1
    /\ UNCHANGED <<waysVars, holds, fromCache, cacheVars, used, stopped>>

\* getVKCallsCreds, which takes no permit; without credentials the mode may end
\* the fetch there.
VKCalls(f) ==
    /\ Goes(f, "calls", "idle") \/ Goes(f, "calls", "acquire")
    /\ UNCHANGED <<permits, waysVars, holds, fromCache, cacheVars, used, stopped>>

\* Fault: an attempt that failed keeps its permit.
ReleaseOnSuccess(f) ==
    /\ cpc[f] \in {"done", "failed"}
    /\ permits' = IF cpc[f] = "done" THEN permits - 1 ELSE permits
    /\ \/ cpc' = [cpc EXCEPT ![f] = "idle"]
       \/ Goes(f, "failed", "backoff")
    /\ UNCHANGED <<waysVars, holds, fromCache, cacheVars, used, stopped>>

\* getVKCredsOnce has returned and the permit is given back.  After an error there
\* is another attempt, unless the room is dead or this was the last one; the
\* count of the attempts is left out.
Release(f) ==
    /\ cpc[f] \in {"done", "failed"} /\ permits' = permits - 1
    /\ \/ cpc' = [cpc EXCEPT ![f] = "idle"]
       \/ Goes(f, "failed", "backoff")
    /\ UNCHANGED <<waysVars, holds, fromCache, cacheVars, used, stopped>>

\* The back-off passes, or the context ends it.
BackedOff(f) ==
    /\ Goes(f, "backoff", "acquire") \/ (stopped /\ Goes(f, "backoff", "idle"))
    /\ UNCHANGED <<permits, waysVars, holds, fromCache, cacheVars, used, stopped>>

-----------------------------------------------------------------------------
(* getVKCredsOnce. *)

\* The first three requests: an error, a token, or a question.
Request(f) ==
    /\ \E to \in {"failed", "login", "pop"} : Goes(f, "request", to)
    /\ UNCHANGED <<permits, waysVars, holds, fromCache, cacheVars, used, stopped>>

\* solveVkCaptcha asks in the way that is set, or fails for a question without a
\* session; without a directory the panel cannot be asked.
Ways == {"queue", "headless", "challenge", "failed"}

\* popCachedToken; without one somebody is asked.
PopCachedToken(f) ==
    /\ IF cachedUsages > 0
         THEN /\ Goes(f, "pop", "use") /\ cachedUsages' = cachedUsages - 1
              /\ holds' = [holds EXCEPT ![f] = cachedToken] /\ fromCache' = fromCache \cup {f}
         ELSE /\ cpc[f] = "pop" /\ UNCHANGED <<cachedUsages, holds, fromCache>>
              /\ \E to \in Ways : Goes(f, "pop", to)
    /\ UNCHANGED <<permits, waysVars, cachedToken, used, stopped>>

\* Fault: the uses are added to those of the answer it replaces.
PushCachedTokenAdds(f) ==
    /\ Goes(f, "push", "use")
    /\ cachedToken' = holds[f] /\ cachedUsages' = cachedUsages + CacheUses
    /\ UNCHANGED <<permits, waysVars, holds, fromCache, used, stopped>>

\* pushCachedToken.
PushCachedToken(f) ==
    /\ Goes(f, "push", "use") /\ cachedToken' = holds[f] /\ cachedUsages' = CacheUses
    /\ UNCHANGED <<permits, waysVars, holds, fromCache, used, stopped>>

\* The third request again, with the answer: an error, the token, or the same
\* question once more.
UseAnswer(f) ==
    /\ \E to \in {"failed", "login", "refused"} :
         /\ Goes(f, "use", to)
         /\ fromCache' = IF to = "refused" THEN fromCache ELSE fromCache \ {f}
    /\ used' = [used EXCEPT ![holds[f]] = @ + 1] /\ holds' = [holds EXCEPT ![f] = 0]
    /\ UNCHANGED <<permits, waysVars, cacheVars, stopped>>

\* invalidateCachedToken for an answer from the cache, whichever is there by
\* now; a pause of 30 seconds for a fresh one.
Refused(f) ==
    /\ Goes(f, "refused", "failed") /\ fromCache' = fromCache \ {f}
    /\ IF f \in fromCache THEN cachedToken' = 0 /\ cachedUsages' = 0 ELSE UNCHANGED cacheVars
    /\ UNCHANGED <<permits, waysVars, holds, used, stopped>>

\* The last two requests and what the credentials must have.
Login(f) ==
    /\ \E to \in {"failed", "done"} : Goes(f, "login", to)
    /\ UNCHANGED <<permits, waysVars, holds, fromCache, cacheVars, used, stopped>>

\* solveVkCaptchaViaRJS finds an answer or fails; with a directory for the panel
\* its failure is the panel's turn.
Headless(f) ==
    /\ \/ /\ answers < MaxAnswers /\ answers' = answers + 1 /\ Goes(f, "headless", "push")
          /\ holds' = [holds EXCEPT ![f] = answers']
       \/ /\ \E to \in {"challenge", "failed"} : Goes(f, "headless", to)
          /\ UNCHANGED <<answers, holds>>
    /\ UNCHANGED <<permits, wvSem, resultCh, challenge, results, fromCache, cacheVars,
                   used, stopped>>

-----------------------------------------------------------------------------
(* solveVkCaptchaViaWV: the WebView. *)

\* captchaWVSem, then the channel is drained and the question printed.
AskWebView(f) ==
    /\ \/ wvSem = NoOne /\ Goes(f, "queue", "webview") /\ wvSem' = f /\ resultCh' = 0
       \/ stopped /\ Goes(f, "queue", "failed") /\ UNCHANGED <<wvSem, resultCh>>
    /\ UNCHANGED <<permits, holds, fromCache, cacheVars, challenge, results, answers,
                   used, stopped>>

\* SubmitCaptchaResult: the channel is drained and filled; the answer may be
\* late, to a question nobody waits for any more.
SubmitCaptchaResult ==
    /\ answers < MaxAnswers /\ answers' = answers + 1 /\ resultCh' = answers'
    /\ UNCHANGED <<cpc, permits, wvSem, holds, fromCache, cacheVars, challenge, results,
                   used, stopped>>

\* An answer, an error in its place, the context, or five minutes.
WebViewAnswers(f) ==
    /\ \/ /\ resultCh # 0 /\ resultCh' = 0
          /\ \/ Goes(f, "webview", "pause") /\ holds' = [holds EXCEPT ![f] = resultCh]
             \/ Goes(f, "webview", "pause") /\ UNCHANGED holds
       \/ Goes(f, "webview", "pause") /\ UNCHANGED <<resultCh, holds>>
    /\ UNCHANGED <<permits, wvSem, fromCache, cacheVars, challenge, results, answers,
                   used, stopped>>

\* A second for the application to clean up, and captchaWVSem is given back.
LeaveWebView(f) ==
    /\ Goes(f, "pause", IF holds[f] = 0 THEN "failed" ELSE "push") /\ wvSem' = NoOne
    /\ UNCHANGED <<permits, resultCh, challenge, results, answers, holds, fromCache,
                   cacheVars, used, stopped>>

-----------------------------------------------------------------------------
(* FileCaptchaSolver: the panel. *)

\* writeFileAtomic renames a whole file over the old one.
WriteFileAtomic(v) == challenge' = v

\* readResult: the file of the id is there, whole and with an answer.
ReadResult(f) == results[f] # 0

\* SolveCaptcha puts its challenge into the one file there is, or fails to.
WriteChallenge(f) ==
    /\ \/ /\ Goes(f, "challenge", "panel") /\ WriteFileAtomic(f)
          /\ results' = [results EXCEPT ![f] = 0]
       \/ Goes(f, "challenge", "failed") /\ UNCHANGED <<challenge, results>>
    /\ UNCHANGED <<permits, wvSem, resultCh, answers, holds, fromCache, cacheVars,
                   used, stopped>>

\* The panel answers the challenge it shows.
PanelAnswers ==
    /\ challenge # NoOne /\ results[challenge] = 0 /\ answers < MaxAnswers
    /\ answers' = answers + 1 /\ results' = [results EXCEPT ![challenge] = answers']
    /\ UNCHANGED <<cpc, permits, wvSem, resultCh, challenge, holds, fromCache, cacheVars,
                   used, stopped>>

\* markStatus writes the fetch's own challenge, solved or expired, over whichever
\* is in the file: also over the pending one of another fetch.
MarkStatus == WriteFileAtomic(NoOne)

\* A poll finds the result of the id: solved, and the result is removed.
PollResult(f) ==
    /\ Goes(f, "panel", "push") /\ ReadResult(f)
    /\ holds' = [holds EXCEPT ![f] = results[f]] /\ results' = [results EXCEPT ![f] = 0]
    /\ MarkStatus
    /\ UNCHANGED <<permits, wvSem, resultCh, answers, fromCache, cacheVars, used, stopped>>

\* The context or CaptchaWait is over: expired.
SolveExpires(f) ==
    /\ Goes(f, "panel", "failed") /\ MarkStatus
    /\ UNCHANGED <<permits, wvSem, resultCh, results, answers, holds, fromCache, cacheVars,
                   used, stopped>>

-----------------------------------------------------------------------------

StopFetches ==
    /\ ~stopped /\ stopped' = TRUE
    /\ UNCHANGED <<cpc, permits, waysVars, holds, fromCache, cacheVars, used>>

\* What a fetch does by itself, its timeouts included.
FetcherStep(f) ==
    \/ Acquire(f) \/ HelperReturns(f) \/ VKCalls(f) \/ Release(f) \/ BackedOff(f)
    \/ Request(f) \/ PopCachedToken(f) \/ PushCachedToken(f) \/ UseAnswer(f)
    \/ Refused(f) \/ Login(f) \/ Headless(f)
    \/ AskWebView(f) \/ WebViewAnswers(f) \/ LeaveWebView(f) \/ WriteChallenge(f) \/ PollResult(f) \/ SolveExpires(f)

FetchNext ==
    \/ \E f \in Fetchers : StartFetch(f) \/ FetcherStep(f)
    \/ SubmitCaptchaResult \/ PanelAnswers \/ StopFetches

FetchSpec == FetchInit /\ [][FetchNext]_fetchVars

-----------------------------------------------------------------------------
(* Properties. *)

\* An answer is used at most once by the fetch that asked and CacheUses times
\* from the cache, whose log promises it to the next 4 groups, also when two
\* fetches have been answered at the same time and one invalidates what the
\* other has pushed; and one question at a time is open to the WebView.
AnswersBounded ==
    /\ \A a \in 1..MaxAnswers : used[a] <= 1 + CacheUses
    /\ \A f, g \in Fetchers :
         cpc[f] \in {"webview", "pause"} /\ cpc[g] \in {"webview", "pause"} => f = g

\* Every attempt of a fetch ends, with credentials or an error, although it waits for
\* a permit while all of them are held by helpers and by fetches that wait for a
\* person who never answers.
AttemptEnds == \A f \in Fetchers : []<>(cpc[f] \in {"idle", "backoff"})
=============================================================================
