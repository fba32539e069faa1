----------------------------- MODULE TurnCreds ------------------------------
(***************************************************************************)
(* The server's manager of TURN credentials: a loop that fetches them, and *)
(* Reload, which changes its settings from another goroutine.  Settings    *)
(* are read by the fetch when it starts and its result is stored when it   *)
(* ends.                                                                   *)
(*                                                                         *)
(* Time is kept in ticks of 30 seconds, as ages; the clock has no bound.   *)
(* Config and call hash are one setting each; Bad is one left empty.  The  *)
(* credentials fetched carry a lifetime.                                   *)
(***************************************************************************)
EXTENDS Integers

CONSTANTS
    Settings,   \* values of the call hash and of the config
    Bad,        \* the empty setting
    Lifetimes,  \* in ticks, that fetched credentials may have; 0 if none is given
    MaxErrs,    \* bound on the count of consecutive errors
    MaxReloads  \* bound on the number of reloads

ASSUME TurnAssumption ==
    /\ Bad \in Settings /\ Lifetimes \subseteq Nat
    /\ MaxErrs \in Nat \ {0} /\ MaxReloads \in Nat

NoCreds == [hash |-> Bad, cfg |-> Bad]

VARIABLES
    enabled, hash, cfg,     \* the atomics of the manager
    creds,      \* what the cached credentials were fetched with, or NoCreds
    lifetime, age,  \* of the last credentials fetched; age up to lifetime
    failed,     \* lastErr # nil
    errs,       \* consecutiveErrs
    signal,     \* refreshCh holds a value
    loop,       \* the goroutine: "start", "plan", "sleep", "load", "config",
                \* "fetch", "gone"
    refreshTimer,  \* ticks its timer has left; 0 when there is none
    using,      \* what the running fetch has read; NoCreds when none runs
    reload,     \* Reload: [pc, hash, cfg, enabled]
    credsReloads,
    stopped     \* the context has ended

credsVars == <<enabled, hash, cfg, creds, lifetime, age, failed, errs, signal, loop,
               refreshTimer, using, reload, credsReloads, stopped>>
settings == <<enabled, hash, cfg, signal, reload, credsReloads>>
credsCache == <<creds, lifetime, age, failed, errs>>

CredsInit ==
    /\ enabled \in BOOLEAN /\ hash \in Settings /\ cfg \in Settings
    /\ creds = NoCreds /\ lifetime = 0 /\ age = 0 /\ failed = FALSE /\ errs = 0
    /\ signal = FALSE /\ loop = "start" /\ refreshTimer = 0 /\ using = NoCreds
    /\ reload = [pc |-> "idle", hash |-> hash, cfg |-> cfg, enabled |-> enabled]
    /\ credsReloads = 0 /\ stopped = FALSE

-----------------------------------------------------------------------------
(* run *)

\* The first fetch, if enabled.
Start ==
    /\ loop = "start"
    /\ loop' = IF enabled THEN "load" ELSE "plan"
    /\ UNCHANGED <<settings, credsCache, refreshTimer, using, stopped>>

AtLeast(n, d) == IF d < n THEN n ELSE d
Backoff == IF errs > 3 THEN 10 ELSE 2 ^ errs

\* computeNextRefresh; four fifths of the lifetime are rounded down to a tick.
NextRefresh ==
    IF creds # NoCreds /\ lifetime > 0 THEN AtLeast(1, (4 * lifetime) \div 5 - age)
    ELSE IF failed THEN Backoff ELSE 2

Plan ==
    /\ loop = "plan"
    /\ refreshTimer' = NextRefresh /\ loop' = "sleep"
    /\ UNCHANGED <<settings, credsCache, using, stopped>>

\* The select, and the tests after it; the timer is stopped or has fired.
Wakes ==
    /\ loop = "sleep" /\ refreshTimer' = 0
    /\ loop' = IF stopped THEN "gone" ELSE IF enabled THEN "load" ELSE "plan"

WakeSignal ==
    /\ signal /\ signal' = FALSE /\ Wakes
    /\ UNCHANGED <<enabled, hash, cfg, reload, credsReloads, credsCache, using, stopped>>

WakeTimer ==
    /\ refreshTimer = 0 /\ Wakes
    /\ UNCHANGED <<settings, credsCache, using, stopped>>

WakeStop ==
    /\ stopped /\ loop = "sleep"
    /\ loop' = "gone" /\ refreshTimer' = 0
    /\ UNCHANGED <<settings, credsCache, using, stopped>>

-----------------------------------------------------------------------------
(* doFetch *)

\* Fault: the hash the credentials were fetched with is kept.
LoadHashOnce ==
    /\ loop = "load"
    /\ IF hash = Bad
         THEN failed' = TRUE /\ loop' = "plan" /\ UNCHANGED using
         ELSE /\ using' = [hash |-> IF creds = NoCreds THEN hash ELSE creds.hash, cfg |-> Bad]
              /\ loop' = "config" /\ UNCHANGED failed
    /\ UNCHANGED <<settings, creds, lifetime, age, errs, refreshTimer, stopped>>

\* The hash is read; an empty one is an error.
LoadHash ==
    /\ loop = "load"
    /\ IF hash = Bad
         THEN failed' = TRUE /\ loop' = "plan" /\ UNCHANGED using
         ELSE using' = [hash |-> hash, cfg |-> Bad] /\ loop' = "config" /\ UNCHANGED failed
    /\ UNCHANGED <<settings, creds, lifetime, age, errs, refreshTimer, stopped>>

\* Then the config, with the same test.
LoadConfig ==
    /\ loop = "config"
    /\ IF cfg = Bad
         THEN failed' = TRUE /\ loop' = "plan" /\ using' = NoCreds
         ELSE using' = [using EXCEPT !.cfg = cfg] /\ loop' = "fetch" /\ UNCHANGED failed
    /\ UNCHANGED <<settings, creds, lifetime, age, errs, refreshTimer, stopped>>

FetchFails ==
    /\ loop = "fetch"
    /\ errs' = IF errs < MaxErrs THEN errs + 1 ELSE errs
    /\ failed' = TRUE /\ loop' = "plan" /\ using' = NoCreds
    /\ UNCHANGED <<settings, creds, lifetime, age, refreshTimer, stopped>>

FetchSucceeds ==
    /\ loop = "fetch"
    /\ creds' = using /\ lifetime' \in Lifetimes /\ age' = 0 /\ errs' = 0 /\ failed' = FALSE
    /\ loop' = "plan" /\ using' = NoCreds
    /\ UNCHANGED <<settings, refreshTimer, stopped>>

Loop == Start \/ Plan \/ WakeSignal \/ WakeTimer \/ WakeStop \/ LoadHash \/ LoadConfig
        \/ FetchFails \/ FetchSucceeds

-----------------------------------------------------------------------------
(* Reload, one at a time: main calls it from its SIGHUP loop *)

ReloadConfig(h, c, e) ==
    /\ reload.pc = "idle" /\ credsReloads < MaxReloads
    /\ cfg' = c /\ credsReloads' = credsReloads + 1
    /\ reload' = [pc |-> "hash", hash |-> h, cfg |-> c, enabled |-> e]
    /\ UNCHANGED <<enabled, hash, signal, credsCache, loop, refreshTimer, using, stopped>>

ReloadHash ==
    /\ reload.pc = "hash"
    /\ hash' = reload.hash /\ reload' = [reload EXCEPT !.pc = "swap"]
    /\ UNCHANGED <<enabled, cfg, signal, credsReloads, credsCache, loop, refreshTimer, using, stopped>>

ReloadSwap ==
    /\ reload.pc = "swap"
    /\ enabled' = reload.enabled
    /\ reload' = [reload EXCEPT !.pc = IF reload.enabled THEN "force"
                                       ELSE IF enabled THEN "clear" ELSE "idle"]
    /\ UNCHANGED <<hash, cfg, signal, credsReloads, credsCache, loop, refreshTimer, using, stopped>>

\* The send does not block: one signal stands for all.
ForceRefresh ==
    /\ reload.pc = "force"
    /\ signal' = TRUE /\ reload' = [reload EXCEPT !.pc = "idle"]
    /\ UNCHANGED <<enabled, hash, cfg, credsReloads, credsCache, loop, refreshTimer, using, stopped>>

ReloadClear ==
    /\ reload.pc = "clear"
    /\ creds' = NoCreds /\ failed' = FALSE /\ reload' = [reload EXCEPT !.pc = "idle"]
    /\ UNCHANGED <<enabled, hash, cfg, signal, credsReloads, lifetime, age, errs, loop, refreshTimer,
                   using, stopped>>

Reloading == ReloadHash \/ ReloadSwap \/ ForceRefresh \/ ReloadClear

StopManager ==
    /\ ~stopped /\ stopped' = TRUE
    /\ UNCHANGED <<settings, credsCache, loop, refreshTimer, using>>

CredsTick ==
    /\ age' = IF age < lifetime THEN age + 1 ELSE age
    /\ refreshTimer' = AtLeast(0, refreshTimer - 1)
    /\ UNCHANGED <<settings, creds, lifetime, failed, errs, loop, using, stopped>>

CredsNext ==
    \/ Loop \/ Reloading \/ StopManager \/ CredsTick
    \/ \E h, c \in Settings, e \in BOOLEAN : ReloadConfig(h, c, e)

CredsSpec == CredsInit /\ [][CredsNext]_credsVars

-----------------------------------------------------------------------------
Wanted == [hash |-> hash, cfg |-> cfg]

\* With good settings that stay, the credentials come to be fetched with them.
SettingsSettle ==
    <>[](enabled /\ Bad \notin {hash, cfg} /\ reload.pc = "idle" /\ ~stopped
           => creds = Wanted)

\* Said of Reload: "When transitioning to disabled, cached credentials are
\* cleared."
DisabledCleared == ~enabled /\ reload.pc = "idle" => creds = NoCreds
=============================================================================
