----------------------------- MODULE TunManager -----------------------------
(***************************************************************************)
(* The local TUN of a server that is also a router (internal/localtun:     *)
(* manager.go, selective_linux.go, chinadns_cache_linux.go): the manager   *)
(* that replaces one generation by the next, the supervisor goroutine of a *)
(* generation, and the host-wide state it owns: the TUN device, the nft    *)
(* table with its hook, the policy rule and route, ChinaDNS and dnsmasq.   *)
(*                                                                         *)
(* Abstractions.  A configuration is its name; those in FailClosed ask for *)
(* the killswitch, all for AutoRoute and domain rules.  Configurations     *)
(* that Reconcile refuses before it takes m.mu change nothing and are left *)
(* out.  Any command may fail.                                             *)
(* The route goes with the TUN device (external).  A crash ends the        *)
(* process; the host keeps the rest.                                       *)
(***************************************************************************)
EXTENDS Naturals, FiniteSets

CONSTANTS
    TunConfigs,  \* configurations that can be enabled
    FailClosed,  \* those with cfg.FailClosed
    TunGens      \* bound: names of generations, used again

ASSUME TunAssumption ==
    /\ FailClosed \subseteq TunConfigs /\ "off" \notin TunConfigs
    /\ 0 \notin TunGens

VARIABLES
    want,      \* what the Reconcile under way asks for, "" if none is
    current,   \* m.current
    cancel,    \* the generation m.cancel and m.done belong to, 0 if nil
    doneNil,   \* m.done is nil while m.cancel is not
    gens,      \* the supervisor of each generation; armed: it set the killswitch up
    tun,       \* the device exists
    hook,      \* what the prerouting chain jumps to: "none", "classify", "killswitch"
    routeTable,     \* the nft table exists
    rule,      \* the policy rule
    route,     \* the default route of the policy table
    china,     \* the ChinaDNS process runs
    uci,       \* dnsmasq's servers: "original", "ours" or "default"
    saved      \* the snapshot in the state file, "none" if there is no file

tunVars == <<want, current, cancel, doneNil, gens, tun, hook, routeTable, rule, route, china, uci, saved>>
mgrVars == <<want, current, cancel, doneNil>>
dnsVars == <<china, uci, saved>>
hostVars == <<tun, hook, routeTable, rule, route, dnsVars>>

Gone0 == [pc |-> "gone", cfg |-> "off", stop |-> FALSE, err |-> FALSE, armed |-> FALSE]

TunInit ==
    /\ want = "" /\ current = "off" /\ cancel = 0 /\ doneNil = FALSE
    /\ gens = [g \in TunGens |-> Gone0]
    /\ tun = FALSE /\ hook = "none" /\ routeTable = FALSE /\ rule = FALSE /\ route = FALSE
    /\ china = FALSE /\ uci = "original" /\ saved = "none"

-----------------------------------------------------------------------------
(* dnsmasq and ChinaDNS. *)

\* restoreDNSMasqFrontend: the saved servers are put back, and the state file goes
\* only when uci and dnsmasq took them all; without a file there is nothing to do.
Restored ==
    \/ saved = "none" /\ UNCHANGED <<uci, saved>>
    \/ saved # "none" /\ uci' = saved /\ saved' = "none"

\* Fault: the state file goes although dnsmasq did not take the servers.
RestoreFailsForgets == saved # "none" /\ uci' \in {uci, saved} /\ saved' = "none"

RestoreFails == saved # "none" /\ uci' \in {uci, saved} /\ UNCHANGED saved

\* cleanupManagedDNS: ChinaDNS stays while dnsmasq may still point at it.
DNSCleaned == Restored /\ china' = FALSE
DNSCleanupFails == \/ RestoreFails /\ UNCHANGED china
                   \/ Restored /\ UNCHANGED china

-----------------------------------------------------------------------------
(* The route controller. *)

\* Cleanup: without the hooks detached nothing else is removed; then every part is
\* tried, and verifyCleanup reports what is left.
CleanupOk ==
    /\ hook' = "none" /\ routeTable' = FALSE /\ rule' = FALSE /\ route' = FALSE /\ DNSCleaned
CleanupFails ==
    \/ UNCHANGED <<hook, routeTable, rule, route, dnsVars>>
    \/ /\ hook' = "none" /\ (DNSCleaned \/ DNSCleanupFails)
       /\ routeTable' \in {routeTable, FALSE} /\ rule' \in {rule, FALSE} /\ route' \in {route, FALSE}

\* EnterFailClosed: the table with the drop hook replaces the old one in one
\* transaction, then the dataplane is taken down.
FailClosedOk ==
    /\ hook' = "killswitch" /\ routeTable' = TRUE /\ rule' = FALSE /\ route' = FALSE /\ DNSCleaned
FailClosedFails ==
    \/ UNCHANGED <<hook, routeTable, rule, route, dnsVars>>
    \/ /\ hook' = "killswitch" /\ routeTable' = TRUE /\ (DNSCleaned \/ DNSCleanupFails)
       /\ rule' \in {rule, FALSE} /\ route' \in {route, FALSE}

EnterFailClosed(ok) == IF ok THEN FailClosedOk ELSE FailClosedFails
Cleanup(ok) == IF ok THEN CleanupOk ELSE CleanupFails

-----------------------------------------------------------------------------
(* The supervisor of a generation. *)

Gen(g, pc) == gens' = [gens EXCEPT ![g].pc = pc]
FC(g) == gens[g].cfg \in FailClosed

\* The start of runOnce: the killswitch, or what an earlier generation left.
Prepare(g) ==
    /\ gens[g].pc = "prepare"
    /\ \E ok \in BOOLEAN :
          /\ IF FC(g) THEN EnterFailClosed(ok) ELSE Cleanup(ok)
          /\ gens' = [gens EXCEPT ![g].pc = IF ok THEN "open" ELSE "after",
                                  ![g].armed = @ \/ (ok /\ FC(g))]
    /\ UNCHANGED <<mgrVars, tun>>

\* engine.New and Start: the device opens, or is busy for too long.
OpenDevice(g) ==
    /\ gens[g].pc = "open"
    /\ \/ tun' = TRUE /\ Gen(g, "stage")
       \/ gens' = [gens EXCEPT ![g].pc = "finish", ![g].err = TRUE] /\ UNCHANGED tun
    /\ UNCHANGED <<mgrVars, hook, routeTable, rule, route, dnsVars>>

\* Setup of the route controller, one command after the other; the last publishes
\* the hook.  A command that fails leads to rollbackSetup.
StageSets(g) ==
    /\ gens[g].pc = "stage" /\ Gen(g, "route") /\ routeTable' = TRUE
    /\ hook' = IF FC(g) THEN "killswitch" ELSE "none"
    /\ UNCHANGED <<mgrVars, tun, rule, route, dnsVars>>
AddRoute(g) ==
    /\ gens[g].pc = "route" /\ Gen(g, "rule") /\ route' = TRUE
    /\ UNCHANGED <<mgrVars, tun, hook, routeTable, rule, dnsVars>>
AddRule(g) ==
    /\ gens[g].pc = "rule" /\ Gen(g, "dns") /\ rule' = TRUE
    /\ UNCHANGED <<mgrVars, tun, hook, routeTable, route, dnsVars>>
StartChinaDNS(g) ==
    /\ gens[g].pc = "dns" /\ Gen(g, "snapshot") /\ china' = TRUE
    /\ UNCHANGED <<mgrVars, tun, hook, routeTable, rule, route, uci, saved>>

\* installDNSMasqFrontend saves the servers first; a snapshot that is there already
\* is kept, and our own port never gets into one.
SaveSnapshot(g) ==
    /\ gens[g].pc = "snapshot" /\ Gen(g, "frontend")
    /\ saved' = IF saved # "none" THEN saved ELSE IF uci = "ours" THEN "default" ELSE uci
    /\ UNCHANGED <<mgrVars, tun, hook, routeTable, rule, route, china, uci>>
PointDNSMasq(g) ==
    /\ gens[g].pc = "frontend" /\ Gen(g, "hooks") /\ uci' = "ours"
    /\ UNCHANGED <<mgrVars, tun, hook, routeTable, rule, route, china, saved>>
ActivateHooks(g) ==
    /\ gens[g].pc = "hooks" /\ Gen(g, "running") /\ hook' = "classify"
    /\ UNCHANGED <<mgrVars, tun, routeTable, rule, route, dnsVars>>

SetupStep(g) ==
    \/ StageSets(g) \/ AddRoute(g) \/ AddRule(g) \/ StartChinaDNS(g) \/ SaveSnapshot(g)
    \/ PointDNSMasq(g) \/ ActivateHooks(g)

InSetup(g) == gens[g].pc \in {"stage", "route", "rule", "dns", "snapshot", "frontend", "hooks"}

\* Fault: a setup that fails takes everything down, the killswitch too.
RollbackOpen(g) ==
    /\ InSetup(g) /\ \E ok \in BOOLEAN : Cleanup(ok)
    /\ gens' = [gens EXCEPT ![g].pc = "close", ![g].err = TRUE]
    /\ UNCHANGED <<mgrVars, tun>>

\* rollbackSetup.
Rollback(g) ==
    /\ InSetup(g)
    /\ \E ok \in BOOLEAN : IF FC(g) THEN EnterFailClosed(ok) ELSE Cleanup(ok)
    /\ gens' = [gens EXCEPT ![g].pc = "close", ![g].err = TRUE]
    /\ UNCHANGED <<mgrVars, tun>>

\* An address, link or source interface that is not there ends Setup before there is
\* anything to roll back.
SetupRefused(g) ==
    /\ gens[g].pc = "stage" /\ gens' = [gens EXCEPT ![g].pc = "close", ![g].err = TRUE]
    /\ UNCHANGED <<mgrVars, hostVars>>

\* waitRuntime returns because the generation is cancelled ...
RuntimeStopped(g) ==
    /\ gens[g].pc = "running" /\ gens[g].stop /\ Gen(g, "close")
    /\ UNCHANGED <<mgrVars, hostVars>>

\* ... or because ChinaDNS or the session ended, or Health failed three times in a
\* row.
RuntimeFails(g) ==
    /\ gens[g].pc = "running" /\ gens' = [gens EXCEPT ![g].pc = "close", ![g].err = TRUE]
    /\ UNCHANGED <<mgrVars, hostVars>>

\* session.Stop and engine.Close: the device and its route are gone.
CloseDevice(g) ==
    /\ gens[g].pc = "close" /\ Gen(g, "finish") /\ tun' = FALSE /\ route' = FALSE
    /\ UNCHANGED <<mgrVars, hook, routeTable, rule, dnsVars>>

\* finishRoutes.
FinishRoutes(g) ==
    /\ gens[g].pc = "finish" /\ Gen(g, "after")
    /\ \E ok \in BOOLEAN :
          IF ~gens[g].stop /\ gens[g].err /\ FC(g) THEN EnterFailClosed(ok) ELSE Cleanup(ok)
    /\ UNCHANGED <<mgrVars, tun>>

\* The rest of supervise: the next try after five seconds, or the last cleanup and
\* its result in done.
TryAgain(g) ==
    /\ gens[g].pc = "after" /\ ~gens[g].stop
    /\ gens' = [gens EXCEPT ![g].pc = "prepare", ![g].err = FALSE]
    /\ UNCHANGED <<mgrVars, hostVars>>
FinalCleanup(g) ==
    /\ gens[g].pc = "after" /\ gens[g].stop
    /\ \E ok \in BOOLEAN :
          /\ Cleanup(ok)
          /\ gens' = [gens EXCEPT ![g].pc = "gone", ![g].err = ~ok]
    /\ UNCHANGED <<mgrVars, tun>>

-----------------------------------------------------------------------------
(* The manager, under m.mu. *)

\* Reconcile: what runs already is kept.
Reconcile(c) ==
    /\ want = "" /\ ~(c # "off" /\ cancel # 0 /\ c = current)
    /\ want' = c
    /\ gens' = IF cancel # 0 /\ ~doneNil THEN [gens EXCEPT ![cancel].stop = TRUE] ELSE gens
    /\ UNCHANGED <<current, cancel, doneNil, hostVars>>

\* Close, which ends as Reconcile with nothing enabled does.
CloseManager == Reconcile("off")

\* stopLocked, the generation answering in time; a failed cleanup keeps it.
StopAnswered ==
    /\ want # "" /\ cancel # 0 /\ ~doneNil /\ gens[cancel].pc = "gone"
    /\ gens' = [gens EXCEPT ![cancel] = Gone0]
    /\ IF gens[cancel].err THEN doneNil' = TRUE /\ want' = "" /\ UNCHANGED cancel
                           ELSE cancel' = 0 /\ UNCHANGED <<want, doneNil>>
    /\ UNCHANGED <<current, hostVars>>

\* Fault: after the timeout the generation is forgotten.
StopTimesOutForgetting ==
    /\ want # "" /\ cancel # 0 /\ ~doneNil /\ gens[cancel].pc # "gone"
    /\ cancel' = 0 /\ UNCHANGED <<want, current, doneNil, gens, hostVars>>

\* stopLocked after 16 s: the generation stays owned, and is waited for again.
StopTimesOut ==
    /\ want # "" /\ cancel # 0 /\ ~doneNil /\ gens[cancel].pc # "gone"
    /\ want' = "" /\ UNCHANGED <<current, cancel, doneNil, gens, hostVars>>

\* stopLocked after a failed cleanup: it is tried again.
RetryCleanup ==
    /\ want # "" /\ cancel # 0 /\ doneNil
    /\ \E ok \in BOOLEAN :
          /\ Cleanup(ok)
          /\ IF ok THEN cancel' = 0 /\ doneNil' = FALSE /\ UNCHANGED want
                   ELSE want' = "" /\ UNCHANGED <<cancel, doneNil>>
    /\ UNCHANGED <<current, gens, tun>>

\* The rest of Reconcile.
StartGeneration ==
    /\ want # "" /\ cancel = 0 /\ current' = want /\ want' = ""
    /\ IF want = "off" THEN UNCHANGED <<cancel, gens>>
       ELSE \E g \in TunGens :
              /\ gens[g].pc = "gone" /\ cancel' = g
              /\ gens' = [gens EXCEPT ![g] =
                    [Gone0 EXCEPT !.pc = "prepare", !.cfg = want]]
    /\ UNCHANGED <<doneNil, hostVars>>

\* The process dies; ChinaDNS lives on and is found by its PID file, the device and
\* its route are gone.
TunCrash ==
    /\ want' = "" /\ current' = "off" /\ cancel' = 0 /\ doneNil' = FALSE
    /\ gens' = [g \in TunGens |-> Gone0] /\ tun' = FALSE /\ route' = FALSE
    /\ UNCHANGED <<hook, routeTable, rule, dnsVars>>

ChinaDies == china /\ china' = FALSE /\ UNCHANGED <<mgrVars, gens, tun, hook, routeTable, rule, route, uci, saved>>

TunNext ==
    \/ \E c \in TunConfigs \cup {"off"} : Reconcile(c)
    \/ CloseManager
    \/ StopAnswered \/ StopTimesOut \/ RetryCleanup \/ StartGeneration \/ TunCrash \/ ChinaDies
    \/ \E g \in TunGens :
          \/ Prepare(g) \/ OpenDevice(g) \/ SetupStep(g) \/ SetupRefused(g) \/ Rollback(g)
          \/ RuntimeStopped(g) \/ RuntimeFails(g) \/ CloseDevice(g) \/ FinishRoutes(g)
          \/ TryAgain(g) \/ FinalCleanup(g)

TunSpec == TunInit /\ [][TunNext]_tunVars

-----------------------------------------------------------------------------
(* Properties. *)

\* Two generations never overlap, whatever times out or fails to clean up: a late
\* cleanup of the old one cannot delete what the new one installed.
NoOverlap == Cardinality({g \in TunGens : gens[g].pc # "gone"}) <= 1

\* Once a fail-closed generation has its killswitch, and until it is stopped on
\* purpose, the hook is never gone: setup, failures, rollback and retries all keep
\* the killswitch or the classifier in place.
KillswitchKept ==
    \A g \in TunGens : gens[g].armed /\ ~gens[g].stop /\ gens[g].pc # "gone" => hook # "none"

\* The servers dnsmasq had are never lost: while it points at ChinaDNS they are in
\* the state file, across failed restores, crashes and generations that start over.
OriginalKept ==
    /\ uci # "default" /\ saved # "default"
    /\ uci = "ours" => saved = "original"

\* The three of them together: one owner of the host's state at a time, the
\* killswitch held through every failure, and dnsmasq's own servers never lost.
TunSafe == NoOverlap /\ KillswitchKept /\ OriginalKept
=============================================================================
