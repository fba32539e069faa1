------------------------------ MODULE GeoData ------------------------------
(***************************************************************************)
(* Geodata files and the routing tables built from them.                   *)
(*                                                                         *)
(* The updater (node/geodata_updater.go) downloads a .dat file to          *)
(* <target>.tmp, validates it and renames it over the target.  Its loop    *)
(* and the RefreshNow that a SIGHUP starts run side by side.  A refreshed  *)
(* file, and every SIGHUP, makes the server rebuild and publish its        *)
(* routing (publishRouting in cmd/tamizdat-server/main.go), with the       *)
(* parsed files cached under a fingerprint of their size and mtime, and    *)
(* reconcile the local TUN with what is published: at once after a SIGHUP, *)
(* after a quiet period (debounce.go) after a refresh.                     *)
(*                                                                         *)
(* One source file stands for all of them: each has its own tmp name.  An  *)
(* inode's content is the set of chunks of the download it holds, a hole   *)
(* being zeroes.  Its number and content stand for its size and mtime, for *)
(* a rename or a write changes one of them.                                *)
(***************************************************************************)
EXTENDS Naturals, FiniteSets

CONSTANTS
    FileLen,      \* the chunks of a complete download
    ParsesAt,     \* the lengths, up to FileLen, that parse with at least one entry
    MaxInodes,    \* bound: files ever created
    MaxHups    \* bound: SIGHUPs

Refreshers == {"loop", "hup"}
Publishers == Refreshers \cup {"handler"}
Inodes == 1 .. MaxInodes
NoFile == 0

ASSUME GeoAssumption ==
    /\ FileLen \in Nat /\ MaxInodes \in Nat \ {0}
    /\ ParsesAt \subseteq 1 .. FileLen /\ FileLen \in ParsesAt

VARIABLES
    dir,        \* "tmp" and "target": the inode each name stands for
    content,    \* the set of chunks in each inode
    made,       \* inodes created so far
    fetch,      \* each refresher: pc, fd, and the chunks it has written
    pub,        \* each publisher: pc, the fingerprint it took
    cache,      \* geoDBCachedFP, geoDBCachedDB
    store,      \* routingStore: how many snapshots were published
    timer,      \* debouncedAction: is the quiet period running
    reading,    \* is reconcileLocalTUN running, for the handler and for the timer
    seen,       \* the newest publication a reconcile has read
    reloads

fileVars == <<dir, content, made>>
geoVars == <<fileVars, fetch, pub, cache, store, timer, reading, seen, reloads>>

Chunks == 1 .. FileLen

\* Fault: the fingerprint holds the size and not the mtime.
FingerprintBySize ==
    LET i == dir["target"] IN IF i = NoFile THEN <<NoFile, {}>> ELSE <<1, content[i]>>

\* geoCacheFingerprint: size and mtime, or a mark for a missing file.
Fingerprint ==
    LET i == dir["target"] IN IF i = NoFile THEN <<NoFile, {}>> ELSE <<i, content[i]>>

\* validateGeoIPDat, validateGeositeDat: at least one entry, and the data ends where an
\* entry ends; a hole is a field number 0, which the parser refuses.
ParsesOK(i) == i # NoFile /\ \E n \in ParsesAt : content[i] = 1 .. n

\* LoadGeoDBMulti of the target: what was parsed, or nothing (the curated lists serve)
\* when there is no file or it does not parse.
NoData == <<NoFile, {}>>
Parsed == LET i == dir["target"] IN IF ParsesOK(i) THEN <<i, content[i]>> ELSE NoData

IdleFetch == [pc |-> "idle", fd |-> NoFile, len |-> 0]
IdlePub == [pc |-> "idle", print |-> NoData]

GeoInit ==
    /\ \E old \in BOOLEAN :
          /\ dir = [n \in {"tmp", "target"} |-> IF n = "target" /\ old THEN 1 ELSE NoFile]
          /\ content = [i \in Inodes |-> IF i = 1 /\ old THEN Chunks ELSE {}]
    /\ made = 1
    /\ fetch = [r \in Refreshers |-> IdleFetch]
    /\ pub = [p \in Publishers |-> IdlePub]
    /\ cache = [print |-> NoData, geo |-> NoData]
    /\ store = 0
    /\ timer = FALSE
    /\ reading = [q \in {"handler", "timer"} |-> FALSE]
    /\ seen = 0
    /\ reloads = 0

FetchTo(r, pc) == fetch' = [fetch EXCEPT ![r].pc = pc]

\* refreshOnce -> maybeDownload: the HEAD request says whether the file is newer; a
\* missing file, or a HEAD that fails, is fetched anyway.
HasUpdate(r) ==
    /\ fetch[r].pc = "head"
    /\ \/ FetchTo(r, "remove")
       \/ dir["target"] # NoFile /\ FetchTo(r, "idle")
    /\ UNCHANGED <<fileVars, pub, cache, store, timer, reading, seen, reloads>>

\* The ticker of the loop.
Tick ==
    /\ fetch["loop"].pc = "idle" /\ pub["loop"].pc = "idle"
    /\ made < MaxInodes
    /\ FetchTo("loop", "head")
    /\ UNCHANGED <<fileVars, pub, cache, store, timer, reading, seen, reloads>>

\* downloadOne begins by removing a tmp left by a crash; the GET may fail.
RemoveStale(r) ==
    /\ fetch[r].pc = "remove"
    /\ dir' = [dir EXCEPT !["tmp"] = NoFile]
    /\ \E pc \in {"create", "idle"} : FetchTo(r, pc)
    /\ UNCHANGED <<content, made, pub, cache, store, timer, reading, seen, reloads>>

\* os.Create(tmp): a new file, or the existing one truncated.
CreateTmp(r) ==
    /\ fetch[r].pc = "create"
    /\ IF dir["tmp"] # NoFile
       THEN /\ content' = [content EXCEPT ![dir["tmp"]] = {}]
            /\ fetch' = [fetch EXCEPT ![r] = [pc |-> "copy", fd |-> dir["tmp"], len |-> 0]]
            /\ UNCHANGED <<dir, made>>
       ELSE /\ made < MaxInodes
            /\ made' = made + 1
            /\ dir' = [dir EXCEPT !["tmp"] = made + 1]
            /\ fetch' = [fetch EXCEPT ![r] = [pc |-> "copy", fd |-> made + 1, len |-> 0]]
            /\ UNCHANGED content
    /\ UNCHANGED <<pub, cache, store, timer, reading, seen, reloads>>

\* io.Copy writes the next chunk at this download's own offset (len), ends the file
\* there, or fails and removes whatever tmp is.
FetchChunk(r) ==
    /\ fetch[r].pc = "copy"
    /\ \/ /\ fetch[r].len < FileLen
          /\ fetch' = [fetch EXCEPT ![r].len = @ + 1]
          /\ content' = [content EXCEPT ![fetch[r].fd] = @ \cup {fetch[r].len + 1}]
          /\ UNCHANGED dir
       \/ /\ fetch[r].len = FileLen /\ FetchTo(r, "reread")
          /\ UNCHANGED <<dir, content>>
       \/ /\ fetch[r].len < FileLen
          /\ dir' = [dir EXCEPT !["tmp"] = NoFile]
          /\ fetch' = [fetch EXCEPT ![r] = IdleFetch]
          /\ UNCHANGED content
    /\ UNCHANGED <<made, pub, cache, store, timer, reading, seen, reloads>>

\* ReadFile(tmp) and the validator: what tmp names now, which need not be the file this
\* refresher wrote.  A file that is missing, empty or does not parse ends the attempt.
Validate(r) ==
    /\ fetch[r].pc = "reread"
    /\ IF ParsesOK(dir["tmp"])
       THEN FetchTo(r, "rename") /\ UNCHANGED dir
       ELSE fetch' = [fetch EXCEPT ![r] = IdleFetch] /\ dir' = [dir EXCEPT !["tmp"] = NoFile]
    /\ UNCHANGED <<content, made, pub, cache, store, timer, reading, seen, reloads>>

\* The rename replaces the target; without a tmp it fails.  OnRefresh then publishes.
RenameTmp(r) ==
    /\ fetch[r].pc = "rename"
    /\ fetch' = [fetch EXCEPT ![r] = IdleFetch]
    /\ IF dir["tmp"] = NoFile
       THEN UNCHANGED <<dir, pub>>
       ELSE /\ dir' = [tmp |-> NoFile, target |-> dir["tmp"]]
            /\ pub' = [pub EXCEPT ![r].pc = "print"]
    /\ UNCHANGED <<content, made, cache, store, timer, reading, seen, reloads>>

-----------------------------------------------------------------------------
(* Publishing *)

\* The SIGHUP handler: RefreshNow on a goroutine of its own (one at a time here), then
\* publishRouting.
Hup ==
    /\ reloads < MaxHups /\ reloads' = reloads + 1
    /\ pub["handler"].pc = "idle" /\ ~reading["handler"]
    /\ pub' = [pub EXCEPT !["handler"].pc = "print"]
    /\ IF fetch["hup"].pc = "idle" /\ pub["hup"].pc = "idle"
       THEN FetchTo("hup", "head") ELSE UNCHANGED fetch
    /\ UNCHANGED <<fileVars, cache, store, timer, reading, seen>>

\* publishRouting reads the rules, then loadGeoDBCached takes the fingerprint before the
\* cache's lock ...
TakePrint(p) ==
    /\ pub[p].pc = "print"
    /\ pub' = [pub EXCEPT ![p].pc = "load", ![p].print = Fingerprint]
    /\ UNCHANGED <<fileVars, fetch, cache, store, timer, reading, seen, reloads>>

\* ... and under the lock returns the cached data or parses the files again.
LoadCached(p) ==
    /\ pub[p].pc = "load"
    /\ LET hit == pub[p].print = cache.print /\ cache.print # NoData
           geo == IF hit THEN cache.geo ELSE Parsed IN
       /\ cache' = [print |-> pub[p].print, geo |-> geo]
       /\ pub' = [pub EXCEPT ![p].pc = "store"]
    /\ UNCHANGED <<fileVars, fetch, store, timer, reading, seen, reloads>>

\* BuildWithGeoDB and Store.  Rules that do not compile leave the old snapshot, and a
\* refresh then triggers nothing; the SIGHUP handler reconciles all the same.
Publish(p) ==
    /\ pub[p].pc = "store"
    /\ \/ /\ store' = store + 1
          /\ pub' = [pub EXCEPT ![p] = [IdlePub EXCEPT !.pc = "notify"]]
       \/ /\ UNCHANGED store
          /\ pub' = [pub EXCEPT ![p] = [IdlePub EXCEPT !.pc = IF p = "handler" THEN "notify" ELSE "idle"]]
    /\ UNCHANGED <<fileVars, fetch, cache, timer, reading, seen, reloads>>

\* Fault: a trigger that arrives while the action runs is dropped.
TriggerDropped(p) ==
    /\ p # "handler" /\ pub[p].pc = "notify"
    /\ timer' = (timer \/ ~reading["timer"])
    /\ pub' = [pub EXCEPT ![p].pc = "idle"]
    /\ UNCHANGED <<fileVars, fetch, cache, store, reading, seen, reloads>>

\* debouncedAction.Trigger, received by the debounce goroutine between two actions:
\* the quiet period starts anew.
Trigger(p) ==
    /\ p # "handler" /\ pub[p].pc = "notify"
    /\ ~reading["timer"]
    /\ timer' = TRUE
    /\ pub' = [pub EXCEPT ![p].pc = "idle"]
    /\ UNCHANGED <<fileVars, fetch, cache, store, reading, seen, reloads>>

\* reconcileLocalTUN(routingStore.Load()): the snapshot is read first ...
ReadStore(q) ==
    /\ ~reading[q]
    /\ reading' = [reading EXCEPT ![q] = TRUE]
    /\ seen' = store

HandlerReads ==
    /\ pub["handler"].pc = "notify"
    /\ pub' = [pub EXCEPT !["handler"].pc = "idle"]
    /\ ReadStore("handler")
    /\ UNCHANGED <<fileVars, fetch, cache, store, timer, reloads>>

QuietPeriodEnds ==
    /\ timer /\ timer' = FALSE
    /\ ReadStore("timer")
    /\ UNCHANGED <<fileVars, fetch, pub, cache, store, reloads>>

\* ... and applied under the manager's lock.
Reconciled(q) ==
    /\ reading[q] /\ reading' = [reading EXCEPT ![q] = FALSE]
    /\ UNCHANGED <<fileVars, fetch, pub, cache, store, timer, seen, reloads>>

FetchStep(r) ==
    HasUpdate(r) \/ RemoveStale(r) \/ CreateTmp(r) \/ FetchChunk(r) \/ Validate(r) \/ RenameTmp(r)
PublishStep(p) ==
    TakePrint(p) \/ LoadCached(p) \/ Publish(p) \/ Trigger(p)
ReconcileStep == HandlerReads \/ QuietPeriodEnds \/ \E q \in {"handler", "timer"} : Reconciled(q)

GeoNext ==
    \/ Tick \/ Hup
    \/ \E r \in Refreshers : FetchStep(r)
    \/ \E p \in Publishers : PublishStep(p)
    \/ ReconcileStep

GeoSpec == GeoInit /\ [][GeoNext]_geoVars

\* A publisher that has begun, and the goroutines of the reconcile, go on; downloads
\* may stall for ever.
GeoFairness ==
    WF_geoVars(ReconcileStep) /\ \A p \in Publishers : WF_geoVars(PublishStep(p))

-----------------------------------------------------------------------------
(* Properties *)

\* The cache never answers for files it did not parse: whenever its fingerprint is the
\* one the files have now, its data is what parsing them now gives, though the
\* fingerprint is taken before the lock and the files may change in between.
CacheFresh ==
    cache.print = Fingerprint /\ cache.print # NoData => cache.geo = Parsed

\* Every publication is followed by a reconcile that reads it or a later one: a SIGHUP's
\* at once, a refresh's after the quiet period, however the two interleave.
ReconcileFollows == []<>(seen = store)
=============================================================================
