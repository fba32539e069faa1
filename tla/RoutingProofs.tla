--------------------------- MODULE RoutingProofs ----------------------------
(***************************************************************************)
(* Proofs about the registry of outbounds, for any tags, balancers,        *)
(* configurations and streams and any number of reloads, about the local   *)
(* TUN of the client and about the geodata the rules are made of.          *)
(***************************************************************************)
EXTENDS OutboundRegistry, TunManager, GeoData, TLAPS

-----------------------------------------------------------------------------
(* The geodata cache. *)

FetchPlaces == {"idle", "head", "remove", "create", "copy", "reread", "rename"}
PubPlaces == {"idle", "print", "load", "store", "notify"}

GeoTypes ==
    /\ made \in Inodes
    /\ dir \in [{"tmp", "target"} -> 0 .. made]
    /\ content \in [Inodes -> SUBSET Chunks]
    /\ fetch \in [Refreshers -> [pc : FetchPlaces, fd : 0 .. made, len : 0 .. FileLen]]
    /\ pub \in [Publishers -> [pc : PubPlaces, print : Nat \X SUBSET Chunks]]
    /\ cache \in [print : Nat \X SUBSET Chunks, geo : Nat \X SUBSET Chunks]

\* The file under the tmp name is newer than the target's, and a refresher that
\* writes has a file.
TmpNewer ==
    /\ dir["tmp"] = NoFile \/ dir["target"] < dir["tmp"]
    /\ \A r \in Refreshers : fetch[r].pc = "copy" => fetch[r].fd # NoFile

\* A fingerprint that was taken now or earlier: the target's inode only gets newer, and
\* while it is the target its content only grows.
Taken(print) ==
    \/ print[1] < dir["target"]
    \/ /\ print[1] = dir["target"]
       /\ print[2] \subseteq (IF dir["target"] = NoFile THEN {} ELSE content[dir["target"]])

PrintsTaken == Taken(cache.print) /\ \A p \in Publishers : Taken(pub[p].print)

GeoInv == GeoTypes /\ TmpNewer /\ PrintsTaken /\ CacheFresh

LEMMA GeoInitInv == GeoInit => GeoInv
  <1> SUFFICES ASSUME GeoInit PROVE GeoInv
    BY Zenon
  <1>1. NoData \in Nat \X SUBSET Chunks /\ 1 \in Inodes
    BY GeoAssumption DEF NoData, NoFile, Inodes
  <1>2. GeoTypes
    BY <1>1, GeoAssumption
    DEF GeoInit, GeoTypes, IdleFetch, IdlePub, FetchPlaces, PubPlaces, NoFile
  <1> QED
    BY <1>2
    DEF GeoInit, GeoInv, TmpNewer, PrintsTaken, Taken, CacheFresh, IdleFetch, IdlePub, NoData, NoFile

\* A step that leaves the target and the cache alone.
LEMMA GeoQuiet ==
    ASSUME GeoInv, GeoTypes', TmpNewer', UNCHANGED <<dir["target"], cache>>,
           dir["target"] # NoFile => content'[dir["target"]] = content[dir["target"]],
           \A p \in Publishers : \/ pub'[p].print = pub[p].print
                                 \/ pub'[p].print \in {Fingerprint, NoData}
    PROVE  GeoInv'
  <1>1. Fingerprint' = Fingerprint /\ Parsed' = Parsed
    BY Zenon DEF Fingerprint, Parsed, ParsesOK
  <1>2. Taken(Fingerprint) /\ Taken(NoData)
    BY DEF GeoInv, GeoTypes, Taken, Fingerprint, NoData, NoFile
  <1>3. \A p \in Publishers : Taken(pub'[p].print)
    BY Zenon, <1>2 DEF GeoInv, PrintsTaken
  <1>4. PrintsTaken'
    BY Zenon, <1>3 DEF GeoInv, PrintsTaken, Taken
  <1> QED  BY Zenon, <1>1, <1>4 DEF GeoInv, CacheFresh

\* A step that makes the target newer: no print taken before is its fingerprint.
LEMMA GeoNewer ==
    ASSUME GeoInv, GeoTypes', TmpNewer', UNCHANGED cache,
           \/ dir["target"] < dir'["target"]
           \/ /\ dir'["target"] = dir["target"] /\ dir["target"] # NoFile
              /\ content[dir["target"]] \subseteq content'[dir["target"]]
              /\ content[dir["target"]] # content'[dir["target"]],
           \A p \in Publishers : pub'[p].print = pub[p].print
    PROVE  GeoInv'
  <1>1. /\ dir["target"] \in Nat /\ dir'["target"] \in Nat
        /\ cache.print[1] \in Nat /\ \A p \in Publishers : pub[p].print[1] \in Nat
        /\ dir'["target"] # NoFile => dir'["target"] \in Inodes
    BY GeoAssumption DEF GeoInv, GeoTypes, Inodes, NoFile
  <1>2. PrintsTaken'
    BY <1>1 DEF GeoInv, PrintsTaken, Taken, NoFile
  <1>3. cache.print # Fingerprint'
    <2>1. Fingerprint' = <<dir'["target"], content'[dir'["target"]]>>
      BY <1>1 DEF Fingerprint, NoFile
    <2>2. Taken(cache.print)
      BY Zenon DEF GeoInv, PrintsTaken
    <2>3. CASE cache.print[1] < dir'["target"]
      BY <1>1, <2>1, <2>3
    <2>4. CASE /\ cache.print[1] = dir["target"] /\ dir'["target"] = dir["target"]
               /\ cache.print[2] # content'[dir["target"]]
      BY <2>1, <2>4
    <2>5. CASE dir["target"] < dir'["target"]
      BY <1>1, <2>2, <2>3, <2>5 DEF Taken
    <2>6. CASE /\ dir'["target"] = dir["target"] /\ dir["target"] # NoFile
               /\ content[dir["target"]] \subseteq content'[dir["target"]]
               /\ content[dir["target"]] # content'[dir["target"]]
      <3>1. \A S : S \subseteq content[dir["target"]] => S # content'[dir["target"]]
        BY Zenon, <2>6
      <3> QED  BY Zenon, <1>1, <2>2, <2>3, <2>4, <2>6, <3>1 DEF Taken
    <2> QED  BY Zenon, <2>5, <2>6
  <1> QED  BY Zenon, <1>2, <1>3 DEF GeoInv, CacheFresh

LEMMA GeoFetch ==
    ASSUME GeoInv, NEW r \in Refreshers, FetchStep(r)
    PROVE  GeoInv'
  <1> USE GeoAssumption
  <1>1. GeoTypes /\ TmpNewer
    BY Zenon DEF GeoInv
  <1>2. CASE HasUpdate(r) \/ RemoveStale(r) \/ Validate(r)
    <2>1. /\ UNCHANGED <<content, made, pub, cache>>
          /\ dir' = dir \/ dir' = [dir EXCEPT !["tmp"] = NoFile]
          /\ \/ \E q \in FetchPlaces \ {"copy"} : fetch' = [fetch EXCEPT ![r].pc = q]
             \/ fetch' = [fetch EXCEPT ![r] = IdleFetch]
      BY Zenon, <1>2 DEF HasUpdate, RemoveStale, Validate, FetchTo, fileVars, FetchPlaces
    <2>2. dir' \in [{"tmp", "target"} -> 0 .. made] /\ UNCHANGED dir["target"]
      BY <1>1, <2>1 DEF GeoTypes, Inodes, NoFile
    <2>3. fetch' \in [Refreshers -> [pc : FetchPlaces, fd : 0 .. made, len : 0 .. FileLen]]
      <3>1. IdleFetch \in [pc : FetchPlaces, fd : 0 .. made, len : 0 .. FileLen]
        BY <1>1 DEF GeoTypes, Inodes, NoFile, IdleFetch, FetchPlaces
      <3>2. CASE fetch' = [fetch EXCEPT ![r] = IdleFetch]
        BY Zenon, <1>1, <3>1, <3>2 DEF GeoTypes
      <3>3. CASE \E q \in FetchPlaces \ {"copy"} : fetch' = [fetch EXCEPT ![r].pc = q]
        BY SMTT(60), <1>1, <3>3 DEF GeoTypes
      <3> QED  BY Zenon, <2>1, <3>2, <3>3
    <2>4. GeoTypes'
      BY Zenon, <1>1, <2>1, <2>2, <2>3 DEF GeoTypes
    <2>5. \A q \in Refreshers : fetch'[q].pc = "copy" => fetch'[q] = fetch[q]
      BY <1>1, <2>1 DEF GeoTypes, IdleFetch
    <2>6. TmpNewer'
      BY Zenon, <1>1, <2>1, <2>2, <2>5 DEF GeoTypes, TmpNewer
    <2> QED  BY Zenon, <2>1, <2>2, <2>4, <2>6, GeoQuiet
  <1>3. CASE CreateTmp(r)
    <2>1. CASE dir["tmp"] # NoFile
      <3>1. /\ content' = [content EXCEPT ![dir["tmp"]] = {}] /\ UNCHANGED <<dir, made, pub, cache>>
            /\ fetch' = [fetch EXCEPT ![r] = [pc |-> "copy", fd |-> dir["tmp"], len |-> 0]]
        BY Zenon, <1>3, <2>1 DEF CreateTmp
      <3>2. GeoTypes'
        <4>1. dir["tmp"] \in 0 .. made /\ dir["tmp"] \in Inodes /\ 0 \in 0 .. FileLen
          BY <1>1, <2>1 DEF GeoTypes, Inodes, NoFile
        <4>2. content' \in [Inodes -> SUBSET Chunks]
          BY Zenon, <1>1, <3>1, <4>1 DEF GeoTypes
        <4>3. fetch' \in [Refreshers -> [pc : FetchPlaces, fd : 0 .. made, len : 0 .. FileLen]]
          BY Zenon, <1>1, <3>1, <4>1 DEF GeoTypes, FetchPlaces
        <4> QED  BY Zenon, <1>1, <3>1, <4>2, <4>3 DEF GeoTypes
      <3>3. TmpNewer'
        BY Zenon, <1>1, <2>1, <3>1 DEF GeoTypes, TmpNewer
      <3>4. dir["target"] # dir["tmp"]
        BY <1>1, <2>1 DEF GeoTypes, TmpNewer
      <3>5. dir["target"] # NoFile => content'[dir["target"]] = content[dir["target"]]
        BY <1>1, <3>1, <3>4 DEF GeoTypes
      <3> QED  BY Zenon, <3>1, <3>2, <3>3, <3>5, GeoQuiet
    <2>2. CASE dir["tmp"] = NoFile
      <3>1. /\ UNCHANGED <<content, pub, cache>> /\ made < MaxInodes /\ made' = made + 1
            /\ dir' = [dir EXCEPT !["tmp"] = made + 1]
            /\ fetch' = [fetch EXCEPT ![r] = [pc |-> "copy", fd |-> made + 1, len |-> 0]]
        BY Zenon, <1>3, <2>2 DEF CreateTmp
      <3>2. /\ made + 1 \in Inodes /\ made + 1 \in 0 .. made' /\ made + 1 # 0
            /\ 0 .. made \subseteq 0 .. made' /\ \A x \in 0 .. made : x < made + 1
        BY <1>1, <3>1 DEF GeoTypes, Inodes
      <3>3. GeoTypes'
        BY <1>1, <3>1, <3>2 DEF GeoTypes, FetchPlaces
      <3>4. TmpNewer'
        BY Zenon, <1>1, <3>1, <3>2 DEF GeoTypes, TmpNewer, NoFile
      <3> QED  BY Zenon, <1>1, <3>1, <3>3, <3>4, GeoQuiet DEF GeoTypes
    <2> QED  BY Zenon, <2>1, <2>2
  <1>4. CASE FetchChunk(r)
    <2>1. CASE /\ fetch[r].len < FileLen /\ fetch' = [fetch EXCEPT ![r].len = @ + 1]
               /\ content' = [content EXCEPT ![fetch[r].fd] = @ \cup {fetch[r].len + 1}]
               /\ UNCHANGED dir
      <3>1. /\ fetch[r].fd \in Inodes /\ fetch[r].len + 1 \in Chunks /\ fetch[r].len + 1 \in 0 .. FileLen
            /\ UNCHANGED <<made, pub, cache>>
        BY <1>1, <1>4, <2>1 DEF FetchChunk, GeoTypes, TmpNewer, Chunks, Inodes, NoFile
      <3>2. GeoTypes'
        BY <1>1, <2>1, <3>1 DEF GeoTypes
      <3>3. TmpNewer'
        BY ZenonT(60), <1>1, <2>1, <3>1 DEF GeoTypes, TmpNewer
      <3>4. /\ dir["target"] # NoFile => dir["target"] \in Inodes
            /\ \A i \in Inodes : content[i] \subseteq content'[i]
        BY <1>1, <2>1 DEF GeoTypes, Inodes, NoFile
      <3> QED
        BY Zenon, <2>1, <3>1, <3>2, <3>3, <3>4, GeoQuiet, GeoNewer
    <2>2. CASE UNCHANGED <<content, dir>> /\ FetchTo(r, "reread")
      <3>1. GeoTypes' /\ TmpNewer'
        BY <1>1, <1>4, <2>2 DEF FetchChunk, FetchTo, GeoTypes, FetchPlaces, TmpNewer
      <3> QED  BY Zenon, <1>4, <2>2, <3>1, GeoQuiet DEF FetchChunk
    <2>3. CASE /\ dir' = [dir EXCEPT !["tmp"] = NoFile] /\ UNCHANGED content
               /\ fetch' = [fetch EXCEPT ![r] = IdleFetch]
      <3>1. GeoTypes' /\ TmpNewer'
        BY <1>1, <1>4, <2>3
        DEF FetchChunk, GeoTypes, FetchPlaces, TmpNewer, IdleFetch, NoFile, Inodes
      <3> QED  BY Zenon, <1>1, <1>4, <2>3, <3>1, GeoQuiet DEF FetchChunk, GeoTypes
    <2> QED  BY Zenon, <1>4, <2>1, <2>2, <2>3 DEF FetchChunk
  <1>5. CASE RenameTmp(r)
    <2>1. CASE dir["tmp"] = NoFile
      <3>1. GeoTypes' /\ TmpNewer'
        BY <1>1, <1>5, <2>1
        DEF RenameTmp, GeoTypes, FetchPlaces, TmpNewer, IdleFetch, NoFile, Inodes
      <3> QED  BY Zenon, <1>5, <2>1, <3>1, GeoQuiet DEF RenameTmp
    <2>2. CASE dir["tmp"] # NoFile
      <3>1. /\ dir' = [tmp |-> NoFile, target |-> dir["tmp"]] /\ UNCHANGED <<content, made, cache>>
            /\ fetch' = [fetch EXCEPT ![r] = IdleFetch]
            /\ pub' = [pub EXCEPT ![r].pc = "print"] /\ r \in Publishers
        BY Zenon, <1>5, <2>2 DEF RenameTmp, Publishers
      <3>2. dir'["tmp"] = NoFile /\ dir'["target"] = dir["tmp"]
        BY Zenon, <3>1
      <3>3. GeoTypes'
        <4>1. dir' \in [{"tmp", "target"} -> 0 .. made]
          BY <1>1, <3>1 DEF GeoTypes, NoFile, Inodes
        <4>2. fetch' \in [Refreshers -> [pc : FetchPlaces, fd : 0 .. made, len : 0 .. FileLen]]
          BY <1>1, <3>1 DEF GeoTypes, FetchPlaces, IdleFetch, NoFile, Inodes
        <4> QED  BY SMTT(60), <1>1, <3>1, <4>1, <4>2 DEF GeoTypes, PubPlaces
      <3>4. TmpNewer'
        BY Zenon, <1>1, <3>1, <3>2 DEF GeoTypes, TmpNewer, IdleFetch
      <3>5. \A p \in Publishers : pub'[p].print = pub[p].print
        BY Zenon, <1>1, <3>1 DEF GeoTypes
      <3>6. dir["target"] < dir'["target"]
        BY Zenon, <1>1, <2>2, <3>2 DEF TmpNewer
      <3> QED  BY Zenon, <3>1, <3>3, <3>4, <3>5, <3>6, GeoNewer
    <2> QED  BY Zenon, <2>1, <2>2
  <1> QED  BY Zenon, <1>2, <1>3, <1>4, <1>5 DEF FetchStep

LEMMA GeoPublish ==
    ASSUME GeoInv, NEW p \in Publishers, PublishStep(p)
    PROVE  GeoInv'
  <1> USE GeoAssumption
  <1>1. GeoTypes /\ TmpNewer
    BY Zenon DEF GeoInv
  <1>2. UNCHANGED <<dir, content, made, fetch>>
    BY Zenon DEF PublishStep, TakePrint, LoadCached, Publish, Trigger, fileVars
  <1>3. /\ Fingerprint \in Nat \X SUBSET Chunks /\ Parsed \in Nat \X SUBSET Chunks
        /\ NoData \in Nat \X SUBSET Chunks
    BY <1>1 DEF GeoTypes, Fingerprint, Parsed, ParsesOK, NoData, NoFile, Inodes
  <1> DEFINE Pubs == [Publishers -> [pc : PubPlaces, print : Nat \X SUBSET Chunks]]
             Caches == [print : Nat \X SUBSET Chunks, geo : Nat \X SUBSET Chunks]
  <1>types. ASSUME pub' \in Pubs, cache' \in Caches PROVE GeoTypes' /\ TmpNewer'
    BY Zenon, <1>1, <1>2, <1>types DEF GeoTypes, TmpNewer
  <1>old. pub \in Pubs /\ cache \in Caches
    BY Zenon, <1>1 DEF GeoTypes
  <1>4. CASE TakePrint(p)
    <2>1. pub' = [pub EXCEPT ![p].pc = "load", ![p].print = Fingerprint] /\ UNCHANGED cache
      BY Zenon, <1>4 DEF TakePrint
    <2>2. GeoTypes' /\ TmpNewer'
      BY <1>3, <1>types, <1>old, <2>1, ZenonT(60) DEF PubPlaces
    <2>3. \A q \in Publishers : \/ pub'[q].print = pub[q].print
                                \/ pub'[q].print \in {Fingerprint, NoData}
      BY Zenon, <1>old, <2>1
    <2> QED  BY Zenon, <1>2, <2>1, <2>2, <2>3, GeoQuiet
  <1>5. CASE LoadCached(p)
    <2>1. /\ pub' = [pub EXCEPT ![p].pc = "store"]
          /\ cache' = [print |-> pub[p].print,
                       geo |-> IF pub[p].print = cache.print /\ cache.print # NoData
                                 THEN cache.geo ELSE Parsed]
      BY Zenon, <1>5 DEF LoadCached
    <2>2. GeoTypes' /\ TmpNewer'
      BY <1>3, <1>types, <1>old, <2>1 DEF PubPlaces
    <2>3. \A q \in Publishers : pub'[q].print = pub[q].print
      BY Zenon, <1>old, <2>1
    <2>4. PrintsTaken'
      BY Zenon, <1>2, <2>1, <2>3 DEF GeoInv, PrintsTaken, Taken
    <2>5. Fingerprint' = Fingerprint /\ Parsed' = Parsed
      BY Zenon, <1>2 DEF Fingerprint, Parsed, ParsesOK
    <2>6. CacheFresh'
      BY Zenon, <2>1, <2>5 DEF GeoInv, CacheFresh
    <2> QED  BY Zenon, <2>2, <2>4, <2>6 DEF GeoInv
  <1>6. CASE Publish(p)
    <2>1. /\ UNCHANGED cache
          /\ \E q \in {"notify", "idle"} : pub' = [pub EXCEPT ![p] = [pc |-> q, print |-> NoData]]
      BY Zenon, <1>6 DEF Publish, IdlePub
    <2>2. GeoTypes' /\ TmpNewer'
      BY <1>3, <1>types, <1>old, <2>1 DEF PubPlaces
    <2>3. \A q \in Publishers : \/ pub'[q].print = pub[q].print
                                \/ pub'[q].print \in {Fingerprint, NoData}
      BY <1>old, <2>1
    <2> QED  BY Zenon, <1>2, <2>1, <2>2, <2>3, GeoQuiet
  <1>7. CASE Trigger(p)
    <2>1. pub' = [pub EXCEPT ![p].pc = "idle"] /\ UNCHANGED cache
      BY Zenon, <1>7 DEF Trigger
    <2>2. GeoTypes' /\ TmpNewer'
      BY ZenonT(60), <1>types, <1>old, <2>1 DEF PubPlaces
    <2>3. \A q \in Publishers : pub'[q].print = pub[q].print
      BY Zenon, <1>old, <2>1
    <2> QED  BY Zenon, <1>2, <2>1, <2>2, <2>3, GeoQuiet
  <1> QED  BY Zenon, <1>4, <1>5, <1>6, <1>7 DEF PublishStep

LEMMA GeoStep == GeoInv /\ [GeoNext]_geoVars => GeoInv'
  <1> SUFFICES ASSUME GeoInv, [GeoNext]_geoVars PROVE GeoInv'
    BY Zenon
  <1>1. GeoTypes /\ TmpNewer
    BY Zenon DEF GeoInv
  <1>2. CASE Tick \/ Hup \/ ReconcileStep \/ UNCHANGED geoVars
    <2>1. /\ UNCHANGED <<dir, content, made, cache>>
          /\ \/ UNCHANGED fetch
             \/ \E r \in Refreshers : fetch' = [fetch EXCEPT ![r].pc = "head"]
          /\ \/ UNCHANGED pub
             \/ \E p \in Publishers, q \in PubPlaces : pub' = [pub EXCEPT ![p].pc = q]
      BY Zenon, <1>2 DEF Tick, Hup, ReconcileStep, HandlerReads, QuietPeriodEnds, Reconciled, geoVars,
                  fileVars, FetchTo, Refreshers, Publishers, PubPlaces
    <2>2. fetch' \in [Refreshers -> [pc : FetchPlaces, fd : 0 .. made, len : 0 .. FileLen]]
      BY <1>1, <2>1 DEF GeoTypes, FetchPlaces
    <2>3. pub' \in [Publishers -> [pc : PubPlaces, print : Nat \X SUBSET Chunks]]
      BY <1>1, <2>1 DEF GeoTypes
    <2>4. GeoTypes'
      BY Zenon, <1>1, <2>1, <2>2, <2>3 DEF GeoTypes
    <2>5. \A q \in Refreshers : fetch'[q].pc = "copy" => fetch'[q] = fetch[q]
      BY <1>1, <2>1 DEF GeoTypes
    <2>6. TmpNewer'
      BY Zenon, <1>1, <2>1, <2>5 DEF TmpNewer
    <2>7. \A q \in Publishers : pub'[q].print = pub[q].print
      BY <1>1, <2>1 DEF GeoTypes
    <2> QED  BY Zenon, <2>1, <2>4, <2>6, <2>7, GeoQuiet
  <1> QED  BY Zenon, <1>2, GeoFetch, GeoPublish DEF GeoNext

\* For any length of the files and any number of refreshes and SIGHUPs, and writers that
\* share a tmp name: the cached data is never served for files it was not parsed from.
THEOREM CacheIsFresh == GeoSpec => []CacheFresh
  <1>1. GeoInv => CacheFresh
    BY Zenon DEF GeoInv
  <1> QED  BY <1>1, GeoInitInv, GeoStep, PTL DEF GeoSpec

-----------------------------------------------------------------------------
(* The local TUN. *)

TunPlaces == {"gone", "prepare", "open", "stage", "route", "rule", "dns", "snapshot",
              "frontend", "hooks", "running", "close", "finish", "after"}

\* At most the generation m.cancel belongs to is alive, and none once its answer was taken.
TunOwner ==
    /\ cancel \in TunGens \cup {0}
    /\ doneNil => cancel # 0
    /\ \A g \in TunGens : gens[g].pc # "gone" => g = cancel /\ ~doneNil

TunRecords == [pc : TunPlaces, cfg : TunConfigs \cup {"off"}, stop : BOOLEAN,
               err : BOOLEAN, armed : BOOLEAN]

\* What a supervisor knows where it stands.
TunGenInv ==
    /\ gens \in [TunGens -> TunRecords]
    /\ \A g \in TunGens :
         /\ gens[g].armed => FC(g)
         /\ gens[g].pc \in {"close", "finish"} => gens[g].stop \/ gens[g].err
         /\ gens[g].pc = "frontend" => saved = "original"

TunDNS == /\ uci \in {"original", "ours"} /\ saved \in {"none", "original"}
          /\ uci = "ours" => saved = "original"

TunInv == TunOwner /\ TunGenInv /\ TunDNS /\ KillswitchKept

TunWant == want \in TunConfigs \cup {"off", ""}

LEMMA WantStep == TunWant /\ [TunNext]_tunVars => TunWant'
  <1> SUFFICES ASSUME TunWant, [TunNext]_tunVars PROVE TunWant'
    BY Zenon
  <1>1. want' = want \/ want' = "" \/ \E c \in TunConfigs \cup {"off"} : want' = c
    BY Zenon DEF TunNext, tunVars, Reconcile, CloseManager, StopAnswered, StopTimesOut, RetryCleanup,
       StartGeneration, TunCrash, ChinaDies, mgrVars, Prepare, OpenDevice, SetupStep, StageSets,
       AddRoute, AddRule, StartChinaDNS, SaveSnapshot, PointDNSMasq, ActivateHooks,
       SetupRefused, Rollback, RuntimeStopped, RuntimeFails, CloseDevice, FinishRoutes,
       TryAgain, FinalCleanup
  <1> QED  BY Zenon, <1>1 DEF TunWant

LEMMA GoneType == Gone0 \in TunRecords
  BY Zenon DEF Gone0, TunPlaces, TunRecords

\* The records of the supervisors after a step of one of them.
LEMMA RecordSet ==
    ASSUME gens \in [TunGens -> TunRecords], NEW g \in TunGens, NEW q \in TunPlaces,
           NEW b \in BOOLEAN
    PROVE  /\ [gens EXCEPT ![g].pc = q, ![g].armed = b] \in [TunGens -> TunRecords]
           /\ [gens EXCEPT ![g].pc = q, ![g].err = b] \in [TunGens -> TunRecords]
  BY ZenonT(60) DEF TunRecords

LEMMA TunInitInv == TunInit => TunInv
  <1> SUFFICES ASSUME TunInit PROVE TunInv
    BY Zenon
  <1>1. \A g \in TunGens : gens[g] = Gone0
    BY Zenon DEF TunInit
  <1>2. TunGenInv
    BY Zenon, <1>1, GoneType DEF TunInit, TunGenInv, Gone0
  <1> QED  BY Zenon, <1>1, <1>2 DEF TunInit, TunInv, TunOwner, TunDNS, KillswitchKept, Gone0

\* However a cleanup of the host's state ends, dnsmasq's own servers are kept.
LEMMA CleanupKeepsDNS ==
    ASSUME TunDNS, NEW ok \in BOOLEAN, EnterFailClosed(ok) \/ Cleanup(ok)
    PROVE  TunDNS' /\ (EnterFailClosed(ok) => hook' = hook \/ hook' = "killswitch")
  BY Zenon DEF TunDNS, EnterFailClosed, Cleanup, CleanupOk, CleanupFails, FailClosedOk,
         FailClosedFails, DNSCleaned, DNSCleanupFails, Restored, RestoreFails, dnsVars

LEMMA TunStep == TunInv /\ TunWant /\ [TunNext]_tunVars => TunInv'
  <1> SUFFICES ASSUME TunInv, TunWant, [TunNext]_tunVars PROVE TunInv'
    BY Zenon
  <1> USE TunAssumption DEF TunInv, TunOwner, TunGenInv, KillswitchKept, FC, TunRecords
  <1>1. ASSUME NEW c \in TunConfigs \cup {"off"}, Reconcile(c) PROVE TunInv'
    <2>1. /\ UNCHANGED <<cancel, doneNil, hook, uci, saved>>
          /\ gens' = gens \/ (cancel # 0 /\ gens' = [gens EXCEPT ![cancel].stop = TRUE])
      BY Zenon, <1>1 DEF Reconcile, hostVars, dnsVars
    <2>2. CASE gens' = gens
      BY Zenon, <2>1, <2>2 DEF TunDNS
    <2>3. CASE cancel # 0 /\ gens' = [gens EXCEPT ![cancel].stop = TRUE]
      <3>0. cancel \in TunGens /\ gens \in [TunGens -> TunRecords] /\ gens[cancel] \in TunRecords
        BY Zenon, <2>3
      <3>1. gens' \in [TunGens -> TunRecords]
        <4>1. [gens[cancel] EXCEPT !.stop = TRUE] \in TunRecords
          BY Zenon, <3>0
        <4> HIDE DEF TunRecords
        <4> QED  BY Zenon, <2>3, <3>0, <4>1
      <3>2. \A g \in TunGens : /\ gens'[g].pc = gens[g].pc /\ gens'[g].armed = gens[g].armed
                               /\ gens'[g].cfg = gens[g].cfg /\ gens'[g].err = gens[g].err
                               /\ gens[g].stop => gens'[g].stop
        BY <2>3
      <3>3. TunOwner'
        BY Zenon, <2>1, <3>2
      <3>4. TunGenInv'
        BY <2>1, <3>1, <3>2
      <3> QED  BY Zenon, <2>1, <3>2, <3>3, <3>4 DEF TunDNS
    <2> QED  BY Zenon, <2>1, <2>2, <2>3
  <1>2. CASE CloseManager
    BY Zenon, <1>1, <1>2 DEF CloseManager
  <1>3. CASE StopAnswered
    <2>1. /\ cancel \in TunGens /\ gens[cancel].pc = "gone" /\ ~doneNil
          /\ cancel' \in {cancel, 0}
          /\ doneNil' => cancel' # 0
          /\ gens' = [gens EXCEPT ![cancel] = Gone0]
          /\ UNCHANGED <<hook, uci, saved>>
      BY Zenon, <1>3 DEF StopAnswered, hostVars, dnsVars
    <2>2. \A g \in TunGens : gens'[g] = Gone0 \/ (g # cancel /\ gens'[g] = gens[g])
      BY Zenon, <2>1
    <2>3. TunOwner'
      BY Zenon, <2>1, <2>2 DEF Gone0
    <2>4. TunGenInv'
      BY Zenon, <2>1, <2>2, GoneType DEF Gone0
    <2> QED  BY Zenon, <2>1, <2>2, <2>3, <2>4 DEF TunDNS, Gone0
  <1>4. CASE StopTimesOut
    BY Zenon, <1>4 DEF StopTimesOut, hostVars, dnsVars, TunDNS
  <1>5. CASE RetryCleanup
    BY Zenon, <1>5, CleanupKeepsDNS DEF RetryCleanup
  <1>6. CASE StartGeneration
    <2>1. UNCHANGED <<hook, uci, saved, doneNil>> /\ cancel = 0 /\ ~doneNil
      BY Zenon, <1>6 DEF StartGeneration, hostVars, dnsVars
    <2>2. \A g \in TunGens : gens[g].pc = "gone"
      BY Zenon, <2>1
    <2>3. CASE UNCHANGED <<cancel, gens>>
      BY Zenon, <2>1, <2>3 DEF TunDNS
    <2>4. CASE want # "off"
      <3>1. PICK g \in TunGens :
               /\ cancel' = g
               /\ gens' = [gens EXCEPT ![g] = [Gone0 EXCEPT !.pc = "prepare", !.cfg = want]]
        BY Zenon, <1>6, <2>4 DEF StartGeneration
      <3>2. want \in TunConfigs
        BY Zenon, <1>6, <2>4 DEF StartGeneration, TunWant
      <3>3. /\ gens'[g] = [pc |-> "prepare", cfg |-> want, stop |-> FALSE, err |-> FALSE,
                           armed |-> FALSE]
            /\ \A h \in TunGens \ {g} : gens'[h] = gens[h]
        BY Zenon, <3>1 DEF Gone0
      <3>4. TunGenInv'
        <4>1. gens'[g] \in TunRecords
          BY <3>2, <3>3 DEF TunPlaces
        <4>2. gens' \in [TunGens -> TunRecords]
          BY Zenon, <3>1, <3>3, <4>1
        <4> QED  BY <2>1, <2>2, <3>3, <4>2
      <3>5. TunOwner'
        BY Zenon, <2>1, <2>2, <3>1, <3>3
      <3> QED  BY <2>1, <2>2, <3>3, <3>4, <3>5 DEF TunDNS
    <2> QED  BY Zenon, <1>6, <2>3, <2>4 DEF StartGeneration
  <1>7. CASE TunCrash
    BY Zenon, <1>7 DEF TunCrash, dnsVars, TunDNS, Gone0, TunPlaces
  <1>8. CASE ChinaDies
    BY Zenon, <1>8 DEF ChinaDies, mgrVars, TunDNS
  <1>9. ASSUME NEW g \in TunGens, Prepare(g) PROVE TunInv'
    <2>1. PICK ok \in BOOLEAN :
             /\ IF FC(g) THEN EnterFailClosed(ok) ELSE Cleanup(ok)
             /\ gens' = [gens EXCEPT ![g].pc = IF ok THEN "open" ELSE "after",
                                     ![g].armed = @ \/ (ok /\ FC(g))]
      BY Zenon, <1>9 DEF Prepare
    <2>2. /\ TunDNS'
          /\ FC(g) => hook' = hook \/ hook' = "killswitch"
          /\ FC(g) /\ ok => hook' = "killswitch"
      BY Zenon, <2>1, CleanupKeepsDNS DEF EnterFailClosed, FailClosedOk
    <2>3. /\ gens[g].pc = "prepare" /\ g = cancel /\ ~doneNil
          /\ UNCHANGED <<cancel, doneNil>>
      BY Zenon, <1>9 DEF Prepare, mgrVars
    <2>4. /\ gens'[g].pc \in {"open", "after"} /\ UNCHANGED <<gens[g].cfg, gens[g].stop, gens[g].err>>
          /\ gens'[g].armed \in BOOLEAN
          /\ gens'[g].armed => gens[g].armed \/ (ok /\ FC(g))
          /\ \A h \in TunGens \ {g} : gens'[h] = gens[h]
      BY ZenonT(60), <2>1
    <2>5. TunGenInv'
      <3>1. gens' \in [TunGens -> TunRecords]
        BY Zenon, <2>1, RecordSet DEF TunPlaces, TunRecords
      <3> QED  BY <2>3, <2>4, <3>1
    <2>6. KillswitchKept'
      BY <2>2, <2>3, <2>4
    <2> QED  BY <2>2, <2>3, <2>4, <2>5, <2>6
  <1>10. ASSUME NEW g \in TunGens, OpenDevice(g) PROVE TunInv'
    BY <1>10 DEF OpenDevice, mgrVars, dnsVars, TunDNS, TunPlaces, Gen
  <1>11. ASSUME NEW g \in TunGens, SetupStep(g) PROVE TunInv'
    BY <1>11 DEF SetupStep, StageSets, AddRoute, AddRule, StartChinaDNS, SaveSnapshot,
                 PointDNSMasq, ActivateHooks, mgrVars, dnsVars, TunDNS, TunPlaces, Gen
  <1>12. ASSUME NEW g \in TunGens, Rollback(g) PROVE TunInv'
    <2>1. TunDNS' /\ (FC(g) => hook' = hook \/ hook' = "killswitch")
      BY Zenon, <1>12, CleanupKeepsDNS DEF Rollback
    <2>2. /\ gens[g].pc # "gone" /\ UNCHANGED <<cancel, doneNil>>
          /\ gens' = [gens EXCEPT ![g].pc = "close", ![g].err = TRUE]
      BY Zenon, <1>12 DEF Rollback, InSetup, mgrVars
    <2>3. gens' \in [TunGens -> TunRecords]
      BY Zenon, <2>2, RecordSet DEF TunPlaces
    <2>4. /\ gens'[g].pc = "close" /\ gens'[g].err /\ gens'[g].cfg = gens[g].cfg
          /\ gens'[g].stop = gens[g].stop /\ gens'[g].armed = gens[g].armed
          /\ \A h \in TunGens \ {g} : gens'[h] = gens[h]
      BY ZenonT(60), <2>2 DEF TunRecords
    <2>5. TunGenInv'
      BY <2>1, <2>2, <2>3, <2>4
    <2>6. KillswitchKept'
      BY <2>1, <2>2, <2>4
    <2> QED  BY <2>1, <2>2, <2>4, <2>5, <2>6
  <1>13. ASSUME NEW g \in TunGens,
                SetupRefused(g) \/ RuntimeStopped(g) \/ RuntimeFails(g) \/ TryAgain(g)
         PROVE  TunInv'
    BY <1>13 DEF SetupRefused, RuntimeStopped, RuntimeFails, TryAgain, hostVars, mgrVars,
                 dnsVars, TunDNS, TunPlaces, Gen
  <1>14. ASSUME NEW g \in TunGens, CloseDevice(g) PROVE TunInv'
    BY <1>14 DEF CloseDevice, mgrVars, dnsVars, TunDNS, TunPlaces, Gen
  <1>15. ASSUME NEW g \in TunGens, FinishRoutes(g) PROVE TunInv'
    BY <1>15, CleanupKeepsDNS DEF FinishRoutes, mgrVars, TunPlaces, Gen
  <1>16. ASSUME NEW g \in TunGens, FinalCleanup(g) PROVE TunInv'
    <2>1. PICK ok \in BOOLEAN :
             Cleanup(ok) /\ gens' = [gens EXCEPT ![g].pc = "gone", ![g].err = ~ok]
      BY Zenon, <1>16 DEF FinalCleanup
    <2>2. TunDNS' /\ gens[g].pc # "gone" /\ UNCHANGED <<cancel, doneNil>>
      BY Zenon, <1>16, <2>1, CleanupKeepsDNS DEF FinalCleanup, mgrVars
    <2>3. gens' \in [TunGens -> TunRecords]
      BY Zenon, <2>1, RecordSet DEF TunPlaces
    <2>4. /\ gens'[g].pc = "gone" /\ gens'[g].cfg = gens[g].cfg /\ gens'[g].armed = gens[g].armed
          /\ \A h \in TunGens \ {g} : gens'[h] = gens[h]
      BY ZenonT(60), <2>1 DEF TunRecords
    <2>5. TunGenInv'
      BY <2>2, <2>3, <2>4
    <2> QED  BY <2>2, <2>4, <2>5
  <1>17. CASE UNCHANGED tunVars
    BY Zenon, <1>17 DEF tunVars, TunDNS
  <1> QED
    BY Zenon, <1>1, <1>2, <1>3, <1>4, <1>5, <1>6, <1>7, <1>8, <1>9, <1>10, <1>11, <1>12, <1>13,
       <1>14, <1>15, <1>16, <1>17 DEF TunNext

-----------------------------------------------------------------------------
(* The registry. *)

\* Which leases a stream has at each place of the code.
PlaceInv ==
    \A s \in Streams :
        /\ outer[s] = None <=> pc[s] = "idle"
        /\ pc[s] \in {"idle", "leased", "pick", "release"} => inner[s] = None
        /\ pc[s] \in {"check", "drop"} => inner[s] # None

BaseInv == TypeOK /\ PlaceInv

\* The disjuncts of Next.
LEMMA NextCases ==
    ASSUME TypeOK, [Next]_vars
    PROVE  \/ \E c \in Configs : Reload(c[1], c[2])
           \/ Close
           \/ \E d \in Tracked : Retire(d) \/ CloseDialer(d)
           \/ \E s \in Streams, d \in Tracked : pc[s] = "idle" /\ d \in byTag /\ Lease(s, d)
           \/ \E s \in Streams : StreamStep(s)
           \/ UNCHANGED vars
  BY Zenon DEF Next, Resolve, ResolveExact, TypeOK

\* The members of a balancer are dialers of the same generation.
LEMMA MembersTracked ==
    ASSUME NEW d \in Tracked, IsBalancer(d)
    PROVE  Members(d) \subseteq Tracked
  BY RegistryAssumption DEF Members, Tracked, IsBalancer, Tag

\* Every step keeps the types and the places.
LEMMA BaseStep ==
    ASSUME BaseInv, [Next]_vars
    PROVE  BaseInv'
  <1> USE RegistryAssumption
      DEF BaseInv, TypeOK, PlaceInv, Places, Goto, Acquire, regVars, dialerVars
  <1>1. ASSUME NEW c \in Configs, Reload(c[1], c[2]) PROVE BaseInv'
    <2>1. c[1] \in SUBSET Tags /\ c[2] \in Tags
      OBVIOUS
    <2>2. gen + 1 \in 0..MaxGen
      BY <1>1 DEF Reload
    <2>3. {<<gen + 1, t>> : t \in c[1]} \subseteq Tracked
      BY <2>1, <2>2 DEF Tracked
    <2> QED  BY Zenon, <1>1, <2>1, <2>2, <2>3 DEF Reload
  <1>2. CASE Close
    BY Zenon, <1>2 DEF Close
  <1>3. ASSUME NEW d \in Tracked, Retire(d) PROVE BaseInv'
    BY <1>3 DEF Retire, MarkClosed
  <1>4. ASSUME NEW d \in Tracked, CloseDialer(d) PROVE BaseInv'
    BY Zenon, <1>4 DEF CloseDialer
  <1>5. ASSUME NEW s \in Streams, NEW d \in Tracked, pc[s] = "idle", d \in byTag, Lease(s, d) PROVE BaseInv'
    BY <1>5 DEF Lease, Tracked
  <1>6. ASSUME NEW s \in Streams PROVE StreamStep(s) => BaseInv'
    <2>0. ASSUME NEW d \in Tracked, Release(d)
          PROVE  active' \in [Tracked -> Nat] /\ closed' \subseteq Tracked /\ closing' \subseteq closed'
      <3>1. active' \in [Tracked -> Nat]
        BY <2>0 DEF Release
      <3>2. closed' \subseteq Tracked /\ closing' \subseteq closed'
        BY <2>0 DEF Release, MarkClosed
      <3> QED  BY Zenon, <3>1, <3>2
    <2>1. CASE DialLeased(s)
      <3>1. outer[s] \in Tracked
        BY Zenon, <2>1 DEF DialLeased
      <3>2. (IF IsBalancer(outer[s]) THEN Members(outer[s]) ELSE {}) \subseteq Tracked
        BY Zenon, <3>1, MembersTracked
      <3>3. todo' \in [Streams -> SUBSET Tracked]
        BY Zenon, <2>1, <3>2 DEF DialLeased
      <3> QED  BY Zenon, <2>1, <3>3 DEF DialLeased
    <2>2. ASSUME NEW m \in Tracked, PickMember(s, m) PROVE BaseInv'
      BY <2>2 DEF PickMember, Tracked
    <2>3. CASE CheckMember(s)
      BY Zenon, <2>3 DEF CheckMember
    <2>4. CASE AllFailed(s)
      BY Zenon, <2>4 DEF AllFailed
    <2>5. CASE Ensure(s)
      BY Zenon, <2>5 DEF Ensure
    <2>6. CASE DialFailed(s)
      BY Zenon, <2>6 DEF DialFailed
    <2>7. CASE DialOk(s)
      BY Zenon, <2>7 DEF DialOk
    <2>8. CASE NextMember(s)
      <3>1. inner[s] \in Tracked /\ Release(inner[s])
        BY Zenon, <2>8 DEF NextMember, DropInner
      <3> QED  BY <2>8, <3>1, <2>0 DEF NextMember, DropInner
    <2>9. CASE EndStream(s)
      <3>1. CASE inner[s] # None
        <4>1. inner[s] \in Tracked /\ Release(inner[s])
          BY Zenon, <2>9, <3>1 DEF EndStream, DropInner
        <4> QED  BY <2>9, <3>1, <4>1, <2>0 DEF EndStream, DropInner
      <3>2. CASE inner[s] = None
        BY ZenonT(60), <2>9, <3>2 DEF EndStream
      <3> QED  BY Zenon, <3>1, <3>2
    <2>10. CASE ReleaseLease(s)
      <3>1. outer[s] \in Tracked /\ Release(outer[s])
        BY Zenon, <2>10 DEF ReleaseLease
      <3> QED  BY Zenon, <2>10, <3>1, <2>0 DEF ReleaseLease
    <2> QED  BY Zenon, <2>1, <2>2, <2>3, <2>4, <2>5, <2>6, <2>7, <2>8, <2>9, <2>10 DEF StreamStep
  <1>7. CASE UNCHANGED vars
    BY Zenon, <1>7 DEF vars
  <1> QED  BY Zenon, <1>1, <1>2, <1>3, <1>4, <1>5, <1>6, <1>7, NextCases

-----------------------------------------------------------------------------
(* Counting leases. *)

INSTANCE Counting

\* The leases stream s has on d.
LeasesOf(s, d) ==
    (IF outer[s] = d THEN 1 ELSE 0) + (IF inner[s] = d THEN 1 ELSE 0)

\* When only s moves, the count survives if active accounts for exactly the
\* leases s took or gave back.
LEMMA LeaseMove ==
    ASSUME BaseInv, BaseInv', LeaseCount, NEW s \in Streams,
           \A r \in Streams \ {s} : outer'[r] = outer[r] /\ inner'[r] = inner[r],
           \A d \in Tracked : active'[d] - LeasesOf(s, d)' = active[d] - LeasesOf(s, d)
    PROVE  LeaseCount'
  <1> SUFFICES ASSUME NEW d \in Tracked
               PROVE  active'[d] = Cardinality(OuterHolders(d)') + Cardinality(InnerHolders(d)')
    BY Zenon DEF LeaseCount
  <1> DEFINE O == OuterHolders(d)
             P == OuterHolders(d)'
             I == InnerHolders(d)
             J == InnerHolders(d)'
  <1>1. /\ O \in SUBSET Streams /\ P \in SUBSET Streams
        /\ \A r \in Streams \ {s} : r \in O <=> r \in P
    BY Zenon DEF OuterHolders
  <1>2. /\ I \in SUBSET Streams /\ J \in SUBSET Streams
        /\ \A r \in Streams \ {s} : r \in I <=> r \in J
    BY Zenon DEF InnerHolders
  <1>3. /\ LeasesOf(s, d) = (IF s \in O THEN 1 ELSE 0) + (IF s \in I THEN 1 ELSE 0)
        /\ LeasesOf(s, d)' = (IF s \in P THEN 1 ELSE 0) + (IF s \in J THEN 1 ELSE 0)
    BY Zenon DEF LeasesOf, OuterHolders, InnerHolders
  <1>4. /\ active[d] \in Int /\ active'[d] \in Int
        /\ active[d] = Cardinality(O) + Cardinality(I)
        /\ active'[d] - LeasesOf(s, d)' = active[d] - LeasesOf(s, d)
    BY DEF BaseInv, TypeOK, LeaseCount
  <1>5. /\ Cardinality(O) \in Nat /\ Cardinality(P) \in Nat
        /\ (s \in O <=> s \in P) => Cardinality(P) = Cardinality(O)
        /\ s \notin O /\ s \in P => Cardinality(P) = Cardinality(O) + 1
        /\ s \in O /\ s \notin P => Cardinality(P) = Cardinality(O) - 1
    BY <1>1, CountOne, RegistryAssumption
  <1>6. /\ Cardinality(I) \in Nat /\ Cardinality(J) \in Nat
        /\ (s \in I <=> s \in J) => Cardinality(J) = Cardinality(I)
        /\ s \notin I /\ s \in J => Cardinality(J) = Cardinality(I) + 1
        /\ s \in I /\ s \notin J => Cardinality(J) = Cardinality(I) - 1
    BY <1>2, CountOne, RegistryAssumption
  <1> HIDE DEF O, P, I, J
  <1>7. active'[d] = Cardinality(P) + Cardinality(J)
    <2>1. CASE s \in O /\ s \in P
      BY SMTT(60), <1>3, <1>4, <1>5, <1>6, <2>1
    <2>2. CASE s \in O /\ s \notin P
      BY SMTT(60), <1>3, <1>4, <1>5, <1>6, <2>2
    <2>3. CASE s \notin O /\ s \in P
      BY SMTT(60), <1>3, <1>4, <1>5, <1>6, <2>3
    <2>4. CASE s \notin O /\ s \notin P
      BY <1>3, <1>4, <1>5, <1>6, <2>4
    <2> QED  BY ZenonT(60), <2>1, <2>2, <2>3, <2>4
  <1> QED  BY Zenon, <1>7 DEF P, J

\* A leased dialer has a positive count.
Held ==
    \A s \in Streams : /\ outer[s] # None => active[outer[s]] > 0
                       /\ inner[s] # None => active[inner[s]] > 0

LEMMA LeasedIsHeld == TypeOK /\ LeaseCount => Held
  <1> SUFFICES ASSUME TypeOK, LeaseCount, NEW s \in Streams
               PROVE  /\ outer[s] # None => active[outer[s]] > 0
                      /\ inner[s] # None => active[inner[s]] > 0
    BY Zenon DEF Held
  <1>0. ASSUME NEW d \in Tracked
        PROVE  /\ Cardinality(OuterHolders(d)) \in Nat
               /\ Cardinality(InnerHolders(d)) \in Nat
    <2>1. OuterHolders(d) \in SUBSET Streams /\ InnerHolders(d) \in SUBSET Streams
      BY Zenon DEF OuterHolders, InnerHolders
    <2> QED  BY Zenon, <2>1, RegistryAssumption, FS_Subset, FS_CardinalityType
  <1>1. ASSUME outer[s] # None PROVE active[outer[s]] > 0
    <2>1. outer[s] \in Tracked
      BY Zenon, <1>1 DEF TypeOK
    <2>2. /\ OuterHolders(outer[s]) \in SUBSET Streams /\ s \in OuterHolders(outer[s])
      BY Zenon DEF OuterHolders
    <2>3. Cardinality(OuterHolders(outer[s])) > 0
      BY Zenon, <2>2, CountPositive, RegistryAssumption
    <2> QED  BY <2>1, <2>3, <1>0 DEF LeaseCount
  <1>2. ASSUME inner[s] # None PROVE active[inner[s]] > 0
    <2>1. inner[s] \in Tracked
      BY ZenonT(60), <1>2 DEF TypeOK
    <2>2. /\ InnerHolders(inner[s]) \in SUBSET Streams /\ s \in InnerHolders(inner[s])
      BY Zenon DEF InnerHolders
    <2>3. Cardinality(InnerHolders(inner[s])) > 0
      BY Zenon, <2>2, CountPositive, RegistryAssumption
    <2> QED  BY <2>1, <2>3, <1>0 DEF LeaseCount
  <1> QED  BY Zenon, <1>1, <1>2

\* The same in the next state.
LEMMA LeasedIsHeldNext ==
    ASSUME TypeOK', LeaseCount' PROVE Held'
  BY LeasedIsHeld, PTL

\* Every step keeps the lease count.
LEMMA LeaseStep ==
    ASSUME BaseInv, LeaseCount, [Next]_vars
    PROVE  LeaseCount'
  <1>0. BaseInv' /\ Held
    BY Zenon, BaseStep, LeasedIsHeld DEF BaseInv
  <1>none. None \notin Tracked
    BY Zenon, RegistryAssumption DEF Tracked
  <1> USE RegistryAssumption
      DEF BaseInv, TypeOK, PlaceInv, Goto, Acquire, LeasesOf, regVars, dialerVars
  <1>1. ASSUME NEW c \in Configs, Reload(c[1], c[2]) PROVE LeaseCount'
    BY <1>1 DEF Reload, LeaseCount, OuterHolders, InnerHolders
  <1>2. CASE Close
    BY <1>2 DEF Close, LeaseCount, OuterHolders, InnerHolders
  <1>3. ASSUME NEW d \in Tracked, Retire(d) PROVE LeaseCount'
    BY <1>3 DEF Retire, LeaseCount, OuterHolders, InnerHolders
  <1>4. ASSUME NEW d \in Tracked, CloseDialer(d) PROVE LeaseCount'
    BY <1>4 DEF CloseDialer, LeaseCount, OuterHolders, InnerHolders
  <1>5. ASSUME NEW s \in Streams, NEW d \in Tracked, pc[s] = "idle", d \in byTag, Lease(s, d)
        PROVE  LeaseCount'
    <2>2. \A r \in Streams \ {s} : outer'[r] = outer[r] /\ inner'[r] = inner[r]
      BY Zenon, <1>5 DEF Lease
    <2>3. ASSUME NEW e \in Tracked
          PROVE  active'[e] - LeasesOf(s, e)' = active[e] - LeasesOf(s, e)
      BY <1>5, <1>none DEF Lease
    <2> HIDE DEF BaseInv, TypeOK, PlaceInv, Goto, Acquire, LeasesOf, regVars, dialerVars
    <2> QED  BY Zenon, <2>2, <2>3, <1>0, LeaseMove
  <1>6. ASSUME NEW s \in Streams PROVE StreamStep(s) => LeaseCount'
    <2>1. CASE DialLeased(s)
      BY ZenonT(60), <2>1, <1>0, LeaseMove DEF DialLeased
    <2>2. ASSUME NEW m \in Tracked, PickMember(s, m) PROVE LeaseCount'
      <3>2. \A r \in Streams \ {s} : outer'[r] = outer[r] /\ inner'[r] = inner[r]
        BY Zenon, <2>2 DEF PickMember
      <3>3. ASSUME NEW e \in Tracked
            PROVE  active'[e] - LeasesOf(s, e)' = active[e] - LeasesOf(s, e)
        BY <2>2, <1>none DEF PickMember
      <3> HIDE DEF BaseInv, TypeOK, PlaceInv, Goto, Acquire, LeasesOf, regVars, dialerVars
      <3> QED  BY Zenon, <3>2, <3>3, <1>0, LeaseMove
    <2>3. CASE CheckMember(s)
      BY Zenon, <2>3, <1>0, LeaseMove DEF CheckMember
    <2>4. CASE AllFailed(s)
      BY Zenon, <2>4, <1>0, LeaseMove DEF AllFailed
    <2>5. CASE Ensure(s)
      BY Zenon, <2>5, <1>0, LeaseMove DEF Ensure
    <2>6. CASE DialFailed(s)
      BY Zenon, <2>6, <1>0, LeaseMove DEF DialFailed
    <2>7. CASE DialOk(s)
      BY Zenon, <2>7, <1>0, LeaseMove DEF DialOk
    <2>8. CASE NextMember(s)
      <3>1. inner[s] \in Tracked /\ Release(inner[s]) /\ active[inner[s]] > 0
        BY ZenonT(60), <2>8, <1>0 DEF NextMember, DropInner, Held
      <3>2. \A r \in Streams \ {s} : outer'[r] = outer[r] /\ inner'[r] = inner[r]
        BY <2>8, <3>1 DEF NextMember, DropInner, Release
      <3>3. ASSUME NEW e \in Tracked
            PROVE  active'[e] - LeasesOf(s, e)' = active[e] - LeasesOf(s, e)
        BY <2>8, <3>1, <1>none DEF NextMember, DropInner, Release
      <3> HIDE DEF BaseInv, TypeOK, PlaceInv, Goto, Acquire, LeasesOf, regVars, dialerVars
      <3> QED  BY Zenon, <3>2, <3>3, <1>0, LeaseMove
    <2>9. CASE EndStream(s)
      <3>1. CASE inner[s] # None
        <4>1. inner[s] \in Tracked /\ Release(inner[s]) /\ active[inner[s]] > 0
          BY Zenon, <2>9, <3>1, <1>0 DEF EndStream, DropInner, Held
        <4>2. \A r \in Streams \ {s} : outer'[r] = outer[r] /\ inner'[r] = inner[r]
          BY ZenonT(60), <2>9, <3>1, <4>1 DEF EndStream, DropInner, Release
        <4>3. ASSUME NEW e \in Tracked
              PROVE  active'[e] - LeasesOf(s, e)' = active[e] - LeasesOf(s, e)
          BY <2>9, <3>1, <4>1, <1>none DEF EndStream, DropInner, Release
        <4> HIDE DEF BaseInv, TypeOK, PlaceInv, Goto, Acquire, LeasesOf, regVars, dialerVars
        <4> QED  BY Zenon, <4>2, <4>3, <1>0, LeaseMove
      <3>2. CASE inner[s] = None
        BY ZenonT(60), <2>9, <3>2, <1>0, LeaseMove DEF EndStream
      <3> QED  BY ZenonT(60), <3>1, <3>2
    <2>10. CASE ReleaseLease(s)
      <3>1. outer[s] \in Tracked /\ Release(outer[s]) /\ active[outer[s]] > 0
        BY Zenon, <2>10, <1>0 DEF ReleaseLease, Held
      <3>2. \A r \in Streams \ {s} : outer'[r] = outer[r] /\ inner'[r] = inner[r]
        BY ZenonT(60), <2>10, <3>1 DEF ReleaseLease, Release
      <3>3. ASSUME NEW e \in Tracked
            PROVE  active'[e] - LeasesOf(s, e)' = active[e] - LeasesOf(s, e)
        BY SMTT(60), <2>10, <3>1, <1>none DEF ReleaseLease, Release
      <3> HIDE DEF BaseInv, TypeOK, PlaceInv, Goto, Acquire, LeasesOf, regVars, dialerVars
      <3> QED  BY Zenon, <3>2, <3>3, <1>0, LeaseMove
    <2> QED  BY ZenonT(60), <2>1, <2>2, <2>3, <2>4, <2>5, <2>6, <2>7, <2>8, <2>9, <2>10 DEF StreamStep
  <1>7. CASE UNCHANGED vars
    BY <1>7 DEF vars, LeaseCount, OuterHolders, InnerHolders
  <1> QED  BY ZenonT(60), <1>1, <1>2, <1>3, <1>4, <1>5, <1>6, <1>7, NextCases

-----------------------------------------------------------------------------
(* Generations. *)

\* The published dialers are those of generation gen, and nothing of a later
\* generation has been retired.
GenInv ==
    /\ \A d \in byTag : d[1] = gen
    /\ \A d \in retired \cup pending : d[1] <= gen
    /\ PublishedOpen /\ RetiredClosed

\* Every step keeps the generations apart and closes what is unleased.
LEMMA GenStep ==
    ASSUME BaseInv, LeaseCount, GenInv, [Next]_vars
    PROVE  GenInv'
  <1>0. BaseInv' /\ Held
    BY Zenon, BaseStep, LeasedIsHeld DEF BaseInv
  <1> USE RegistryAssumption
      DEF BaseInv, TypeOK, PlaceInv, Goto, Acquire, regVars, dialerVars, GenInv,
          PublishedOpen, RetiredClosed, MarkClosed
  <1>1. ASSUME NEW c \in Configs, Reload(c[1], c[2]) PROVE GenInv'
    <2>1. /\ gen \in Int /\ gen' = gen + 1 /\ byTag' = {<<gen + 1, t>> : t \in c[1]}
          /\ pending' = byTag /\ pending = {} /\ Direct \in c[1] /\ c[1] \subseteq Tags
      BY <1>1 DEF Reload, ValidRows
    <2>2. \A d \in retired \cup pending' : d \in Tracked /\ d[1] \in Int /\ d[1] <= gen
      BY <2>1 DEF Tracked
    <2>3. \A d \in byTag' : d[1] = gen'
      BY <2>1
    <2>4. \E d \in byTag' : Tag(d) = Direct
      <3>1. <<gen + 1, Direct>> \in byTag' /\ Tag(<<gen + 1, Direct>>) = Direct
        BY Zenon, <2>1 DEF Tag
      <3> QED  BY Zenon, <3>1
    <2>5. byTag' \cap (retired \cup closed \cup pending') = {}
      BY <2>1, <2>2, <2>3
    <2>6. \A d \in retired \cup pending' : d[1] <= gen'
      BY <2>1, <2>2
    <2> QED  BY ZenonT(60), <1>1, <2>3, <2>4, <2>5, <2>6 DEF Reload
  <1>2. CASE Close
    BY <1>2 DEF Close
  <1>3. ASSUME NEW d \in Tracked, Retire(d) PROVE GenInv'
    BY <1>3 DEF Retire
  <1>4. ASSUME NEW d \in Tracked, CloseDialer(d) PROVE GenInv'
    BY Zenon, <1>4 DEF CloseDialer
  <1>5. ASSUME NEW s \in Streams, NEW d \in Tracked, pc[s] = "idle", d \in byTag, Lease(s, d)
        PROVE  GenInv'
    BY <1>5 DEF Lease
  <1>6. ASSUME NEW s \in Streams PROVE StreamStep(s) => GenInv'
    <2>1. CASE DialLeased(s)
      BY ZenonT(60), <2>1 DEF DialLeased
    <2>2. ASSUME NEW m \in Tracked, PickMember(s, m) PROVE GenInv'
      BY <2>2 DEF PickMember
    <2>3. CASE CheckMember(s)
      BY Zenon, <2>3 DEF CheckMember
    <2>4. CASE AllFailed(s)
      BY Zenon, <2>4 DEF AllFailed
    <2>5. CASE Ensure(s)
      BY Zenon, <2>5 DEF Ensure
    <2>6. CASE DialFailed(s)
      BY Zenon, <2>6 DEF DialFailed
    <2>7. CASE DialOk(s)
      BY ZenonT(60), <2>7 DEF DialOk
    <2>8. CASE NextMember(s)
      BY SMTT(60), <2>8 DEF NextMember, DropInner, Release
    <2>9. CASE EndStream(s)
      BY SMTT(60), <2>9 DEF EndStream, DropInner, Release
    <2>10. CASE ReleaseLease(s)
      BY <2>10 DEF ReleaseLease, Release
    <2> QED  BY ZenonT(60), <2>1, <2>2, <2>3, <2>4, <2>5, <2>6, <2>7, <2>8, <2>9, <2>10 DEF StreamStep
  <1>7. CASE UNCHANGED vars
    BY Zenon, <1>7 DEF vars
  <1> QED  BY ZenonT(60), <1>1, <1>2, <1>3, <1>4, <1>5, <1>6, <1>7, NextCases

-----------------------------------------------------------------------------
(* A stream keeps its client. *)

\* What a step closes has no lease afterwards.
ClosesUnleased ==
    \A d \in closed' \ closed : active'[d] = 0

\* Every step closes unleased, retired dialers only.
LEMMA ClosesStep ==
    ASSUME BaseInv, GenInv, [Next]_vars
    PROVE  /\ ClosesUnleased /\ closed \subseteq closed'
           /\ (closing' \ closing) \cap closed = {}
  <1> DEFINE G == /\ ClosesUnleased /\ closed \subseteq closed'
                  /\ (closing' \ closing) \cap closed = {}
  <1> USE DEF BaseInv, TypeOK, regVars, dialerVars, ClosesUnleased, MarkClosed
  <1>1. ASSUME NEW c \in Configs, Reload(c[1], c[2]) PROVE G
    BY Zenon, <1>1 DEF Reload
  <1>2. CASE Close
    BY Zenon, <1>2 DEF Close
  <1>3. ASSUME NEW d \in Tracked, Retire(d) PROVE G
    BY <1>3 DEF Retire
  <1>4. ASSUME NEW d \in Tracked, CloseDialer(d) PROVE G
    BY Zenon, <1>4 DEF CloseDialer
  <1>5. ASSUME NEW s \in Streams, NEW d \in Tracked, pc[s] = "idle", d \in byTag, Lease(s, d)
        PROVE  G
    BY Zenon, <1>5 DEF Lease
  <1>6. ASSUME NEW s \in Streams PROVE StreamStep(s) => G
    <2>1. CASE DialLeased(s)
      BY Zenon, <2>1 DEF DialLeased
    <2>2. ASSUME NEW m \in Tracked, PickMember(s, m) PROVE G
      BY Zenon, <2>2 DEF PickMember
    <2>3. CASE CheckMember(s)
      BY Zenon, <2>3 DEF CheckMember
    <2>4. CASE AllFailed(s)
      BY Zenon, <2>4 DEF AllFailed
    <2>5. CASE Ensure(s)
      BY Zenon, <2>5 DEF Ensure
    <2>6. CASE DialFailed(s)
      BY Zenon, <2>6 DEF DialFailed
    <2>7. CASE DialOk(s)
      BY Zenon, <2>7 DEF DialOk
    <2>8. CASE NextMember(s)
      BY <2>8 DEF NextMember, DropInner, Release
    <2>9. CASE EndStream(s)
      BY <2>9 DEF EndStream, DropInner, Release
    <2>10. CASE ReleaseLease(s)
      BY <2>10 DEF ReleaseLease, Release
    <2> QED  BY ZenonT(60), <2>1, <2>2, <2>3, <2>4, <2>5, <2>6, <2>7, <2>8, <2>9, <2>10 DEF StreamStep
  <1>7. CASE UNCHANGED vars
    BY Zenon, <1>7 DEF vars
  <1> QED  BY ZenonT(60), <1>1, <1>2, <1>3, <1>4, <1>5, <1>6, <1>7, NextCases

\* Every step leaves the carriers of dials and streams open.
LEMMA KeepStep ==
    ASSUME BaseInv, LeaseCount, GenInv, StreamsKeepClient, [Next]_vars
    PROVE  StreamsKeepClient'
  <1>0. BaseInv' /\ Held'
    BY Zenon, BaseStep, LeaseStep, LeasedIsHeldNext DEF BaseInv
  <1>none. None \notin Tracked
    BY Zenon, RegistryAssumption DEF Tracked
  \* A carrier in the next state was not closed by this step.
  <1>keep. ASSUME NEW r \in Streams, pc'[r] \in CarrierPlaces, Carrier(r)' \notin closed
           PROVE  Carrier(r)' \notin closed'
    <2>1. Carrier(r)' \in Tracked /\ active'[Carrier(r)'] > 0
      BY ZenonT(60), <1>0, <1>keep DEF BaseInv, TypeOK, PlaceInv, CarrierPlaces, Carrier, Held
    <2> QED  BY <2>1, <1>keep, ClosesStep DEF ClosesUnleased
  <1> USE DEF BaseInv, TypeOK, PlaceInv, CarrierPlaces, Carrier, Goto, regVars,
          dialerVars, StreamsKeepClient
  <1>1. ASSUME NEW c \in Configs, Reload(c[1], c[2]) PROVE StreamsKeepClient'
    BY Zenon, <1>1, <1>keep DEF Reload
  <1>2. CASE Close
    BY Zenon, <1>2, <1>keep DEF Close
  <1>3. ASSUME NEW d \in Tracked, Retire(d) PROVE StreamsKeepClient'
    BY ZenonT(60), <1>3, <1>keep DEF Retire
  <1>4. ASSUME NEW d \in Tracked, CloseDialer(d) PROVE StreamsKeepClient'
    BY <1>4, <1>keep DEF CloseDialer
  <1>5. ASSUME NEW s \in Streams, NEW d \in Tracked, pc[s] = "idle", d \in byTag, Lease(s, d)
        PROVE  StreamsKeepClient'
    BY Zenon, <1>5, <1>keep DEF Lease
  <1>6. ASSUME NEW s \in Streams PROVE StreamStep(s) => StreamsKeepClient'
    <2>1. CASE DialLeased(s)
      BY Zenon, <2>1, <1>keep DEF DialLeased
    <2>2. ASSUME NEW m \in Tracked, PickMember(s, m) PROVE StreamsKeepClient'
      BY ZenonT(60), <2>2, <1>keep DEF PickMember
    <2>3. CASE CheckMember(s)
      BY Zenon, <2>3, <1>keep DEF CheckMember
    <2>4. CASE AllFailed(s)
      BY Zenon, <2>4, <1>keep DEF AllFailed
    <2>5. CASE Ensure(s)
      BY ZenonT(60), <2>5, <1>keep DEF Ensure
    <2>6. CASE DialFailed(s)
      BY Zenon, <2>6, <1>keep DEF DialFailed
    <2>7. CASE DialOk(s)
      BY ZenonT(60), <2>7, <1>keep DEF DialOk
    <2>8. CASE NextMember(s)
      BY ZenonT(60), <2>8, <1>keep DEF NextMember, DropInner, Release
    <2>9. CASE EndStream(s)
      BY <2>9, <1>keep DEF EndStream, DropInner, Release
    <2>10. CASE ReleaseLease(s)
      BY Zenon, <2>10, <1>keep DEF ReleaseLease, Release
    <2> QED  BY ZenonT(60), <2>1, <2>2, <2>3, <2>4, <2>5, <2>6, <2>7, <2>8, <2>9, <2>10 DEF StreamStep
  <1>7. CASE UNCHANGED vars
    BY Zenon, <1>7, <1>keep DEF vars
  <1> QED  BY ZenonT(60), <1>1, <1>2, <1>3, <1>4, <1>5, <1>6, <1>7, NextCases

\* No step builds a client for a closed dialer.
LEMMA NoReopenStep ==
    ASSUME BaseInv, StreamsKeepClient, [Next]_vars
    PROVE  \A d \in closed : client'[d] = "open" => client[d] = "open"
  <1> DEFINE G == \A d \in closed : client'[d] = "open" => client[d] = "open"
  <1> USE DEF BaseInv, TypeOK, CarrierPlaces, regVars, dialerVars, StreamsKeepClient
  <1>1. ASSUME NEW c \in Configs, Reload(c[1], c[2]) PROVE G
    BY Zenon, <1>1 DEF Reload
  <1>2. CASE Close
    BY Zenon, <1>2 DEF Close
  <1>3. ASSUME NEW d \in Tracked, Retire(d) PROVE G
    BY Zenon, <1>3 DEF Retire
  <1>4. ASSUME NEW d \in Tracked, CloseDialer(d) PROVE G
    BY Zenon, <1>4 DEF CloseDialer
  <1>5. ASSUME NEW s \in Streams, NEW d \in Tracked, pc[s] = "idle", d \in byTag, Lease(s, d)
        PROVE  G
    BY Zenon, <1>5 DEF Lease
  <1>6. ASSUME NEW s \in Streams PROVE StreamStep(s) => G
    <2>1. CASE DialLeased(s)
      BY Zenon, <2>1 DEF DialLeased
    <2>2. ASSUME NEW m \in Tracked, PickMember(s, m) PROVE G
      BY Zenon, <2>2 DEF PickMember
    <2>3. CASE CheckMember(s)
      BY Zenon, <2>3 DEF CheckMember
    <2>4. CASE AllFailed(s)
      BY Zenon, <2>4 DEF AllFailed
    <2>5. CASE Ensure(s)
      BY Zenon, <2>5 DEF Ensure
    <2>6. CASE DialFailed(s)
      BY Zenon, <2>6 DEF DialFailed
    <2>7. CASE DialOk(s)
      BY Zenon, <2>7 DEF DialOk
    <2>8. CASE NextMember(s)
      BY Zenon, <2>8 DEF NextMember, DropInner, Release
    <2>9. CASE EndStream(s)
      BY Zenon, <2>9 DEF EndStream, DropInner, Release
    <2>10. CASE ReleaseLease(s)
      BY Zenon, <2>10 DEF ReleaseLease, Release
    <2> QED  BY ZenonT(60), <2>1, <2>2, <2>3, <2>4, <2>5, <2>6, <2>7, <2>8, <2>9, <2>10 DEF StreamStep
  <1>7. CASE UNCHANGED vars
    BY Zenon, <1>7 DEF vars
  <1> QED  BY ZenonT(60), <1>1, <1>2, <1>3, <1>4, <1>5, <1>6, <1>7, NextCases

-----------------------------------------------------------------------------
(* The theorems. *)

\* The inductive invariant: the safety properties, with the places that say
\* which leases a stream has and the generations that say what is published.
RegInv == BaseInv /\ LeaseCount /\ GenInv /\ StreamsKeepClient

\* The registry as NewServer leaves it.
LEMMA RegInit == Init => RegInv
  <1> SUFFICES ASSUME Init PROVE RegInv
    BY Zenon
  <1> PICK c \in Configs : /\ ValidRows(c[1]) /\ c[2] \in c[1]
                           /\ byTag = {<<0, t>> : t \in c[1]} /\ defaultTag = c[2]
    BY Zenon DEF Init
  <1>1. c[1] \subseteq Tags /\ c[2] \in Tags
    BY Zenon, RegistryAssumption
  <1>2. byTag \subseteq Tracked
    BY <1>1, RegistryAssumption DEF Tracked
  <1>3. BaseInv
    BY SMTT(60), <1>1, <1>2, RegistryAssumption DEF Init, BaseInv, TypeOK, PlaceInv, Places
  <1>4. LeaseCount
    <2> SUFFICES ASSUME NEW d \in Tracked
                 PROVE  active[d] = Cardinality(OuterHolders(d)) + Cardinality(InnerHolders(d))
      BY Zenon DEF LeaseCount
    <2>1. d # None
      BY Zenon, RegistryAssumption DEF Tracked
    <2>2. OuterHolders(d) = {} /\ InnerHolders(d) = {}
      BY Zenon, <2>1 DEF Init, OuterHolders, InnerHolders
    <2> QED  BY <2>2, FS_EmptySet DEF Init
  <1>5. GenInv
    <2>1. <<0, Direct>> \in byTag /\ Tag(<<0, Direct>>) = Direct
      BY Zenon DEF ValidRows, Tag
    <2> QED  BY <2>1 DEF Init, GenInv, PublishedOpen, RetiredClosed
  <1>6. StreamsKeepClient
    BY Zenon DEF Init, StreamsKeepClient, CarrierPlaces
  <1> QED  BY Zenon, <1>3, <1>4, <1>5, <1>6 DEF RegInv

\* The invariant holds in every state.
THEOREM RegistryInvariant == Spec => []RegInv
  <1>1. RegInv /\ [Next]_vars => RegInv'
    BY Zenon, BaseStep, LeaseStep, GenStep, KeepStep DEF RegInv
  <1> QED  BY RegInit, <1>1, PTL DEF Spec

\* Every lease is counted and will be returned: trackedDialer.acquire and
\* release are paired on all paths.
THEOREM LeasesCounted == Spec => []LeaseCount
  <1>1. RegInv => LeaseCount
    BY Zenon DEF RegInv
  <1> QED  BY <1>1, RegistryInvariant, PTL

\* No reload and no Close shuts a client under a dial or a stream.
THEOREM StreamsKeepTheirClient == Spec => []StreamsKeepClient
  <1>1. RegInv => StreamsKeepClient
    BY Zenon DEF RegInv
  <1> QED  BY <1>1, RegistryInvariant, PTL

\* The published generation is open and has direct.
THEOREM PublishedIsOpen == Spec => []PublishedOpen
  <1>1. RegInv => PublishedOpen
    BY Zenon DEF RegInv, GenInv
  <1> QED  BY <1>1, RegistryInvariant, PTL

\* A retired dialer without leases is closed, by retire or by release.
THEOREM RetiredIsClosed == Spec => []RetiredClosed
  <1>1. RegInv => RetiredClosed
    BY Zenon DEF RegInv, GenInv
  <1> QED  BY <1>1, RegistryInvariant, PTL

\* A reload with leases keeps all three promises at once, whatever the streams,
\* the configurations and the number of reloads.
THEOREM RegistryIsSafe == Spec => []RegistrySafe
  <1>1. LeaseCount /\ StreamsKeepClient /\ RetiredClosed => RegistrySafe
    BY Zenon DEF RegistrySafe
  <1> QED  BY <1>1, LeasesCounted, StreamsKeepTheirClient, RetiredIsClosed, PTL

\* A dialer is closed once and builds no client afterwards.
THEOREM ClosedIsForGood == Spec => ClosedForGood
  <1>1. RegInv /\ [Next]_vars =>
        [ /\ closed \subseteq closed'
          /\ (closing' \ closing) \cap closed = {}
          /\ \A d \in closed : client'[d] = "open" => client[d] = "open" ]_vars
    BY Zenon, ClosesStep, NoReopenStep DEF RegInv
  <1> QED  BY <1>1, RegistryInvariant, PTL DEF Spec, ClosedForGood

-----------------------------------------------------------------------------
(* The local TUN's theorem, which counts. *)

\* For any configurations and any number of generations, commands that fail anywhere,
\* timeouts and crashes: at most one supervisor is alive, an armed killswitch is not
\* lost while its generation lives, and dnsmasq's own servers are never lost.
THEOREM TunIsSafe == TunSpec => []TunSafe
  <1>1. TunInv => TunSafe
    <2> SUFFICES ASSUME TunInv PROVE TunSafe
      BY Zenon
    <2>1. NoOverlap
      <3>1. {g \in TunGens : gens[g].pc # "gone"} \subseteq {cancel}
        BY Zenon DEF TunInv, TunOwner
      <3>2. IsFiniteSet({cancel}) /\ Cardinality({cancel}) = 1
        BY Zenon, FS_Singleton
      <3>3. /\ IsFiniteSet({g \in TunGens : gens[g].pc # "gone"})
            /\ Cardinality({g \in TunGens : gens[g].pc # "gone"}) <= Cardinality({cancel})
        BY Zenon, <3>1, <3>2, FS_Subset
      <3> QED  BY Zenon, <3>2, <3>3 DEF NoOverlap
    <2> QED  BY Zenon, <2>1 DEF TunInv, TunDNS, TunSafe, OriginalKept
  <1>2. TunInit => TunWant
    BY Zenon DEF TunInit, TunWant
  <1> QED  BY <1>1, <1>2, TunInitInv, TunStep, WantStep, PTL DEF TunSpec
=============================================================================
