--------------------------- MODULE BundleDelivery --------------------------
(***************************************************************************)
(* The configuration bundle, from the panel's rows to the client's disk    *)
(* (pkg/tamizdat/server.go serveConfigBundle, client.go                    *)
(* fetchAndApplyBundle, internal/bundlecache, internal/userdb              *)
(* notifications.go): a per-user body with an ETag, on which one-shot      *)
(* messages of the operator ride.  The server reads the pending flag from  *)
(* the database, the text and the TURN profile from its in-memory user     *)
(* registry, which is reloaded now and then; the client polls with the     *)
(* ETag it remembers, applies the body and keeps it on disk for its next   *)
(* start.                                                                  *)
(*                                                                         *)
(* A body is what it configures ("pool", the user's transport count), the  *)
(* notification on it and the TURN profile on it (0: none).  The ETag is a *)
(* hash of the body without its expiry: the body itself here.  The user is *)
(* not blocked (every body of a blocked user carries a notification).      *)
(***************************************************************************)
EXTENDS Naturals

CONSTANTS Fetchers,      \* a new transport's fetch, bundleRefreshLoop's
          Pools,         \* transport counts the panel may give the user
          MaxMessages,   \* bound: messages the operator posts
          MaxProfiles,   \* bound: TURN profiles the operator stages
          MaxStarts      \* bound: starts of the client

VARIABLES row,       \* the user's row: pool, text, pending, profile, staged
          registry,  \* the server's copy of it
          fetch,     \* [Fetchers -> the request, on both sides]
          memory,    \* the client's process: etag, pool in force, messages shown
          disk,      \* the bundle cache: body and ETag file
          starts,
          polled     \* what the last reply the client took was

bundleVars == <<row, registry, fetch, memory, disk, starts, polled>>

NoTag == [pool |-> 0, note |-> 0, profile |-> 0]
Unset == NoTag
GenericNote == MaxMessages + 1   \* the text for a flag without a message
Request0 == [at |-> "idle", tag |-> NoTag, body |-> Unset, etag |-> NoTag,
             carries |-> {}]

BundleInit ==
  /\ \E p \in Pools : row = [pool |-> p, text |-> 0, pending |-> FALSE,
                             profile |-> 0, staged |-> FALSE]
  /\ registry = row
  /\ fetch = [f \in Fetchers |-> Request0]
  /\ memory = [up |-> FALSE, etag |-> NoTag, pool |-> 0, shown |-> 0]
  /\ disk = [body |-> Unset, etag |-> NoTag]
  /\ starts = 0
  /\ polled = "none"

(***************************************************************************)
(* The panel's update_user writes the row; the server reloads its registry *)
(* on a timer and on SIGHUP.                                               *)
(***************************************************************************)
SetPool(p) ==
  /\ row' = [row EXCEPT !.pool = p]
  /\ UNCHANGED <<registry, fetch, memory, disk, starts, polled>>

PostMessage ==
  /\ row.text < MaxMessages
  /\ row' = [row EXCEPT !.text = @ + 1, !.pending = TRUE]
  /\ UNCHANGED <<registry, fetch, memory, disk, starts, polled>>

\* An empty text takes a queued message back.
WithdrawMessage ==
  /\ row' = [row EXCEPT !.text = 0, !.pending = FALSE]
  /\ UNCHANGED <<registry, fetch, memory, disk, starts, polled>>

\* The server itself raises the flag, without a text, when it cuts off a
\* user who is over their cap or has expired.
ServerNotice ==
  /\ row' = [row EXCEPT !.pending = TRUE]
  /\ UNCHANGED <<registry, fetch, memory, disk, starts, polled>>

StageProfile ==
  /\ row.profile < MaxProfiles
  /\ row' = [row EXCEPT !.profile = @ + 1, !.staged = TRUE]
  /\ UNCHANGED <<registry, fetch, memory, disk, starts, polled>>

ReloadRegistry ==
  /\ registry' = row
  /\ UNCHANGED <<row, fetch, memory, disk, starts, polled>>

(***************************************************************************)
(* serveConfigBundle.                                                      *)
(***************************************************************************)
\* What rides on the body: the flag comes from the row, text and profile
\* from the registry.
Note(r, g) == IF r.pending THEN IF g.text > 0 THEN g.text ELSE GenericNote ELSE 0
Profile(g) == IF g.staged THEN g.profile ELSE 0

\* buildPerUserBundle, attachNotification, attachTURNProfile; a body that
\* carries a one-shot goes out without an ETag.
BuildBody(f) ==
  LET note == Note(row, registry)
      prof == Profile(registry)
      body == [pool |-> registry.pool, note |-> note, profile |-> prof]
      oneShot == note # 0 \/ prof # 0
      etag == IF oneShot THEN NoTag ELSE body
  IN /\ fetch[f].at = "sent"
     /\ fetch' = [fetch EXCEPT ![f].body = body, ![f].etag = etag,
                    ![f].carries = (IF note # 0 THEN {"note"} ELSE {}) \cup
                                   (IF prof # 0 THEN {"profile"} ELSE {}),
                    ![f].at = IF ~oneShot /\ fetch[f].tag = etag
                                THEN "not modified" ELSE "written"]
     /\ UNCHANGED <<row, registry, memory, disk, starts, polled>>

ClearNotificationPending(r, carries) ==
  [r EXCEPT !.pending = @ /\ "note" \notin carries]
ClearTurnProfilePending(r, carries) ==
  [r EXCEPT !.staged = @ /\ "profile" \notin carries]

\* After the write, whose result is not looked at, the flags of what the body
\* carried are cleared.
ClearFlags(f) ==
  /\ fetch[f].at = "written"
  /\ row' = ClearTurnProfilePending(
              ClearNotificationPending(row, fetch[f].carries), fetch[f].carries)
  /\ fetch' = [fetch EXCEPT ![f].at = "answered"]
  /\ UNCHANGED <<registry, memory, disk, starts, polled>>

(***************************************************************************)
(* The client.                                                             *)
(***************************************************************************)
\* fetchAndApplyBundle sends If-None-Match with the ETag it remembers.
SendRequest(f) ==
  /\ memory.up /\ fetch[f].at = "idle"
  /\ fetch' = [fetch EXCEPT ![f] = [Request0 EXCEPT !.at = "sent", !.tag = memory.etag]]
  /\ UNCHANGED <<row, registry, memory, disk, starts, polled>>

NotModified(f) ==
  /\ memory.up /\ fetch[f].at = "not modified"
  /\ fetch' = [fetch EXCEPT ![f] = Request0]
  /\ polled' = "not modified"
  /\ UNCHANGED <<row, registry, memory, disk, starts>>

\* applyCoverConfigBundle: the pool is resized, a notification is shown.
Applied(m, body) == [m EXCEPT !.pool = body.pool,
                              !.shown = IF body.note # 0 THEN body.note ELSE @]

\* The body is applied, and the ETag remembered if the reply has one ...
ApplyBody(f) ==
  /\ memory.up /\ fetch[f].at = "answered"
  /\ memory' = [Applied(memory, fetch[f].body) EXCEPT
                  !.etag = IF fetch[f].etag # NoTag THEN fetch[f].etag ELSE @]
  /\ fetch' = [fetch EXCEPT ![f].at = "saving"]
  /\ polled' = "body"
  /\ UNCHANGED <<row, registry, disk, starts>>

\* ... and Cache.Save renames the body into place, then writes or removes
\* the ETag file.
SaveBody(f) ==
  /\ memory.up /\ fetch[f].at = "saving"
  /\ disk' = [disk EXCEPT !.body = fetch[f].body]
  /\ fetch' = [fetch EXCEPT ![f].at = "tagging"]
  /\ UNCHANGED <<row, registry, memory, starts, polled>>

SaveTag(f) ==
  /\ memory.up /\ fetch[f].at = "tagging"
  /\ disk' = [disk EXCEPT !.etag = fetch[f].etag]
  /\ fetch' = [fetch EXCEPT ![f] = Request0]
  /\ UNCHANGED <<row, registry, memory, starts, polled>>

\* The request or the reply is lost; the server may have cleared its flags.
FetchFails(f) ==
  /\ fetch[f].at \in {"sent", "answered", "not modified"}
  /\ fetch' = [fetch EXCEPT ![f] = Request0]
  /\ UNCHANGED <<row, registry, memory, disk, starts, polled>>

\* NewClient: replayCachedBundle applies the body on disk, notification
\* included, and remembers its ETag; of a body that has expired the ETag only.
ClientStarts(expired) ==
  /\ ~memory.up /\ starts < MaxStarts
  /\ LET fresh == [up |-> TRUE, etag |-> disk.etag, pool |-> 0, shown |-> 0]
     IN memory' = IF disk.body = Unset THEN [fresh EXCEPT !.etag = NoTag]
                  ELSE IF expired THEN fresh
                  ELSE Applied(fresh, disk.body)
  /\ starts' = starts + 1
  /\ polled' = "none"
  /\ UNCHANGED <<row, registry, fetch, disk>>

ClientDies ==
  /\ memory.up
  /\ memory' = [memory EXCEPT !.up = FALSE]
  /\ fetch' = [f \in Fetchers |->
                 IF fetch[f].at \in {"saving", "tagging"} THEN Request0 ELSE fetch[f]]
  /\ UNCHANGED <<row, registry, disk, starts, polled>>

BundleNext ==
  \/ \E p \in Pools : SetPool(p)
  \/ PostMessage \/ WithdrawMessage \/ ServerNotice \/ StageProfile \/ ReloadRegistry
  \/ \E f \in Fetchers : \/ SendRequest(f) \/ BuildBody(f) \/ ClearFlags(f)
                         \/ NotModified(f) \/ ApplyBody(f) \/ SaveBody(f)
                         \/ SaveTag(f) \/ FetchFails(f)
  \/ \E expired \in BOOLEAN : ClientStarts(expired)
  \/ ClientDies

BundleSpec == BundleInit /\ [][BundleNext]_bundleVars

(***************************************************************************)
(* Properties                                                              *)
(***************************************************************************)
\* "Do not let clients cache a one-shot dynamic body; the next poll should
\* get the normal per-user bundle again": after a poll that was answered
\* "not modified" the body the client keeps for its next start carries no
\* message to show again.
OneShotNotCached == polled = "not modified" => disk.body.note = 0
=============================================================================
