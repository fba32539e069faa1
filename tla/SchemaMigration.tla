-------------------------- MODULE SchemaMigration --------------------------
(***************************************************************************)
(* The user database, upgraded in place by two programs (internal/userdb/  *)
(* schema.go EnsureSchema, and panel/tamizdat-panel.py ensure_db, which    *)
(* repeats the same migrations) while the server that is already up keeps  *)
(* opening sessions and flushing byte counters.                            *)
(*                                                                         *)
(* Each upgrade is one BEGIN IMMEDIATE transaction: its statements change  *)
(* the working copy work, readers and other writers see storedDb, and a    *)
(* crash or a failing statement rolls back.  The columns a migration adds  *)
(* are one element, named after it.  The rebuild of migration 3 renames    *)
(* the users table; SQLite then rewrites the foreign key of user_sessions  *)
(* to the renamed table, and DROP TABLE deletes the sessions with it when  *)
(* foreign keys are enforced (the server's connections, not the panel's).  *)
(***************************************************************************)
EXTENDS Naturals, Sequences, FiniteSets

CONSTANTS DbUsers,       \* the users of an existing database
          MaxFlushes,    \* bound: accounting flushes
          MaxCrashes     \* bound: upgrades that crash or fail

\* The user each program creates from the legacy shortid file.  Both carry
\* the same master_shortid, which is UNIQUE.
Legacy == [server |-> "primary", panel |-> "admin"]
Programs == DOMAIN Legacy

UserColumns == {"v3", "v4", "v5", "v7", "v9", "v10", "v12", "v13"}
SessionColumns == {"v11"}
NoTable == "no table"

VARIABLES storedDb,    \* the committed database
          work,      \* the transaction's copy of it
          txn,       \* who holds the write lock, and its next statement
          dbPhase,     \* [Programs -> where that program's start-up stands]
          credited,  \* bytes every user was ever credited (history)
          flushes, crashes

schemaVars == <<storedDb, work, txn, dbPhase, credited, flushes, crashes>>

(***************************************************************************)
(* Databases.  "users" is the shape of epoch_key or NoTable, "legacy"      *)
(* holds the rows of users_v2_legacy while it exists, "fk" is the table    *)
(* the sessions refer to.                                                  *)
(***************************************************************************)
Database(shape, cols, rows, fk, scols) ==
  [users |-> shape, ucols |-> cols, rows |-> rows, legacy |-> {},
   fk |-> fk, scols |-> scols, sessions |-> DOMAIN rows]

Rows0 == [u \in DbUsers |-> 0]
NoRows == [u \in {} |-> 0]

\* The columns a database of version v has: the panel and the server add
\* them in the same order.
ColumnsOf(v) == {c \in UserColumns :
                   CASE c = "v3" -> v >= 3 [] c = "v4" -> v >= 4
                     [] c = "v5" -> v >= 5 [] c = "v7" -> v >= 7
                     [] c = "v9" -> v >= 9 [] c = "v10" -> v >= 10
                     [] c = "v12" -> v >= 12 [] c = "v13" -> v >= 13}

\* Databases in the field: none yet, version 2, and later ones, those that
\* were upgraded before migration 8 with the sessions' key broken.
Existing ==
  {Database(NoTable, {}, NoRows, NoTable, {}),
   Database("not null", {}, Rows0, "users", {})} \cup
  {Database("nullable", ColumnsOf(v), Rows0, f,
            IF v >= 11 THEN SessionColumns ELSE {}) :
     v \in {3, 5, 7, 10, 12}, f \in {"users", "users_v2_legacy"}}

SchemaInit == /\ storedDb \in Existing
              /\ work = storedDb
              /\ txn = [who |-> "none", at |-> 0]
              /\ dbPhase = [p \in Programs |-> "down"]
              /\ credited = storedDb.rows
              /\ flushes = 0 /\ crashes = 0

(***************************************************************************)
(* The statements.                                                         *)
(***************************************************************************)
ForeignKeysOn(p) == p = "server"

\* schemaSQL: CREATE TABLE IF NOT EXISTS, with every column.
CreateMissing(d, p) ==
  LET withUsers == IF d.users = NoTable
                     THEN [d EXCEPT !.users = "nullable", !.ucols = UserColumns,
                                    !.rows = NoRows]
                     ELSE d
  IN IF d.fk = NoTable
       THEN [withUsers EXCEPT !.fk = "users", !.scols = SessionColumns]
       ELSE withUsers

\* migrateUsersV3: the table is rebuilt when epoch_key is NOT NULL, in three
\* statements, otherwise the one column is added.
RenameUsers(d, p) ==
  IF d.users = "not null"
    THEN [d EXCEPT !.users = NoTable, !.ucols = {}, !.legacy = {d.rows},
                   !.rows = NoRows, !.fk = "users_v2_legacy"]
    ELSE [d EXCEPT !.ucols = @ \cup {"v3"}]

CopyUsers(d, p) ==
  IF d.legacy # {}
    THEN [d EXCEPT !.users = "nullable", !.ucols = {"v3", "v4", "v5"},
                   !.rows = CHOOSE r \in d.legacy : TRUE]
    ELSE d

DropLegacy(d, p) ==
  IF d.legacy # {}
    THEN [d EXCEPT !.legacy = {},
                   !.sessions = IF ForeignKeysOn(p) THEN {} ELSE @]
    ELSE d

\* migrateUserSessionsV8: rebuild the sessions if they refer to the legacy
\* table, keep those whose user exists.
RepairSessions(d, p) ==
  IF d.fk = "users_v2_legacy"
    THEN [d EXCEPT !.fk = "users", !.scols = {},
                   !.sessions = @ \cap DOMAIN d.rows]
    ELSE d

\* The other migrations of the users table probe for their columns and add
\* the missing ones.
AddUserColumns(d, c) == [d EXCEPT !.ucols = @ \cup {c}]
migrateUsersV4(d, p) == AddUserColumns(d, "v4")
migrateUsersV5(d, p) == AddUserColumns(d, "v5")
migrateUsersV7(d, p) == AddUserColumns(d, "v7")
migrateUsersV9(d, p) == AddUserColumns(d, "v9")
migrateUsersV10(d, p) == AddUserColumns(d, "v10")
migrateUsersV12(d, p) == AddUserColumns(d, "v12")
migrateUsersV13(d, p) == AddUserColumns(d, "v13")
AddTransport(d, p) == [d EXCEPT !.scols = @ \cup SessionColumns]

\* _bootstrap_legacy_shortid, inside the panel's transaction.
AdoptLegacy(d, p) ==
  IF DOMAIN d.rows = {} THEN [d EXCEPT !.rows = [u \in {Legacy[p]} |-> 0]] ELSE d

\* Fault: the repair of the foreign key runs before the rename that breaks it.
ServerStepsUnrepaired ==
  <<"create", "repair", "rename", "copy", "drop", "v4", "v5", "v7",
    "v9", "v10", "transport", "v12", "v13">>

ServerSteps == <<"create", "rename", "copy", "drop", "v4", "v5", "v7", "repair",
                 "v9", "v10", "transport", "v12", "v13">>
PanelSteps == <<"create", "rename", "copy", "drop", "v4", "v5", "v7", "v9",
                "v10", "v12", "v13", "transport", "adopt">>
StepsOf(p) == IF p = "server" THEN ServerSteps ELSE PanelSteps

Apply(step, d, p) ==
  CASE step = "create" -> CreateMissing(d, p)
    [] step = "rename" -> RenameUsers(d, p)
    [] step = "copy" -> CopyUsers(d, p)
    [] step = "drop" -> DropLegacy(d, p)
    [] step = "repair" -> RepairSessions(d, p)
    [] step = "transport" -> AddTransport(d, p)
    [] step = "adopt" -> AdoptLegacy(d, p)
    [] step = "v4" -> migrateUsersV4(d, p)
    [] step = "v5" -> migrateUsersV5(d, p)
    [] step = "v7" -> migrateUsersV7(d, p)
    [] step = "v9" -> migrateUsersV9(d, p)
    [] step = "v10" -> migrateUsersV10(d, p)
    [] step = "v12" -> migrateUsersV12(d, p)
    [] step = "v13" -> migrateUsersV13(d, p)

(***************************************************************************)
(* The two programs.                                                       *)
(***************************************************************************)
\* BEGIN IMMEDIATE.  The server calls EnsureSchema again on every SIGHUP;
\* the panel once per process.
BeginUpgrade(p) ==
  /\ txn.who = "none"
  /\ dbPhase[p] = "down" \/ (p = "server" /\ dbPhase[p] = "up")
  /\ txn' = [who |-> p, at |-> 1]
  /\ work' = storedDb
  /\ dbPhase' = [dbPhase EXCEPT ![p] = IF @ = "up" THEN "reloading" ELSE "upgrading"]
  /\ UNCHANGED <<storedDb, credited, flushes, crashes>>

\* Fault: the statements are not in one transaction.
StatementAutocommit(p) ==
  /\ txn.who = p /\ txn.at <= Len(StepsOf(p))
  /\ work' = Apply(StepsOf(p)[txn.at], work, p)
  /\ storedDb' = work'
  /\ txn' = [txn EXCEPT !.at = @ + 1]
  /\ credited' = [u \in DOMAIN credited \cup DOMAIN work'.rows |->
                    IF u \in DOMAIN credited THEN credited[u] ELSE 0]
  /\ UNCHANGED <<dbPhase, flushes, crashes>>

\* One migration statement.
Statement(p) ==
  /\ txn.who = p /\ txn.at <= Len(StepsOf(p))
  /\ work' = Apply(StepsOf(p)[txn.at], work, p)
  /\ txn' = [txn EXCEPT !.at = @ + 1]
  /\ UNCHANGED <<storedDb, dbPhase, credited, flushes, crashes>>

\* COMMIT; the server goes on to BootstrapLegacyShortID at start-up.
Commit(p) ==
  /\ txn.who = p /\ txn.at > Len(StepsOf(p))
  /\ storedDb' = work
  /\ credited' = [u \in DOMAIN credited \cup DOMAIN work.rows |->
                    IF u \in DOMAIN credited THEN credited[u] ELSE 0]
  /\ txn' = [who |-> "none", at |-> 0]
  /\ dbPhase' = [dbPhase EXCEPT ![p] = IF p = "server" /\ @ = "upgrading"
                                     THEN "bootstrap" ELSE "up"]
  /\ UNCHANGED <<work, flushes, crashes>>

\* A failing statement, or the end of the process: ROLLBACK.  A reload that
\* fails leaves the server up on the schema it had.
Abort(p) ==
  /\ txn.who = p /\ crashes < MaxCrashes
  /\ txn' = [who |-> "none", at |-> 0]
  /\ work' = storedDb
  /\ dbPhase' = [dbPhase EXCEPT ![p] = IF @ = "reloading" THEN "up" ELSE "down"]
  /\ crashes' = crashes + 1
  /\ UNCHANGED <<storedDb, credited, flushes>>

\* BootstrapLegacyShortID after its EnsureSchema: count the users ...
CountUsers ==
  /\ dbPhase["server"] = "bootstrap"
  /\ dbPhase' = [dbPhase EXCEPT !["server"] =
                 IF DOMAIN storedDb.rows = {} THEN "insert" ELSE "up"]
  /\ UNCHANGED <<storedDb, work, txn, credited, flushes, crashes>>

\* Fault: a shortid that is there already is inserted once more.
InsertPrimaryAnyway ==
  /\ dbPhase["server"] = "insert" /\ txn.who = "none"
  /\ storedDb' = [storedDb EXCEPT !.rows = [u \in DOMAIN @ \cup {Legacy["server"]} |-> 0]]
  /\ credited' = [u \in DOMAIN credited \cup DOMAIN storedDb'.rows |-> 0]
  /\ dbPhase' = [dbPhase EXCEPT !["server"] = "up"]
  /\ UNCHANGED <<work, txn, flushes, crashes>>

\* ... and, in another statement, insert the one from the file.  The UNIQUE
\* shortid refuses it if the panel's is there; the error is only logged.
InsertPrimary ==
  /\ dbPhase["server"] = "insert" /\ txn.who = "none"
  /\ IF Legacy["panel"] \in DOMAIN storedDb.rows
       THEN UNCHANGED <<storedDb, credited>>
       ELSE /\ storedDb' = [storedDb EXCEPT !.rows =
                            [u \in DOMAIN @ \cup {Legacy["server"]} |->
                               IF u \in DOMAIN storedDb.rows THEN @[u] ELSE 0]]
            /\ credited' = [u \in DOMAIN credited \cup {Legacy["server"]} |->
                              IF u \in DOMAIN credited THEN credited[u] ELSE 0]
  /\ dbPhase' = [dbPhase EXCEPT !["server"] = "up"]
  /\ UNCHANGED <<work, txn, flushes, crashes>>

\* Accounting.Flush of a server that is up (it waits for the write lock).
FlushBytes(u) ==
  /\ dbPhase["server"] = "up" /\ txn.who = "none" /\ flushes < MaxFlushes
  /\ u \in DOMAIN storedDb.rows
  /\ storedDb' = [storedDb EXCEPT !.rows[u] = @ + 1]
  /\ credited' = [credited EXCEPT ![u] = @ + 1]
  /\ flushes' = flushes + 1
  /\ UNCHANGED <<work, txn, dbPhase, crashes>>

\* The statement of StartSession finds the table its foreign key names and
\* the column it writes.
SessionAccepted(d) == d.fk = "users" /\ SessionColumns \subseteq d.scols

InsertSession(u) ==
  /\ dbPhase["server"] = "up" /\ txn.who = "none" /\ u \in DOMAIN storedDb.rows
  /\ storedDb' = IF SessionAccepted(storedDb)
                 THEN [storedDb EXCEPT !.sessions = @ \cup {u}] ELSE storedDb
  /\ UNCHANGED <<work, txn, dbPhase, credited, flushes, crashes>>

EndSession(u) ==
  /\ dbPhase["server"] = "up" /\ txn.who = "none" /\ u \in storedDb.sessions
  /\ storedDb' = [storedDb EXCEPT !.sessions = @ \ {u}]
  /\ UNCHANGED <<work, txn, dbPhase, credited, flushes, crashes>>

Stop(p) ==
  /\ dbPhase[p] = "up" /\ txn.who # p
  /\ dbPhase' = [dbPhase EXCEPT ![p] = "down"]
  /\ UNCHANGED <<storedDb, work, txn, credited, flushes, crashes>>

AnyUser == DbUsers \cup {Legacy[p] : p \in Programs}

SchemaNext ==
  \/ \E p \in Programs : \/ BeginUpgrade(p) \/ Statement(p) \/ Commit(p)
                         \/ Abort(p) \/ Stop(p)
  \/ CountUsers \/ InsertPrimary
  \/ \E u \in AnyUser : FlushBytes(u) \/ InsertSession(u) \/ EndSession(u)

SchemaSpec == SchemaInit /\ [][SchemaNext]_schemaVars

(***************************************************************************)
(* Properties                                                              *)
(***************************************************************************)
\* Whatever version the database had, whoever upgraded it and however often
\* an upgrade broke off half way, every user is there with every byte ever
\* credited, and the legacy shortid belongs to at most one user.
UsersKept ==
  /\ storedDb.rows = credited
  /\ Cardinality({Legacy[p] : p \in Programs} \cap DOMAIN storedDb.rows) <= 1

\* Once the server is up its statements find every column and table they
\* name: no upgrade of the panel, before or after, leaves user_sessions with
\* a foreign key to a table that is gone.
SessionsStart ==
  dbPhase["server"] \in {"bootstrap", "insert", "up", "reloading"} =>
    /\ SessionAccepted(storedDb)
    /\ storedDb.users = "nullable" /\ UserColumns \subseteq storedDb.ucols
    /\ storedDb.sessions \subseteq DOMAIN storedDb.rows
=============================================================================
