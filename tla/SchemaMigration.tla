--------------------------- MODULE SchemaMigration ---------------------------
(***************************************************************************)
(* How a production database comes to have its schema and its embedding    *)
(* space, while the commands that migrate it run more than once and at the *)
(* same time, fail half way, or meet servers that store assertions:        *)
(* create-key and the incident scenario migrate a live database too.       *)
(*                                                                         *)
(* A migration is one transaction under an advisory lock. The space is     *)
(* configured in a second one and the index is built outside of any, both  *)
(* under a session lock that the trigger on assertions takes as well, in   *)
(* shared mode, until the transaction of the insert ends.                  *)
(*                                                                         *)
(* A statement that waits too long for a lock is cancelled, and its command *)
(* fails. The statements of the index may take as long as they like on the *)
(* server, but the client stops waiting for them, and for what it sends    *)
(* behind them: a command may hang with its session lock.                  *)
(***************************************************************************)
EXTENDS Naturals, FiniteSets, Sequences

CONSTANTS
    Migrator,       \* commands that call migratePostgres
    Server,         \* processes that call assertRuntimeReady: API, worker, MCP
    Space,          \* embedding spaces: model, version and dimensions
    Dimensions,     \* their dimensions
    Situations,     \* where to begin: [build, applied, stored, role], with build a
                    \* function from the processes that there are to their
                    \* [files : version -> checksum, space : Space]
    MaxCrashes,     \* bound: processes and connections that die
    None

\* The migration that introduces the embedding space.
EmbeddingVersion == 2

\* Commands that migrate have the file; a database that has it is migrated already.
ASSUME SchemaAssumption ==
    /\ Migrator \cap Server = {}
    /\ None \notin Space
    /\ \A x \in Situations :
        /\ EmbeddingVersion \notin DOMAIN x.applied
        /\ x.stored \subseteq Space
        /\ \A p \in DOMAIN x.build : x.build[p].space \in Space
        /\ \A m \in Migrator \cap DOMAIN x.build : EmbeddingVersion \in DOMAIN x.build[m].files

VARIABLES
    build,      \* the processes and what they are built from
    applied,    \* schema_migrations: version -> checksum
    config,     \* embedding_configuration
    stored,     \* the spaces of the assertions there are
    index,      \* dimensions -> "none", "invalid", "valid"
    role,       \* agentic_app: "none", "loose", "bound" to other roles or objects, "restricted"
    granted,    \* whether it has its privileges
    mpc,        \* where a migrator is, or its session after it
    client,     \* what it makes of a statement on the index: "waiting", "cut", "hanging", "gone"
    known,      \* the applied migrations that it has read
    blockers,   \* the transactions that its statement on the index waits for
    spc,        \* where a server is
    crashes

tables == <<applied, config, stored, index, role, granted>>
schemaVars == <<build, tables, mpc, client, known, blockers, spc, crashes>>

Present(p) == p \in DOMAIN build
Files(p)   == build[p].files
SpaceOf(p) == build[p].space
IndexOf(p) == Dimensions[SpaceOf(p)]

SchemaInit ==
    /\ \E x \in Situations :
        /\ build   = x.build
        /\ applied = x.applied
        /\ stored  = x.stored
        /\ role    = x.role
    /\ config   = None
    /\ index    = [d \in {Dimensions[s] : s \in Space} |-> "none"]
    /\ granted  = FALSE
    /\ mpc      = [m \in Migrator |-> "idle"]
    /\ client   = [m \in Migrator |-> "waiting"]
    /\ known    = [m \in Migrator |-> <<>>]
    /\ blockers = [m \in Migrator |-> {}]
    /\ spc      = [s \in Server |-> "down"]
    /\ crashes  = 0

-----------------------------------------------------------------------------
(* bootstrap-role *)

\* The role is created, or loses what it has too much of. A role that belongs to
\* others, has members or owns objects is refused.
BootstrapRuntimeRole ==
    /\ role \in {"none", "loose"}
    /\ role' = "restricted"
    /\ UNCHANGED <<build, applied, config, stored, index, granted, mpc, client, known, blockers,
                   spc, crashes>>

-----------------------------------------------------------------------------
(* migratePostgres *)

\* m goes to a place, where it waits for the transactions ws; nobody waits for its own.
GoAndWait(m, place, ws) ==
    /\ mpc' = [mpc EXCEPT ![m] = place]
    /\ blockers' = [n \in Migrator |-> IF n = m THEN ws ELSE blockers[n] \ {m}]

Goto(m, place) == GoAndWait(m, place, {})

\* The command is given, for the first time or again.
Run(m) ==
    /\ Present(m)
    /\ mpc[m] \in {"idle", "done", "refused", "failed"}
    /\ Goto(m, "begun")
    /\ UNCHANGED <<build, tables, client, known, spc, crashes>>

\* Mutant: the lock is shared.
NobodyWaits(m) == TRUE

\* pg_advisory_xact_lock on agentic-data-migrations
MigrationsFree(m) == \A n \in Migrator \ {m} : mpc[n] \notin {"locked", "applied"}

LockMigrations(m) ==
    /\ mpc[m] = "begun"
    /\ MigrationsFree(m)
    /\ known' = [known EXCEPT ![m] = applied]
    /\ Goto(m, "locked")
    /\ UNCHANGED <<build, tables, client, spc, crashes>>

Pending(m) == DOMAIN Files(m) \ DOMAIN known[m]

Mismatch(m) == \E v \in DOMAIN Files(m) \cap DOMAIN known[m] : known[m][v] # Files(m)[v]

\* assertEmbeddingMigrationCompatible
Incompatible(m) == EmbeddingVersion \in Pending(m) /\ ~(stored \subseteq {SpaceOf(m)})

\* The inserts under way, which hold the table of assertions.
Inserting(s) == spc[s] \in {"inserting", "checked"}

\* A statement on the index is under way, and holds the table against new files.
Indexing(m) == mpc[m] \in {"dropping", "building", "validating", "settling"}

\* The tables that the files of a migration change are not in use.
TablesIdle == (\A s \in Server : ~Inserting(s)) /\ (\A n \in Migrator : ~Indexing(n))

\* Nobody has locked them for such files.
TablesFree == \A n \in Migrator : mpc[n] = "applied" => Pending(n) = {}

\* The files that are not applied run, in their order, and lock the tables that they
\* change until the transaction ends.
ApplyFiles(m) ==
    /\ mpc[m] = "locked"
    /\ ~Mismatch(m)
    /\ Pending(m) # {} => TablesIdle
    /\ ~Incompatible(m)
    /\ Goto(m, "applied")
    /\ UNCHANGED <<build, tables, client, known, spc, crashes>>

\* The rows of schema_migrations are new, its primary key sees to that; the second
\* file records the space that it found; the runtime role gets its privileges.
CommitMigrations(m) ==
    /\ mpc[m] = "applied"
    /\ Pending(m) \cap DOMAIN applied = {}
    /\ applied' = [v \in DOMAIN applied \cup Pending(m) |->
                      IF v \in Pending(m) THEN Files(m)[v] ELSE applied[v]]
    /\ config' = IF EmbeddingVersion \in Pending(m) /\ stored # {} THEN SpaceOf(m) ELSE config
    /\ granted' = (granted \/ role # "none")
    /\ Goto(m, "migrated")
    /\ UNCHANGED <<build, stored, index, role, client, known, spc, crashes>>

-----------------------------------------------------------------------------
(* configureEmbeddingSpace *)

\* Who has the session lock agentic-data-embedding-space.
HoldsSpace(m) == mpc[m] \in {"configuring", "indexing", "hanging"} \/ Indexing(m)

SpaceFree(m) ==
    /\ \A n \in Migrator \ {m} : ~HoldsSpace(n)
    /\ \A s \in Server : spc[s] # "checked"

LockSpace(m) ==
    /\ mpc[m] = "migrated"
    /\ SpaceFree(m)
    /\ Goto(m, "configuring")
    /\ UNCHANGED <<build, tables, client, known, spc, crashes>>

\* The space may change as long as there are no assertions.
Occupied(m) == config # None /\ config # SpaceOf(m) /\ stored # {}

ConfigureSpace(m) ==
    /\ mpc[m] = "configuring"
    /\ TablesFree
    /\ ~Occupied(m)
    /\ config' = SpaceOf(m)
    /\ Goto(m, "indexing")
    /\ UNCHANGED <<build, applied, stored, index, role, granted, client, known, spc, crashes>>

KeepIndex(m) ==
    /\ mpc[m] = "indexing"
    /\ index[IndexOf(m)] = "valid"
    /\ Goto(m, "done")
    /\ UNCHANGED <<build, tables, client, known, spc, crashes>>

\* The statement of m on the index is at an end: m goes on if it has waited for it. If
\* it has not, but its RESET and its unlock are still to come, it fails in order; if they
\* have been given up as well, the session stays, with its lock.
EndStatement(m, place) ==
    LET next == IF client[m] = "waiting" THEN place
                ELSE IF client[m] = "hanging" THEN "hanging" ELSE "failed"
    IN /\ Goto(m, next)
       /\ client' = IF next = "hanging" THEN client ELSE [client EXCEPT ![m] = "waiting"]

\* DROP INDEX CONCURRENTLY, for what a build that failed has left. Its two waits are one.
DropIndex(m) ==
    /\ mpc[m] = "indexing"
    /\ TablesFree
    /\ index[IndexOf(m)] = "invalid"
    /\ GoAndWait(m, "dropping", {s \in Server : Inserting(s)})
    /\ UNCHANGED <<build, tables, client, known, spc, crashes>>

FinishDrop(m) ==
    /\ mpc[m] = "dropping"
    /\ blockers[m] = {}
    /\ index' = [index EXCEPT ![IndexOf(m)] = "none"]
    /\ EndStatement(m, "indexing")
    /\ UNCHANGED <<build, applied, config, stored, role, granted, known, spc, crashes>>

\* CREATE INDEX CONCURRENTLY waits for the transactions that may insert without it,
StartIndex(m) ==
    /\ mpc[m] = "indexing"
    /\ TablesFree
    /\ index[IndexOf(m)] = "none"
    /\ index' = [index EXCEPT ![IndexOf(m)] = "invalid"]
    /\ GoAndWait(m, "building", {s \in Server : Inserting(s)})
    /\ UNCHANGED <<build, applied, config, stored, role, granted, client, known, spc, crashes>>

\* and, when it is built, for those that may not see to it that it stays complete,
ValidateIndex(m) ==
    /\ mpc[m] = "building"
    /\ blockers[m] = {}
    /\ GoAndWait(m, "validating", {s \in Server : Inserting(s)})
    /\ UNCHANGED <<build, tables, client, known, spc, crashes>>

\* and in the end for whoever has a snapshot that is older: also for statements of other
\* migrators that wait for a lock.
SettleIndex(m) ==
    /\ mpc[m] = "validating"
    /\ blockers[m] = {}
    /\ \E ws \in SUBSET ({s \in Server : Inserting(s)} \cup
                         {n \in Migrator : mpc[n] \in {"begun", "locked", "migrated"}}) :
          GoAndWait(m, "settling", ws)
    /\ UNCHANGED <<build, tables, client, known, spc, crashes>>

FinishIndex(m) ==
    /\ mpc[m] = "settling"
    /\ blockers[m] = {}
    /\ index' = [index EXCEPT ![IndexOf(m)] = "valid"]
    /\ EndStatement(m, "done")
    /\ UNCHANGED <<build, applied, config, stored, role, granted, known, spc, crashes>>

-----------------------------------------------------------------------------
(* Migrators that do not get through *)

\* What a migrator checks, and the primary key, ends the command and rolls back.
Refuse(m) ==
    /\ \/ mpc[m] = "locked" /\ (Mismatch(m) \/ Incompatible(m))
       \/ mpc[m] = "applied" /\ Pending(m) \cap DOMAIN applied # {}
       \/ mpc[m] = "configuring" /\ TablesFree /\ Occupied(m)
    /\ Goto(m, "refused")
    /\ UNCHANGED <<build, tables, client, known, spc, crashes>>

\* m waits for locks that others have.
Queues(m) ==
    \/ mpc[m] = "begun" /\ ~MigrationsFree(m)
    \/ mpc[m] = "locked" /\ Pending(m) # {} /\ ~TablesIdle
    \/ mpc[m] = "migrated" /\ ~SpaceFree(m)
    \/ mpc[m] = "configuring" /\ ~TablesFree

\* Mutant: the timeout is switched off before the wait for the session lock.
PatientForSpace(m) == Queues(m) /\ mpc[m] # "migrated"

\* All these waits are under statement_timeout.
Overdue(m) == Queues(m)

\* The statement is cancelled, by the timeout or for a deadlock.
TimeOut(m) ==
    /\ Overdue(m)
    /\ Goto(m, "failed")
    /\ UNCHANGED <<build, tables, client, known, spc, crashes>>

\* A statement on the index is at work, or waits for the table.
OnIndex(m) == Indexing(m) \/ (mpc[m] = "indexing" /\ index[IndexOf(m)] # "valid" /\ ~TablesFree)

\* query_timeout: the client has an error and sends its RESET; the server goes on.
Cut(m) ==
    /\ OnIndex(m)
    /\ client[m] = "waiting"
    /\ client' = [client EXCEPT ![m] = "cut"]
    /\ UNCHANGED <<build, tables, mpc, known, blockers, spc, crashes>>

\* RESET and the unlock wait behind the statement and time out as well: the connection
\* is not released, and the end of the pool waits for it.
Hang(m) ==
    /\ OnIndex(m)
    /\ client[m] = "cut"
    /\ client' = [client EXCEPT ![m] = "hanging"]
    /\ UNCHANGED <<build, tables, mpc, known, blockers, spc, crashes>>

Hangs(m) == client[m] = "hanging"

\* The statement waits for one that waits itself, for the locks of its session: PostgreSQL
\* may end the statement, and what it was about stays behind.
LoseDeadlock(m) ==
    /\ Indexing(m)
    /\ \E p \in blockers[m] : IF p \in Server THEN spc[p] = "inserting" ELSE Queues(p)
    /\ EndStatement(m, "failed")
    /\ UNCHANGED <<build, tables, known, spc, crashes>>

\* The session dies, and its locks are gone. Or the process dies alone, and the server
\* notices when the statement on the index is done.
FailMigration(m) ==
    /\ crashes < MaxCrashes
    /\ mpc[m] \notin {"idle", "done", "refused", "failed"}
    /\ crashes' = crashes + 1
    /\ \/ /\ Goto(m, "failed")
          /\ client' = [client EXCEPT ![m] = "waiting"]
       \/ /\ OnIndex(m)
          /\ client' = [client EXCEPT ![m] = "gone"]
          /\ UNCHANGED <<mpc, blockers>>
    /\ UNCHANGED <<build, tables, known, spc>>

\* Somebody ends a command that hangs.
Interrupt(m) ==
    /\ mpc[m] = "hanging"
    /\ Goto(m, "failed")
    /\ client' = [client EXCEPT ![m] = "waiting"]
    /\ UNCHANGED <<build, tables, known, spc, crashes>>

-----------------------------------------------------------------------------
(* Servers *)

\* A transaction of s ends; index builds no longer wait for it.
Settle(s, place) ==
    /\ spc' = [spc EXCEPT ![s] = place]
    /\ blockers' = [m \in Migrator |-> blockers[m] \ {s}]

\* assertRuntimeRoleSafe
RoleIsSafe == role = "restricted"

\* assertRuntimeReady: the role, which must also be able to read the schema, and the
\* migrations, which must be those of the build.
VerifySchema(s) ==
    /\ Present(s)
    /\ spc[s] = "down"
    /\ RoleIsSafe /\ granted
    /\ applied = Files(s)
    /\ spc' = [spc EXCEPT ![s] = "verified"]
    /\ UNCHANGED <<build, tables, mpc, client, known, blockers, crashes>>

\* And after them the space and its index.
VerifySpace(s) ==
    /\ spc[s] = "verified"
    /\ spc' = [spc EXCEPT ![s] =
                    IF config = SpaceOf(s) /\ index[IndexOf(s)] = "valid" THEN "up" ELSE "down"]
    /\ UNCHANGED <<build, tables, mpc, client, known, blockers, crashes>>

\* An insert into assertions begins: it waits for a migration that has the table.
BeginInsert(s) ==
    /\ spc[s] = "up"
    /\ TablesFree
    /\ spc' = [spc EXCEPT ![s] = "inserting"]
    /\ UNCHANGED <<build, tables, mpc, client, known, blockers, crashes>>

\* Mutant: the trigger reads the configuration without the lock.
ReadsAnyTime(s) == TRUE

\* pg_advisory_xact_lock_shared
SpaceShared(s) == \A m \in Migrator : ~HoldsSpace(m)

\* The trigger enforce_embedding_configuration
PassTrigger(s) ==
    /\ spc[s] = "inserting"
    /\ SpaceShared(s)
    /\ config = SpaceOf(s)
    /\ spc' = [spc EXCEPT ![s] = "checked"]
    /\ UNCHANGED <<build, tables, mpc, client, known, blockers, crashes>>

CommitInsert(s) ==
    /\ spc[s] = "checked"
    /\ stored' = stored \cup {SpaceOf(s)}
    /\ Settle(s, "up")
    /\ UNCHANGED <<build, applied, config, index, role, granted, mpc, client, known, crashes>>

\* The trigger raises, a statement timeout passes, or a deadlock with an index build
\* is resolved: the insert is gone.
AbortInsert(s) ==
    /\ Inserting(s)
    /\ Settle(s, "up")
    /\ UNCHANGED <<build, tables, mpc, client, known, crashes>>

StopServer(s) ==
    /\ crashes < MaxCrashes
    /\ spc[s] # "down"
    /\ crashes' = crashes + 1
    /\ Settle(s, "down")
    /\ UNCHANGED <<build, tables, mpc, client, known>>

-----------------------------------------------------------------------------
MigratorLock(m) == LockMigrations(m) \/ ApplyFiles(m) \/ LockSpace(m)

MigratorStep(m) ==
    \/ CommitMigrations(m)
    \/ ConfigureSpace(m) \/ KeepIndex(m) \/ DropIndex(m) \/ FinishDrop(m)
    \/ StartIndex(m) \/ ValidateIndex(m) \/ SettleIndex(m) \/ FinishIndex(m)
    \/ Refuse(m)

\* What may cut a migrator short, without anything having failed.
CutShort(m) == Cut(m) \/ Hang(m) \/ LoseDeadlock(m)

InsertEnds(s) == PassTrigger(s) \/ CommitInsert(s) \/ AbortInsert(s)

MigratorNext(m) ==
    \/ Run(m)
    \/ MigratorLock(m) \/ MigratorStep(m) \/ TimeOut(m) \/ CutShort(m)
    \/ FailMigration(m) \/ Interrupt(m)

SchemaNext ==
    \/ BootstrapRuntimeRole
    \/ \E m \in Migrator : MigratorNext(m)
    \/ \E s \in Server :
        VerifySchema(s) \/ VerifySpace(s) \/ BeginInsert(s) \/ InsertEnds(s) \/ StopServer(s)

\* A wait for a lock ends with it or with the timeout, a statement that waits for nobody
\* ends, and so do inserts, if only by their own timeout. No command is given again for
\* sure, and no lock is granted for sure.
SchemaFairness ==
    /\ \A m \in Migrator :
        /\ WF_schemaVars(MigratorLock(m) \/ TimeOut(m))
        /\ WF_schemaVars(MigratorStep(m))
    /\ \A s \in Server : WF_schemaVars(InsertEnds(s))

SchemaSpec == SchemaInit /\ [][SchemaNext]_schemaVars /\ SchemaFairness

-----------------------------------------------------------------------------
(* Correctness *)

\* docs/PRODUCTION.md: all assertions are of one embedding space, the configured one,
\* though migrators for other spaces come while servers, old and new, store.
OneSpace == EmbeddingVersion \in DOMAIN applied /\ stored # {} => stored = {config}

\* The checks of a migrator refuse it for what the database holds, a file that was edited
\* or assertions of another space, and never for what another migrator is half way through.
\* One that others keep waiting for too long has not been refused: it fails.
RefusalsAreEarned ==
    \A m \in Migrator : mpc[m] = "refused" =>
        \/ \E v \in DOMAIN Files(m) \cap DOMAIN applied : applied[v] # Files(m)[v]
        \/ ~(stored \subseteq {SpaceOf(m)})

\* A command comes to an end, whatever others have left behind or keep locked: it is done,
\* or refused, or fails by a timeout. The one exception is a command that hangs behind its
\* own statement on the index; it makes no other hang.
MigrationsEnd ==
    \A m \in Migrator :
        mpc[m] = "begun" ~> (mpc[m] \in {"done", "refused", "failed"} \/ Hangs(m))

=============================================================================
