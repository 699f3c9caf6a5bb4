------------------------ MODULE SchemaMigration_proofs ------------------------
(***************************************************************************)
(* Proofs about SchemaMigration for any number of migrators, servers,      *)
(* releases and embedding spaces, and any number of failures, and about    *)
(* TenantRotation for any number of tenants.                               *)
(***************************************************************************)
EXTENDS TenantRotation, TLAPS, FiniteSetTheorems, FunctionTheorems, SequenceTheorems

MigratorPlaces ==
    {"idle", "begun", "locked", "applied", "migrated", "configuring", "indexing", "dropping",
     "building", "validating", "settling", "hanging", "done", "refused", "failed"}

\* Where a migrator has configured the space, and has the session lock.
Configured == {"indexing", "dropping", "building", "validating", "settling", "hanging"}

ServerPlaces == {"down", "verified", "up", "inserting", "checked"}

\* What the steps need of the state's types.
SchemaTypeOK ==
    /\ mpc \in [Migrator -> MigratorPlaces]
    /\ spc \in [Server -> ServerPlaces]
    /\ DOMAIN known = Migrator
    /\ stored \subseteq Space
    /\ config \in Space \cup {None}

\* Only processes that there are do anything, and migrators have the second file.
BuildInv ==
    /\ \A p \in DOMAIN build : SpaceOf(p) \in Space
    /\ \A m \in Migrator : Present(m) => EmbeddingVersion \in DOMAIN Files(m)
    /\ \A m \in Migrator : mpc[m] # "idle" => Present(m)
    /\ \A s \in Server : spc[s] # "down" => Present(s)

\* One migrator at a time is between its lock and its commit, and what it has read
\* is what there is.
LockedInv ==
    \A m \in Migrator : mpc[m] \in {"locked", "applied"} =>
        /\ known[m] = applied
        /\ MigrationsFree(m)

\* While the files run, nothing is inserted, and what is stored fits them.
AppliedInv ==
    \A m \in Migrator : mpc[m] = "applied" =>
        /\ ~Mismatch(m)
        /\ Pending(m) # {} => \A s \in Server : ~Inserting(s)
        /\ ~Incompatible(m)

\* Whoever configures a space has the second file applied.
MigratedInv ==
    \A m \in Migrator :
        mpc[m] \in {"migrated", "configuring", "done"} \cup Configured =>
            EmbeddingVersion \in DOMAIN applied

\* An insert that has passed the trigger is of the configured space, which nobody
\* can change before it ends.
CheckedInv ==
    \A s \in Server : spc[s] = "checked" => config = SpaceOf(s) /\ SpaceShared(s)

SchemaInv ==
    /\ SchemaTypeOK
    /\ BuildInv
    /\ LockedInv
    /\ AppliedInv
    /\ MigratedInv
    /\ CheckedInv
    /\ OneSpace
    /\ RefusalsAreEarned

-----------------------------------------------------------------------------
(* The steps by what they leave alone *)

\* What a migrator does about the index, and all ways in which it is cut short.
Aside(m) ==
    \/ KeepIndex(m) \/ DropIndex(m) \/ FinishDrop(m)
    \/ StartIndex(m) \/ ValidateIndex(m) \/ SettleIndex(m) \/ FinishIndex(m)
    \/ TimeOut(m) \/ CutShort(m) \/ FailMigration(m) \/ Interrupt(m)

\* m stays among those that have configured the space, or is done; or it fails.
StepsAside(m) ==
    /\ UNCHANGED <<build, applied, config, stored, known, spc>>
    /\ mpc[m] # "idle"
    /\ \E place \in Configured \cup {"done", "failed"} :
          /\ mpc' = [mpc EXCEPT ![m] = place]
          /\ place # "failed" => mpc[m] \in Configured

\* None of these steps touches a table that the invariant is about.
LEMMA AsideMoves ==
    ASSUME SchemaTypeOK, NEW m \in Migrator, Aside(m)
    PROVE  StepsAside(m)
<1> USE DEF StepsAside, Goto, GoAndWait, tables, SchemaTypeOK, MigratorPlaces, Configured
<1>1. CASE KeepIndex(m) \/ DropIndex(m) \/ StartIndex(m) \/ ValidateIndex(m) \/ SettleIndex(m)
  BY <1>1 DEF KeepIndex, DropIndex, StartIndex, ValidateIndex, SettleIndex
<1>2. CASE FinishDrop(m)
  BY <1>2 DEF FinishDrop, EndStatement
<1>3. CASE FinishIndex(m)
  BY <1>3 DEF FinishIndex, EndStatement
<1>4. CASE LoseDeadlock(m)
  BY <1>4 DEF LoseDeadlock, EndStatement, Indexing
<1>5. CASE TimeOut(m) \/ Interrupt(m)
  BY <1>5 DEF TimeOut, Overdue, Queues, Interrupt
<1>6. ASSUME OnIndex(m), UNCHANGED <<build, applied, config, stored, known, spc, mpc>>
      PROVE  StepsAside(m)
  <2>1. mpc[m] \in Configured /\ mpc' = [mpc EXCEPT ![m] = mpc[m]]
    BY <1>6 DEF OnIndex, Indexing
  <2> QED
    BY <1>6, <2>1
<1>7. CASE Cut(m) \/ Hang(m)
  BY <1>6, <1>7 DEF Cut, Hang
<1>8. CASE FailMigration(m)
  <2>1. CASE mpc' = [mpc EXCEPT ![m] = "failed"]
    BY <1>8, <2>1 DEF FailMigration
  <2>2. CASE OnIndex(m) /\ UNCHANGED mpc
    BY <1>6, <1>8, <2>2 DEF FailMigration
  <2> QED
    BY <1>8, <2>1, <2>2 DEF FailMigration
<1> QED
  BY <1>1, <1>2, <1>3, <1>4, <1>5, <1>7, <1>8 DEF Aside, CutShort

\* A step is one of a migrator, one of those, one of a server, or concerns neither.
LEMMA StepCases ==
    ASSUME SchemaTypeOK, [SchemaNext]_schemaVars
    PROVE  \/ \E m \in Migrator :
                \/ Run(m) \/ LockMigrations(m) \/ ApplyFiles(m) \/ CommitMigrations(m)
                \/ LockSpace(m) \/ ConfigureSpace(m) \/ Refuse(m)
                \/ StepsAside(m)
           \/ \E s \in Server :
                VerifySchema(s) \/ VerifySpace(s) \/ BeginInsert(s) \/ InsertEnds(s) \/ StopServer(s)
           \/ UNCHANGED <<build, applied, config, stored, mpc, known, spc>>
<1>1. CASE BootstrapRuntimeRole
  BY <1>1 DEF BootstrapRuntimeRole
<1>2. ASSUME NEW m \in Migrator, MigratorNext(m)
      PROVE  \/ Run(m) \/ LockMigrations(m) \/ ApplyFiles(m) \/ CommitMigrations(m)
             \/ LockSpace(m) \/ ConfigureSpace(m) \/ Refuse(m)
             \/ StepsAside(m)
  BY <1>2, AsideMoves DEF MigratorNext, MigratorLock, MigratorStep, Aside
<1>3. CASE UNCHANGED schemaVars
  BY <1>3 DEF schemaVars, tables
<1> QED
  BY <1>1, <1>2, <1>3 DEF SchemaNext

-----------------------------------------------------------------------------
(* What the steps of each process do to what others rely on *)

\* Type correctness, and only the processes that there are take steps.
LEMMA StepType ==
    ASSUME SchemaTypeOK, BuildInv, [SchemaNext]_schemaVars
    PROVE  SchemaTypeOK' /\ BuildInv'
<1> USE DEF SchemaTypeOK, BuildInv, MigratorPlaces, ServerPlaces, Goto, GoAndWait, Settle, tables,
            Present, Files, SpaceOf
<1>1. ASSUME NEW m \in Migrator,
             \/ Run(m) \/ LockMigrations(m) \/ ApplyFiles(m) \/ CommitMigrations(m)
             \/ LockSpace(m) \/ ConfigureSpace(m) \/ Refuse(m)
      PROVE  SchemaTypeOK' /\ BuildInv'
  BY <1>1 DEF Run, LockMigrations, ApplyFiles, CommitMigrations, LockSpace, ConfigureSpace, Refuse
<1>2. ASSUME NEW m \in Migrator, StepsAside(m)
      PROVE  SchemaTypeOK' /\ BuildInv'
  BY <1>2 DEF StepsAside, Configured
<1>3. ASSUME NEW s \in Server,
             VerifySchema(s) \/ VerifySpace(s) \/ BeginInsert(s) \/ InsertEnds(s) \/ StopServer(s)
      PROVE  SchemaTypeOK' /\ BuildInv'
  BY <1>3 DEF VerifySchema, VerifySpace, BeginInsert, InsertEnds, PassTrigger, CommitInsert,
              AbortInsert, StopServer, Inserting
<1>4. CASE UNCHANGED <<build, applied, config, stored, mpc, known, spc>>
  BY <1>4
<1> QED
  BY <1>1, <1>2, <1>3, <1>4, StepCases

\* The lock of the migrations excludes.
LEMMA StepLocked ==
    ASSUME SchemaTypeOK, LockedInv, [SchemaNext]_schemaVars
    PROVE  LockedInv'
<1> USE DEF SchemaTypeOK, LockedInv, MigrationsFree, Goto, GoAndWait, tables
<1>1. CASE UNCHANGED <<mpc, known, applied>>
  BY <1>1
<1>2. ASSUME NEW m \in Migrator, Run(m) \/ LockSpace(m) \/ ConfigureSpace(m) \/ Refuse(m)
      PROVE  LockedInv'
  BY <1>2 DEF Run, LockSpace, ConfigureSpace, Refuse
<1>3. ASSUME NEW m \in Migrator, LockMigrations(m) \/ ApplyFiles(m)
      PROVE  LockedInv'
  BY <1>3 DEF LockMigrations, ApplyFiles
<1>4. ASSUME NEW m \in Migrator, CommitMigrations(m)
      PROVE  LockedInv'
  <2>1. mpc[m] = "applied" /\ mpc' = [mpc EXCEPT ![m] = "migrated"] /\ UNCHANGED known
    BY <1>4 DEF CommitMigrations
  <2>2. \A n \in Migrator : mpc'[n] \notin {"locked", "applied"}
    BY <2>1
  <2> QED
    BY <2>2
<1>5. ASSUME NEW m \in Migrator, StepsAside(m)
      PROVE  LockedInv'
  BY <1>5 DEF StepsAside, Configured
<1>6. ASSUME NEW s \in Server,
             VerifySchema(s) \/ VerifySpace(s) \/ BeginInsert(s) \/ InsertEnds(s) \/ StopServer(s)
      PROVE  LockedInv'
  BY <1>1, <1>6 DEF VerifySchema, VerifySpace, BeginInsert, InsertEnds, PassTrigger, CommitInsert,
                    AbortInsert, StopServer
<1> QED
  BY <1>1, <1>2, <1>3, <1>4, <1>5, <1>6, StepCases

\* Inserts and the files of a migration exclude each other.
LEMMA StepApplied ==
    ASSUME SchemaTypeOK, LockedInv, AppliedInv, [SchemaNext]_schemaVars
    PROVE  AppliedInv'
<1> USE DEF SchemaTypeOK, AppliedInv, Pending, Mismatch, Incompatible, Inserting, Files, SpaceOf,
            Goto, GoAndWait, tables
<1>1. CASE UNCHANGED <<build, known, stored, spc>> /\ \A n \in Migrator : mpc'[n] = "applied" => mpc[n] = "applied"
  BY <1>1
<1>2. ASSUME NEW m \in Migrator,
             \/ Run(m) \/ LockSpace(m) \/ CommitMigrations(m) \/ ConfigureSpace(m) \/ Refuse(m)
             \/ StepsAside(m)
      PROVE  AppliedInv'
  <2>1. /\ UNCHANGED <<build, known, stored, spc>>
        /\ \E x : x # "applied" /\ mpc' = [mpc EXCEPT ![m] = x]
    BY <1>2 DEF Run, LockSpace, CommitMigrations, ConfigureSpace, Refuse, StepsAside, Configured
  <2> QED
    BY <1>1, <2>1
<1>3. ASSUME NEW m \in Migrator, LockMigrations(m)
      PROVE  AppliedInv'
  BY <1>3 DEF LockMigrations, MigrationsFree
<1>4. ASSUME NEW m \in Migrator, ApplyFiles(m)
      PROVE  AppliedInv'
  BY <1>4 DEF ApplyFiles, TablesIdle
<1>5. ASSUME NEW s \in Server, VerifySchema(s) \/ VerifySpace(s) \/ BeginInsert(s)
      PROVE  AppliedInv'
  BY <1>5 DEF VerifySchema, VerifySpace, BeginInsert, TablesFree
<1>6. ASSUME NEW s \in Server, InsertEnds(s) \/ StopServer(s)
      PROVE  AppliedInv'
  <2>1. CASE ~CommitInsert(s)
    BY <1>6, <2>1 DEF InsertEnds, PassTrigger, AbortInsert, StopServer, Settle
  <2>2. CASE CommitInsert(s)
    <3>1. \A n \in Migrator : mpc[n] = "applied" => Pending(n) = {}
      BY <2>2 DEF CommitInsert
    <3> QED
      BY <2>2, <3>1 DEF CommitInsert, Settle
  <2> QED
    BY <2>1, <2>2
<1> QED
  BY <1>1, <1>2, <1>3, <1>4, <1>5, <1>6, StepCases

\* What is applied stays applied, and unchanged; what is stored stays stored; and
\* processes stay what they were built from.
LEMMA TablesGrow ==
    ASSUME SchemaTypeOK, LockedInv, [SchemaNext]_schemaVars
    PROVE  /\ DOMAIN applied \subseteq DOMAIN applied'
           /\ \A v \in DOMAIN applied : applied'[v] = applied[v]
           /\ stored \subseteq stored'
           /\ build' = build
<1>1. CASE UNCHANGED <<applied, build>> /\ stored \subseteq stored'
  BY <1>1
<1>2. ASSUME NEW m \in Migrator, CommitMigrations(m)
      PROVE  /\ DOMAIN applied \subseteq DOMAIN applied'
             /\ \A v \in DOMAIN applied : applied'[v] = applied[v]
             /\ stored \subseteq stored'
             /\ build' = build
  BY <1>2 DEF CommitMigrations
<1>3. ASSUME NEW m \in Migrator,
             \/ Run(m) \/ LockMigrations(m) \/ ApplyFiles(m) \/ LockSpace(m) \/ ConfigureSpace(m)
             \/ Refuse(m) \/ StepsAside(m)
      PROVE  UNCHANGED <<applied, build>> /\ stored \subseteq stored'
  BY <1>3 DEF Run, LockMigrations, ApplyFiles, LockSpace, ConfigureSpace, Refuse, StepsAside, tables
<1>4. ASSUME NEW s \in Server,
             VerifySchema(s) \/ VerifySpace(s) \/ BeginInsert(s) \/ InsertEnds(s) \/ StopServer(s)
      PROVE  UNCHANGED <<applied, build>> /\ stored \subseteq stored'
  BY <1>4 DEF VerifySchema, VerifySpace, BeginInsert, InsertEnds, PassTrigger, CommitInsert,
              AbortInsert, StopServer, tables
<1> QED
  BY <1>1, <1>2, <1>3, <1>4, StepCases

\* Whoever comes as far as the embedding space has the second file applied.
LEMMA StepMigrated ==
    ASSUME SchemaTypeOK, BuildInv, LockedInv, MigratedInv, [SchemaNext]_schemaVars
    PROVE  MigratedInv'
<1> USE DEF SchemaTypeOK, MigratedInv, Goto, GoAndWait, Configured
<1>1. DOMAIN applied \subseteq DOMAIN applied'
  BY TablesGrow
<1>2. ASSUME NEW m \in Migrator, CommitMigrations(m)
      PROVE  MigratedInv'
  <2>1. EmbeddingVersion \in DOMAIN Files(m) /\ known[m] = applied
    BY <1>2 DEF CommitMigrations, BuildInv, LockedInv
  <2>2. DOMAIN applied' = DOMAIN applied \cup Pending(m)
    BY <1>2 DEF CommitMigrations
  <2>3. EmbeddingVersion \in DOMAIN applied'
    BY <2>1, <2>2 DEF Pending
  <2> QED
    BY <1>1, <1>2, <2>3 DEF CommitMigrations
<1>3. ASSUME NEW m \in Migrator,
             \/ Run(m) \/ LockMigrations(m) \/ ApplyFiles(m) \/ LockSpace(m) \/ ConfigureSpace(m)
             \/ Refuse(m) \/ StepsAside(m)
      PROVE  MigratedInv'
  BY <1>1, <1>3 DEF Run, LockMigrations, ApplyFiles, LockSpace, ConfigureSpace, Refuse, StepsAside
<1>4. CASE UNCHANGED mpc
  BY <1>1, <1>4
<1>5. ASSUME NEW s \in Server,
             VerifySchema(s) \/ VerifySpace(s) \/ BeginInsert(s) \/ InsertEnds(s) \/ StopServer(s)
      PROVE  UNCHANGED mpc
  BY <1>5 DEF VerifySchema, VerifySpace, BeginInsert, InsertEnds, PassTrigger, CommitInsert,
              AbortInsert, StopServer
<1> QED
  BY <1>2, <1>3, <1>4, <1>5, StepCases

\* The shared lock of the trigger keeps the configuration as the insert has read it.
LEMMA StepChecked ==
    ASSUME SchemaTypeOK, AppliedInv, CheckedInv, [SchemaNext]_schemaVars
    PROVE  CheckedInv'
<1> USE DEF SchemaTypeOK, CheckedInv, SpaceShared, HoldsSpace, Indexing, SpaceOf, Goto, GoAndWait,
            tables
<1>1. ASSUME NEW m \in Migrator, CommitMigrations(m)
      PROVE  CheckedInv'
  <2>1. CASE Pending(m) = {}
    BY <1>1, <2>1 DEF CommitMigrations
  <2>2. CASE Pending(m) # {}
    BY <1>1, <2>2 DEF CommitMigrations, AppliedInv, Inserting
  <2> QED
    BY <2>1, <2>2
<1>2. ASSUME NEW m \in Migrator,
             Run(m) \/ LockMigrations(m) \/ ApplyFiles(m) \/ LockSpace(m) \/ Refuse(m)
      PROVE  CheckedInv'
  BY <1>2 DEF Run, LockMigrations, ApplyFiles, LockSpace, SpaceFree, Refuse
<1>3. ASSUME NEW m \in Migrator, ConfigureSpace(m)
      PROVE  CheckedInv'
  BY <1>3 DEF ConfigureSpace
<1>4. ASSUME NEW m \in Migrator, StepsAside(m)
      PROVE  CheckedInv'
  BY <1>4 DEF StepsAside, Configured
<1>5. ASSUME NEW s \in Server,
             VerifySchema(s) \/ VerifySpace(s) \/ BeginInsert(s) \/ InsertEnds(s) \/ StopServer(s)
      PROVE  CheckedInv'
  BY <1>5 DEF VerifySchema, VerifySpace, BeginInsert, InsertEnds, PassTrigger, CommitInsert,
              AbortInsert, StopServer, Settle
<1>6. CASE UNCHANGED <<build, applied, config, stored, mpc, known, spc>>
  BY <1>6
<1> QED
  BY <1>1, <1>2, <1>3, <1>4, <1>5, <1>6, StepCases

\* All assertions stay of the configured space.
LEMMA StepOneSpace ==
    ASSUME SchemaTypeOK, BuildInv, LockedInv, AppliedInv, CheckedInv, OneSpace,
           [SchemaNext]_schemaVars
    PROVE  OneSpace'
<1> USE DEF OneSpace, SchemaTypeOK
<1>1. CASE UNCHANGED <<applied, config, stored>>
  BY <1>1
<1>2. ASSUME NEW m \in Migrator, CommitMigrations(m)
      PROVE  OneSpace'
  <2>1. /\ DOMAIN applied' = DOMAIN applied \cup Pending(m)
        /\ stored' = stored
        /\ config' = IF EmbeddingVersion \in Pending(m) /\ stored # {} THEN SpaceOf(m) ELSE config
    BY <1>2 DEF CommitMigrations
  <2>2. EmbeddingVersion \in Pending(m) => stored \subseteq {SpaceOf(m)}
    BY <1>2 DEF CommitMigrations, AppliedInv, Incompatible
  <2> QED
    BY <2>1, <2>2
<1>3. ASSUME NEW m \in Migrator, ConfigureSpace(m)
      PROVE  OneSpace'
  <2>1. UNCHANGED <<applied, stored>> /\ config' = SpaceOf(m)
    BY <1>3 DEF ConfigureSpace
  <2>2. config = None \/ config = SpaceOf(m) \/ stored = {}
    BY <1>3 DEF ConfigureSpace, Occupied
  <2>3. stored # {None}
    BY SchemaAssumption
  <2> QED
    BY <2>1, <2>2, <2>3
<1>4. ASSUME NEW s \in Server, CommitInsert(s)
      PROVE  OneSpace'
  BY <1>4 DEF CommitInsert, CheckedInv
<1>5. ASSUME NEW m \in Migrator,
             \/ Run(m) \/ LockMigrations(m) \/ ApplyFiles(m) \/ LockSpace(m) \/ Refuse(m)
             \/ StepsAside(m)
      PROVE  UNCHANGED <<applied, config, stored>>
  BY <1>5 DEF Run, LockMigrations, ApplyFiles, LockSpace, Refuse, StepsAside, tables
<1>6. ASSUME NEW s \in Server,
             \/ VerifySchema(s) \/ VerifySpace(s) \/ BeginInsert(s) \/ StopServer(s)
             \/ PassTrigger(s) \/ AbortInsert(s)
      PROVE  UNCHANGED <<applied, config, stored>>
  BY <1>6 DEF VerifySchema, VerifySpace, BeginInsert, PassTrigger, AbortInsert, StopServer, tables
<1> QED
  BY <1>1, <1>2, <1>3, <1>4, <1>5, <1>6, StepCases DEF InsertEnds

\* A refusal has its reason, and keeps it.
LEMMA StepRefusals ==
    ASSUME SchemaTypeOK, BuildInv, LockedInv, MigratedInv, OneSpace, RefusalsAreEarned,
           [SchemaNext]_schemaVars
    PROVE  RefusalsAreEarned'
<1> DEFINE Earned(m) == \/ \E v \in DOMAIN Files(m) \cap DOMAIN applied : applied[v] # Files(m)[v]
                        \/ ~(stored \subseteq {SpaceOf(m)})
<1>1. \A m \in Migrator : Earned(m) => Earned(m)'
  BY TablesGrow DEF Files, SpaceOf
<1>2. ASSUME NEW m \in Migrator, Refuse(m)
      PROVE  Earned(m)
  <2>1. CASE mpc[m] = "locked" /\ (Mismatch(m) \/ Incompatible(m))
    BY <2>1 DEF LockedInv, Mismatch, Incompatible
  <2>2. CASE mpc[m] = "applied" /\ Pending(m) \cap DOMAIN applied # {}
    BY <2>2 DEF LockedInv, Pending
  <2>3. CASE mpc[m] = "configuring" /\ Occupied(m)
    <3>1. stored = {config} /\ config # SpaceOf(m)
      BY <2>3 DEF MigratedInv, OneSpace, Occupied
    <3> QED
      BY <3>1
  <2> QED
    BY <1>2, <2>1, <2>2, <2>3 DEF Refuse
<1>3. ASSUME NEW m \in Migrator, mpc'[m] = "refused"
      PROVE  mpc[m] = "refused" \/ Refuse(m)
  <2> USE DEF SchemaTypeOK, Goto, GoAndWait
  <2>1. ASSUME NEW n \in Migrator,
               \/ Run(n) \/ LockMigrations(n) \/ ApplyFiles(n) \/ CommitMigrations(n)
               \/ LockSpace(n) \/ ConfigureSpace(n)
        PROVE  mpc[m] = "refused"
    BY <1>3, <2>1 DEF Run, LockMigrations, ApplyFiles, CommitMigrations, LockSpace, ConfigureSpace
  <2>2. ASSUME NEW n \in Migrator, StepsAside(n)
        PROVE  mpc[m] = "refused"
    BY <1>3, <2>2 DEF StepsAside, Configured
  <2>3. ASSUME NEW n \in Migrator, Refuse(n)
        PROVE  mpc[m] = "refused" \/ Refuse(m)
    BY <1>3, <2>3 DEF Refuse
  <2>4. ASSUME NEW s \in Server,
               VerifySchema(s) \/ VerifySpace(s) \/ BeginInsert(s) \/ InsertEnds(s) \/ StopServer(s)
        PROVE  mpc[m] = "refused"
    BY <1>3, <2>4 DEF VerifySchema, VerifySpace, BeginInsert, InsertEnds, PassTrigger, CommitInsert,
                      AbortInsert, StopServer
  <2> QED
    BY <1>3, <2>1, <2>2, <2>3, <2>4, StepCases
<1> QED
  BY <1>1, <1>2, <1>3 DEF RefusalsAreEarned

-----------------------------------------------------------------------------
(* The theorems *)

\* The inductive invariant holds in every reachable state.
THEOREM SchemaInvariance == SchemaSpec => []SchemaInv
<1>1. SchemaInit => SchemaInv
  <2> SUFFICES ASSUME SchemaInit PROVE SchemaInv
    OBVIOUS
  <2> USE DEF SchemaInit, SchemaInv
  <2>1. SchemaTypeOK
    BY SchemaAssumption DEF SchemaTypeOK, MigratorPlaces, ServerPlaces
  <2>2. BuildInv
    BY SchemaAssumption DEF BuildInv, SpaceOf, Present, Files
  <2>3. LockedInv /\ AppliedInv /\ MigratedInv /\ CheckedInv /\ RefusalsAreEarned
    BY DEF LockedInv, AppliedInv, MigratedInv, Configured, CheckedInv, RefusalsAreEarned
  <2>4. OneSpace
    BY SchemaAssumption DEF OneSpace
  <2> QED
    BY <2>1, <2>2, <2>3, <2>4
<1>2. SchemaInv /\ [SchemaNext]_schemaVars => SchemaInv'
  BY StepType, StepLocked, StepApplied, StepMigrated, StepChecked, StepOneSpace, StepRefusals
  DEF SchemaInv
<1> QED
  BY <1>1, <1>2, PTL DEF SchemaSpec

\* All assertions are of the configured embedding space, for any number of
\* migrators and servers, whatever they were built for and wherever they fail.
THEOREM EmbeddingSafety == SchemaSpec => []OneSpace
<1>1. SchemaInv => OneSpace
  BY DEF SchemaInv
<1> QED
  BY <1>1, SchemaInvariance, PTL

\* The checks of a migrator refuse it for what the database holds, however migrators
\* overlap, time out, hang and die.
THEOREM RefusalSafety == SchemaSpec => []RefusalsAreEarned
<1>1. SchemaInv => RefusalsAreEarned
  BY DEF SchemaInv
<1> QED
  BY <1>1, SchemaInvariance, PTL

\* With tenants and the polls of the worker, the schema is still the one of
\* SchemaMigration: every theorem about SchemaSpec holds of Spec.
THEOREM SchemaUnderRotation == Spec => SchemaSpec
<1>1. Init => SchemaInit
  BY DEF Init
<1>2. [Next]_vars => [SchemaNext]_schemaVars
  <2> SUFFICES ASSUME [Next]_vars PROVE [SchemaNext]_schemaVars
    OBVIOUS
  <2>1. CASE SchemaStep
    BY <2>1 DEF SchemaStep, SchemaNext
  <2>2. CASE StopWorker
    BY <2>2, WorkerIsServer DEF StopWorker, SchemaNext
  <2>3. CASE UNCHANGED schemaVars
    BY <2>3
  <2> QED
    BY <2>1, <2>2, <2>3 DEF Next, AddTenant, ComeDue, Poll, BeginPoll, Lease, GoIdle, vars
<1> QED
  BY <1>1, <1>2, PTL DEF Spec, SchemaSpec

-----------------------------------------------------------------------------
(* Places in an order *)

\* How many of a set of numbers come before one.
PlaceIn(S, x) == Cardinality({u \in S : u < x})

\* A number of a finite set has less than all of them before it, and more than what
\* any smaller one has.
LEMMA PlacesRise ==
    ASSUME NEW S, S \subseteq Nat, IsFiniteSet(S)
    PROVE  /\ \A x \in S : PlaceIn(S, x) \in 0..(Cardinality(S) - 1)
           /\ \A x, y \in S : x < y => PlaceIn(S, x) < PlaceIn(S, y)
<1> DEFINE before(x) == {u \in S : u < x}
<1>1. \A x : IsFiniteSet(before(x)) /\ Cardinality(before(x)) \in Nat
  BY FS_Subset, FS_CardinalityType
<1>2. ASSUME NEW x \in S PROVE PlaceIn(S, x) \in 0..(Cardinality(S) - 1)
  <2>1. before(x) \subseteq S \ {x}
    OBVIOUS
  <2>2. IsFiniteSet(S \ {x}) /\ Cardinality(S \ {x}) = Cardinality(S) - 1
    BY FS_RemoveElement
  <2>3. Cardinality(before(x)) <= Cardinality(S \ {x})
    BY <2>1, <2>2, FS_Subset
  <2> QED
    BY <1>1, <2>2, <2>3, FS_CardinalityType DEF PlaceIn
<1>3. ASSUME NEW x \in S, NEW y \in S, x < y PROVE PlaceIn(S, x) < PlaceIn(S, y)
  <2>0. (\A u \in S : u < x => u < y) /\ x < y /\ ~(x < x)
    BY <1>3
  <2>1. before(x) \cup {x} \subseteq before(y) /\ x \notin before(x)
    BY <2>0
  <2>2. Cardinality(before(x) \cup {x}) = Cardinality(before(x)) + 1
    BY <1>1, <2>1, FS_AddElement
  <2>3. Cardinality(before(x) \cup {x}) <= Cardinality(before(y))
    BY <1>1, <2>1, FS_Subset
  <2> QED
    BY <1>1, <2>2, <2>3 DEF PlaceIn
<1> QED
  BY <1>2, <1>3

\* What it is to list a set in order.
InOrder(S, rows) ==
    /\ rows \in [1..Cardinality(S) -> S]
    /\ \A i, j \in 1..Cardinality(S) : i < j => rows[i] < rows[j]

\* A finite set can be listed in order.
LEMMA OrderExists ==
    ASSUME NEW S, S \subseteq Nat, IsFiniteSet(S)
    PROVE  \E rows : InOrder(S, rows)
<1> DEFINE n == Cardinality(S)
           p == [x \in S |-> PlaceIn(S, x)]
           rows == [i \in 1..n |-> CHOOSE x \in S : PlaceIn(S, x) = i - 1]
<1>1. n \in Nat
  BY FS_CardinalityType
<1>2. IsFiniteSet(0..(n - 1)) /\ Cardinality(0..(n - 1)) = n
  <2>1. 0 \in Int /\ n - 1 \in Int
    BY <1>1
  <2>2. IsFiniteSet(0..(n - 1)) /\ Cardinality(0..(n - 1)) = IF 0 > n - 1 THEN 0 ELSE n - 1 - 0 + 1
    BY <2>1, FS_Interval
  <2> HIDE DEF n
  <2> QED
    BY <1>1, <2>2
<1>3. p \in [S -> 0..(n - 1)]
  BY PlacesRise
<1>4. \A x, y \in S : p[x] = p[y] => x = y
  <2> SUFFICES ASSUME NEW x \in S, NEW y \in S, p[x] = p[y] PROVE x = y
    OBVIOUS
  <2>1. x \in Nat /\ y \in Nat /\ p[x] \in 0..(n - 1) /\ p[y] \in 0..(n - 1)
    BY <1>3
  <2>2. x < y => p[x] < p[y]
    BY PlacesRise
  <2>3. y < x => p[y] < p[x]
    BY PlacesRise
  <2> QED
    BY <1>1, <2>1, <2>2, <2>3
<1>5. p \in Injection(S, 0..(n - 1))
  BY <1>3, <1>4, Fun_IsInj
<1>6. p \in Surjection(S, 0..(n - 1))
  BY <1>2, <1>5, FS_Injection
<1>7. \A k \in 0..(n - 1) : \E x \in S : PlaceIn(S, x) = k
  BY <1>6 DEF Surjection
<1>8. \A i \in 1..n : rows[i] \in S /\ PlaceIn(S, rows[i]) = i - 1
  <2> SUFFICES ASSUME NEW i \in 1..n PROVE rows[i] \in S /\ PlaceIn(S, rows[i]) = i - 1
    OBVIOUS
  <2>1. i - 1 \in 0..(n - 1)
    BY <1>1
  <2> QED
    BY <1>7, <2>1
<1>9. ASSUME NEW i \in 1..n, NEW j \in 1..n, i < j PROVE rows[i] < rows[j]
  <2>1. /\ rows[i] \in Nat /\ rows[j] \in Nat
        /\ PlaceIn(S, rows[i]) < PlaceIn(S, rows[j])
    <3>1. rows[i] \in S /\ rows[j] \in S /\ PlaceIn(S, rows[i]) = i - 1 /\ PlaceIn(S, rows[j]) = j - 1
      BY <1>8
    <3>2. i - 1 < j - 1
      BY <1>1, <1>9
    <3> HIDE DEF rows, n
    <3> QED
      BY <3>1, <3>2
  <2>2. ~(rows[j] < rows[i])
    <3>1. rows[j] < rows[i] => PlaceIn(S, rows[j]) < PlaceIn(S, rows[i])
      BY <1>8, PlacesRise
    <3>2. PlaceIn(S, rows[i]) \in Nat /\ PlaceIn(S, rows[j]) \in Nat
      BY <1>1, <1>8
    <3> QED
      BY <2>1, <3>1, <3>2
  <2>3. rows[j] # rows[i]
    <3>1. PlaceIn(S, rows[i]) = i - 1 /\ PlaceIn(S, rows[j]) = j - 1
      BY <1>8
    <3>2. i - 1 # j - 1
      BY <1>9
    <3> HIDE DEF rows
    <3> QED
      BY <3>1, <3>2
  <2> HIDE DEF rows
  <2> QED
    BY <2>1, <2>2, <2>3
<1>10. rows \in [1..n -> S]
  BY <1>8
<1> QED
  BY <1>9, <1>10 DEF InOrder

\* Each has its place in such a list, and all of the set are in it.
LEMMA OrderPlaces ==
    ASSUME NEW S, S \subseteq Nat, IsFiniteSet(S), NEW rows, InOrder(S, rows)
    PROVE  /\ \A i \in 1..Cardinality(S) : PlaceIn(S, rows[i]) = i - 1
           /\ \A x \in S : \E i \in 1..Cardinality(S) : rows[i] = x
<1> DEFINE n == Cardinality(S)
<1>1. n \in Nat
  BY FS_CardinalityType
<1>2. rows \in [1..n -> S] /\ \A i, j \in 1..n : i < j => rows[i] < rows[j]
  BY DEF InOrder
<1>3. \A i, j \in 1..n : rows[i] = rows[j] => i = j
  <2> SUFFICES ASSUME NEW i \in 1..n, NEW j \in 1..n, rows[i] = rows[j] PROVE i = j
    OBVIOUS
  <2>1. rows[i] \in Nat
    BY <1>2
  <2> QED
    BY <1>1, <1>2, <2>1
<1>4. IsFiniteSet(1..n) /\ Cardinality(1..n) = n
  BY <1>1, FS_Interval
<1>5. rows \in Injection(1..n, S)
  BY <1>2, <1>3, Fun_IsInj
<1>6. rows \in Surjection(1..n, S)
  BY <1>4, <1>5, FS_Injection
<1>7. \A x \in S : \E i \in 1..n : rows[i] = x
  BY <1>6 DEF Surjection
<1>8. ASSUME NEW i \in 1..n PROVE PlaceIn(S, rows[i]) = i - 1
  <2> DEFINE before == {u \in S : u < rows[i]}
             f == [j \in 1..(i - 1) |-> rows[j]]
  <2>1. \A j \in 1..(i - 1) : j \in 1..n /\ j < i
    BY <1>1
  <2>2. \A j \in 1..(i - 1) : f[j] \in before
    BY <1>2, <2>1
  <2>3. \A x \in before : \E j \in 1..(i - 1) : f[j] = x
    <3> SUFFICES ASSUME NEW x \in before PROVE \E j \in 1..(i - 1) : f[j] = x
      OBVIOUS
    <3>1. PICK j \in 1..n : rows[j] = x
      BY <1>7
    <3>2. x \in Nat /\ rows[i] \in Nat /\ x < rows[i]
      BY <1>2
    <3>3. i < j => rows[i] < rows[j]
      BY <1>2
    <3>4. j \in 1..(i - 1)
      BY <1>1, <3>1, <3>2, <3>3
    <3> QED
      BY <3>1, <3>4
  <2>4. \A j, k \in 1..(i - 1) : f[j] = f[k] => j = k
    BY <1>3, <2>1
  <2>5. f \in [1..(i - 1) -> before]
    BY <2>2
  <2>6. f \in Bijection(1..(i - 1), before)
    BY <2>3, <2>4, <2>5, Fun_IsBij
  <2>7. ExistsBijection(1..(i - 1), before)
    BY <2>6 DEF ExistsBijection
  <2>8. i - 1 \in Nat
    BY <1>1
  <2>9. Cardinality(before) = i - 1
    BY <2>7, <2>8, FS_CountingElements
  <2> QED
    BY <2>9 DEF PlaceIn
<1> QED
  BY <1>7, <1>8
-----------------------------------------------------------------------------
(* The rotation of the worker through the tenants *)

\* The place of a tenant among the rows, and how many of them the next poll looks at
\* before it.
Place(t) == PlaceIn(tenants, t)

Ahead(t) ==
    IF cursor <= Place(t) THEN Place(t) - cursor ELSE Cardinality(tenants) + Place(t) - cursor

\* The place that a poll looks at as its k-th.
Turn(k) ==
    IF cursor + k - 1 < Cardinality(tenants) THEN cursor + k - 1
    ELSE cursor + k - 1 - Cardinality(tenants)

RotationType ==
    /\ tenants \subseteq Tenant
    /\ IsFiniteSet(tenants)
    /\ due \subseteq tenants
    /\ cursor \in Nat
    /\ cursor = 0 \/ cursor < Cardinality(tenants)
    /\ list \in Seq(tenants)
    /\ tried \in 0..Len(list)
    /\ Len(list) <= Cardinality(tenants)

\* As long as no tenant has been added since it began, a poll goes through all of them,
\* from the cursor on.
RotationInv ==
    /\ RotationType
    /\ Len(list) = Cardinality(tenants) => \A k \in 1..Len(list) : Place(list[k]) = Turn(k)

\* A due tenant whose turn in a poll is yet to come.
Waits(t) == t \in due /\ \A i \in 1..tried : list[i] # t

\* What happens to the rest, while the worker runs and no tenant is added, never takes
\* one that waits further from its turn, and a poll that ends brings it nearer.
Nearer ==
    \A t \in tenants :
        /\ Waits(t) /\ t \in due'
        /\ tenants' = tenants
        /\ list = <<>> \/ Len(list) = Cardinality(tenants)
        /\ spc'[Worker] = "up"
        => /\ Ahead(t)' <= Ahead(t)
           /\ list # <<>> /\ list' = <<>> => Ahead(t)' < Ahead(t)

\* Remainders below the divisor, and below twice the divisor.
LEMMA Remainders ==
    ASSUME NEW n \in Nat, n > 0
    PROVE  /\ \A a \in Nat : a % n \in 0..(n - 1)
           /\ \A a \in Nat : a < n => a % n = a
           /\ \A a \in Nat : n <= a /\ a < 2 * n => a % n = a - n
  OBVIOUS

\* What there is of cardinalities and places.
LEMMA PlacesAre ==
    ASSUME TenantsHaveIds, RotationType
    PROVE  /\ Cardinality(tenants) \in Nat
           /\ \A t \in tenants : t \in Nat /\ Place(t) \in 0..(Cardinality(tenants) - 1)
           /\ \A t, u \in tenants : Place(t) = Place(u) => t = u
           /\ \A t \in tenants : Cardinality(tenants) > 0
<1>1. tenants \subseteq Nat /\ IsFiniteSet(tenants)
  BY TenantsHaveIds DEF RotationType
<1>2. Cardinality(tenants) \in Nat
  BY <1>1, FS_CardinalityType
<1>3. /\ \A t \in tenants : Place(t) \in 0..(Cardinality(tenants) - 1)
      /\ \A t, u \in tenants : t < u => Place(t) < Place(u)
  BY <1>1, PlacesRise DEF Place
<1>4. \A t, u \in tenants : Place(t) = Place(u) => t = u
  <2> SUFFICES ASSUME NEW t \in tenants, NEW u \in tenants, Place(t) = Place(u) PROVE t = u
    OBVIOUS
  <2>1. t \in Nat /\ u \in Nat /\ Place(t) \in Nat /\ Place(u) \in Nat
    BY <1>1, <1>2, <1>3
  <2>2. ~(t < u) /\ ~(u < t)
    BY <1>3, <2>1
  <2> QED
    BY <2>1, <2>2
<1> QED
  BY <1>1, <1>2, <1>3, <1>4

\* The rows that a poll reads.
LEMMA RowsAre ==
    ASSUME TenantsHaveIds, RotationType
    PROVE  InOrder(tenants, TenantRows)
<1>1. tenants \subseteq Nat /\ IsFiniteSet(tenants)
  BY TenantsHaveIds DEF RotationType
<1>2. \E rows : InOrder(tenants, rows)
  BY <1>1, OrderExists
<1>3. \A rows \in [1..Cardinality(tenants) -> tenants] : DOMAIN rows = 1..Cardinality(tenants)
  OBVIOUS
<1>4. \E rows \in [1..Cardinality(tenants) -> tenants] :
          \A i, j \in DOMAIN rows : i < j => rows[i] < rows[j]
  BY <1>2, <1>3 DEF InOrder
<1>5. /\ TenantRows \in [1..Cardinality(tenants) -> tenants]
      /\ \A i, j \in DOMAIN TenantRows : i < j => TenantRows[i] < TenantRows[j]
  BY <1>4 DEF TenantRows
<1> QED
  BY <1>3, <1>5 DEF InOrder

\* What is in two sequences put together.
LEMMA Joined ==
    ASSUME NEW S, NEW a \in Seq(S), NEW b \in Seq(S)
    PROVE  /\ a \o b \in Seq(S) /\ Len(a \o b) = Len(a) + Len(b)
           /\ \A k \in 1..Len(a) : (a \o b)[k] = a[k]
           /\ \A k \in 1..(Len(a) + Len(b)) : k > Len(a) => (a \o b)[k] = b[k - Len(a)]
  OBVIOUS

\* A poll begins with all tenants, from the cursor on.
LEMMA BeginPollKeeps ==
    ASSUME TenantsHaveIds, RotationInv, BeginPoll
    PROVE  RotationInv'
<1> DEFINE n == Cardinality(tenants)
           rows == TenantRows
           start == Start(Len(rows))
<1>1. RotationType /\ tenants # {}
  BY DEF RotationInv, BeginPoll
<1>2. n \in Nat /\ n > 0
  BY <1>1, PlacesAre
<1>3. /\ rows \in [1..n -> tenants]
      /\ \A i \in 1..n : Place(rows[i]) = i - 1
  <2>1. InOrder(tenants, rows)
    BY <1>1, RowsAre
  <2>2. tenants \subseteq Nat /\ IsFiniteSet(tenants)
    BY <1>1, TenantsHaveIds DEF RotationType
  <2>3. \A i \in 1..n : PlaceIn(tenants, rows[i]) = i - 1
    BY <2>1, <2>2, OrderPlaces
  <2> QED
    BY <2>1, <2>3 DEF InOrder, Place
<1>4. rows \in Seq(tenants) /\ Len(rows) = n
  <2> HIDE DEF rows, n
  <2> QED
    BY <1>2, <1>3
<1>5. start = cursor /\ cursor \in Nat /\ cursor < n
  <2>1. cursor \in Nat /\ cursor < n
    BY <1>1, <1>2 DEF RotationType
  <2> QED
    BY <1>2, <1>4, <2>1, Remainders DEF Start
<1> DEFINE after == SubSeq(rows, start + 1, n)
           until == SubSeq(rows, 1, start)
<1>6. list' = after \o until /\ tried' = 0 /\ UNCHANGED <<tenants, due, cursor>>
  BY <1>4 DEF BeginPoll
<1>7. /\ after \in Seq(tenants) /\ Len(after) = n - cursor
      /\ \A k \in 1..(n - cursor) : after[k] = rows[cursor + k]
  <2>1. \A i \in (cursor + 1)..n : rows[i] \in tenants
    BY <1>2, <1>3, <1>5
  <2> HIDE DEF rows, n
  <2> QED
    BY <1>2, <1>4, <1>5, <2>1
<1>8. /\ until \in Seq(tenants) /\ Len(until) = cursor
      /\ \A k \in 1..cursor : until[k] = rows[k]
  <2>1. \A i \in 1..cursor : rows[i] \in tenants
    BY <1>2, <1>3, <1>5
  <2> HIDE DEF rows, n
  <2> QED
    BY <1>2, <1>4, <1>5, <2>1
<1>9. /\ list' \in Seq(tenants) /\ Len(list') = n
      /\ \A k \in 1..n : list'[k] = IF k <= n - cursor THEN after[k] ELSE until[k - (n - cursor)]
  <2> HIDE DEF after, until, n
  <2>1. /\ list' \in Seq(tenants) /\ Len(list') = Len(after) + Len(until)
        /\ \A k \in 1..Len(after) : list'[k] = after[k]
        /\ \A k \in 1..(Len(after) + Len(until)) : k > Len(after) => list'[k] = until[k - Len(after)]
    BY <1>6, <1>7, <1>8, Joined
  <2>2. Len(after) = n - cursor /\ Len(until) = cursor
    BY <1>7, <1>8
  <2> QED
    BY <1>2, <1>5, <2>1, <2>2
<1>10. ASSUME NEW k \in 1..n PROVE Place(list'[k]) = Turn(k)
  <2> HIDE DEF after, until, n, rows
  <2>1. CASE k <= n - cursor
    <3>1. PICK i \in 1..n : i = cursor + k
      BY <1>2, <1>5, <2>1
    <3>2. k \in 1..(n - cursor)
      BY <1>2, <1>5, <2>1
    <3>3. list'[k] = rows[i]
      BY <1>7, <1>9, <2>1, <3>1, <3>2
    <3>4. Place(list'[k]) = i - 1
      BY <1>3, <3>3
    <3>5. Turn(k) = i - 1
      BY <1>2, <1>5, <2>1, <3>1 DEF Turn, n
    <3> QED
      BY <3>4, <3>5
  <2>2. CASE k > n - cursor
    <3>1. k - (n - cursor) \in 1..cursor /\ k - (n - cursor) \in 1..n /\ ~(k <= n - cursor)
      BY <1>2, <1>5, <2>2
    <3>2. list'[k] = rows[k - (n - cursor)]
      BY <1>8, <1>9, <3>1
    <3>3. Place(list'[k]) = k - (n - cursor) - 1
      BY <1>3, <3>1, <3>2
    <3>4. Turn(k) = k - (n - cursor) - 1
      BY <1>2, <1>5, <2>2 DEF Turn, n
    <3> QED
      BY <3>3, <3>4
  <2> QED
    BY <1>2, <1>5, <2>1, <2>2
<1>11. RotationType'
  <2>1. /\ list' \in Seq(tenants') /\ Len(list') = Cardinality(tenants') /\ tried' = 0
        /\ Cardinality(tenants') \in Nat
        /\ UNCHANGED <<tenants, due, cursor>>
    BY <1>2, <1>6, <1>9
  <2>2. tried' \in 0..Len(list') /\ Len(list') <= Cardinality(tenants')
    BY <2>1
  <2> QED
    BY <1>1, <2>1, <2>2 DEF RotationType
<1>12. \A k \in 1..Len(list') : Place(list[k])' = Turn(k)'
  <2>1. \A k : Turn(k)' = Turn(k)
    BY <1>6 DEF Turn
  <2>2. \A k : Place(list[k])' = Place(list'[k])
    BY <1>6 DEF Place
  <2> QED
    BY <1>9, <1>10, <2>1, <2>2
<1> QED
  BY <1>11, <1>12 DEF RotationInv

\* A poll ends with the cursor inside the tenants.
LEMMA EndPollKeeps ==
    ASSUME TenantsHaveIds, RotationInv, NEW passed \in 1..Len(list), EndPoll(passed),
           tenants' = tenants, due' \subseteq due
    PROVE  RotationInv'
<1>1. RotationType
  BY DEF RotationInv
<1>2. Len(list) \in Nat /\ Len(list) > 0 /\ Cardinality(tenants) \in Nat /\ Len(list) <= Cardinality(tenants)
  BY <1>1, PlacesAre DEF RotationType
<1>3. Start(Len(list)) \in Nat
  BY <1>1, <1>2, Remainders DEF RotationType, Start
<1>4. cursor' \in 0..(Len(list) - 1)
  BY <1>2, <1>3, Remainders DEF EndPoll, Advanced
<1>5. list' = <<>> /\ Len(list') = 0 /\ list' \in Seq(tenants) /\ tried' = 0
  BY DEF EndPoll
<1>6. RotationType'
  BY <1>1, <1>2, <1>4, <1>5 DEF RotationType
<1> QED
  BY <1>5, <1>6 DEF RotationInv

\* Every step keeps the walk through the tenants in order.
LEMMA RotationInvariance ==
    ASSUME TenantsHaveIds, RotationInv, [Next]_vars
    PROVE  RotationInv'
<1>1. RotationType
  BY DEF RotationInv
<1>2. CASE SchemaStep
  BY <1>2 DEF SchemaStep, rotationVars, RotationInv, RotationType, Place, Turn
<1>3. ASSUME NEW t \in Tenant, AddTenant(t) PROVE RotationInv'
  <2>1. tenants' = tenants \cup {t} /\ UNCHANGED <<due, cursor, list, tried>>
    BY <1>3 DEF AddTenant
  <2>2. CASE t \in tenants
    <3>1. tenants' = tenants
      BY <2>1, <2>2
    <3> QED
      BY <2>1, <3>1 DEF RotationInv, RotationType, Place, Turn
  <2>3. CASE t \notin tenants
    <3>1. IsFiniteSet(tenants') /\ Cardinality(tenants') = Cardinality(tenants) + 1
      BY <1>1, <2>1, <2>3, FS_AddElement DEF RotationType
    <3>2. Cardinality(tenants) \in Nat /\ Len(list) <= Cardinality(tenants) /\ Len(list) \in Nat
      BY <1>1, PlacesAre DEF RotationType
    <3>3. list \in Seq(tenants')
      BY <1>1, <2>1 DEF RotationType
    <3>4. RotationType'
      BY <1>1, <2>1, <3>1, <3>2, <3>3 DEF RotationType
    <3> QED
      BY <2>1, <3>1, <3>2, <3>4 DEF RotationInv
  <2> QED
    BY <2>2, <2>3
<1>4. ASSUME NEW t \in Tenant, ComeDue(t) PROVE RotationInv'
  BY <1>4 DEF ComeDue, RotationInv, RotationType, Place, Turn
<1>5. CASE BeginPoll
  BY <1>5, BeginPollKeeps
<1>6. CASE Lease
  <2>1. /\ tried + 1 \in 1..Len(list)
        /\ tenants' = tenants
    BY <1>1, <1>6 DEF Lease, RotationType
  <2>2. CASE list[tried + 1] \in due /\ due' = due \ {list[tried + 1]} /\ EndPoll(tried + 1)
    BY <2>1, <2>2, EndPollKeeps
  <2>3. CASE tried' = tried + 1 /\ UNCHANGED <<due, cursor, list>>
    BY <2>1, <2>3 DEF RotationInv, RotationType, Place, Turn
  <2> QED
    BY <1>6, <2>2, <2>3 DEF Lease
<1>7. CASE GoIdle
  <2>1. list # <<>> /\ EndPoll(1) /\ tenants' = tenants /\ due' = due
    BY <1>7 DEF GoIdle
  <2>2. 1 \in 1..Len(list)
    BY <1>1, <2>1 DEF RotationType
  <2> QED
    BY <2>1, <2>2, EndPollKeeps
<1>8. CASE StopWorker
  <2>1. /\ cursor' = 0 /\ list' = <<>> /\ tried' = 0 /\ UNCHANGED <<tenants, due>>
    BY <1>8 DEF StopWorker
  <2>2. Len(list') = 0 /\ list' \in Seq(tenants) /\ Cardinality(tenants) \in Nat
    BY <1>1, <2>1, PlacesAre
  <2> QED
    BY <1>1, <2>1, <2>2 DEF RotationInv, RotationType
<1>9. CASE UNCHANGED vars
  BY <1>9 DEF vars, rotationVars, RotationInv, RotationType, Place, Turn
<1> QED
  BY <1>2, <1>3, <1>4, <1>5, <1>6, <1>7, <1>8, <1>9 DEF Next, Poll

\* Every poll of the worker goes through the tenants in order, from its cursor on, and
\* no tenant is ever more than a whole round away from its turn.
THEOREM RotationSafety ==
    Spec => [](RotationInv /\ \A t \in tenants : Ahead(t) < Cardinality(tenants))
<1>1. Init => RotationInv
  <2> SUFFICES ASSUME Init PROVE RotationInv
    OBVIOUS
  <2>1. /\ tenants = {} /\ due = {} /\ cursor = 0 /\ list = <<>> /\ tried = 0
    BY DEF Init
  <2>2. IsFiniteSet({}) /\ Cardinality({}) = 0
    BY FS_EmptySet
  <2>3. Len(list) = 0 /\ list \in Seq(tenants)
    BY <2>1
  <2> QED
    BY <2>1, <2>2, <2>3 DEF RotationInv, RotationType
<1>2. RotationInv /\ [Next]_vars => RotationInv'
  BY TenantsHaveIds, RotationInvariance
<1>3. RotationInv => \A t \in tenants : Ahead(t) < Cardinality(tenants)
  <2> SUFFICES ASSUME RotationInv, NEW t \in tenants PROVE Ahead(t) < Cardinality(tenants)
    OBVIOUS
  <2>1. RotationType
    BY DEF RotationInv
  <2>2. cursor \in Nat /\ Cardinality(tenants) \in Nat /\ Place(t) \in 0..(Cardinality(tenants) - 1)
    BY <2>1, TenantsHaveIds, PlacesAre DEF RotationType
  <2> QED
    BY <2>2 DEF Ahead
<1> QED
  BY <1>1, <1>2, <1>3, PTL DEF Spec

\* Ending a poll that has worked on the tenant at place passed brings all nearer that come after it.
LEMMA ServingNears ==
    ASSUME TenantsHaveIds, RotationInv, tenants' = tenants,
           Len(list) = Cardinality(tenants), NEW passed \in 1..Len(list), EndPoll(passed),
           NEW t \in tenants, \A i \in 1..passed : list[i] # t
    PROVE  Ahead(t)' < Ahead(t)
<1> DEFINE n == Cardinality(tenants)
           p == Place(t)
<1>1. RotationType
  BY DEF RotationInv
<1>2. n \in Nat /\ n > 0 /\ p \in 0..(n - 1) /\ cursor \in Nat /\ cursor < n
  BY <1>1, TenantsHaveIds, PlacesAre DEF RotationType
<1>3. passed \in 1..n
  OBVIOUS
<1>4. \A i \in 1..passed : Turn(i) # p
  <2> SUFFICES ASSUME NEW i \in 1..passed PROVE Turn(i) # p
    OBVIOUS
  <2>1. i \in 1..n
    BY <1>2, <1>3
  <2>2. Place(list[i]) = Turn(i)
    BY <2>1 DEF RotationInv
  <2>3. list[i] \in tenants
    BY <1>1, <2>1 DEF RotationType
  <2> QED
    BY <1>1, <2>2, <2>3, TenantsHaveIds, PlacesAre
<1>5. Ahead(t) >= passed
  <2>1. Ahead(t) \in 0..(n - 1) /\ Turn(Ahead(t) + 1) = p
    BY <1>2 DEF Ahead, Turn
  <2>2. Ahead(t) + 1 \notin 1..passed
    BY <1>4, <2>1
  <2> QED
    BY <1>2, <1>3, <2>1, <2>2
<1>6. cursor' = IF cursor + passed < n THEN cursor + passed ELSE cursor + passed - n
  <2>1. Start(Len(list)) = cursor
    BY <1>2, Remainders DEF Start
  <2>2. cursor' = (cursor + passed) % n
    BY <2>1 DEF EndPoll, Advanced
  <2>3. cursor + passed \in Nat /\ cursor + passed < 2 * n
    BY <1>2, <1>3
  <2> HIDE DEF n
  <2> QED
    BY <1>2, <2>2, <2>3, Remainders
<1>7. Ahead(t)' = IF cursor' <= p THEN p - cursor' ELSE n + p - cursor'
  BY DEF Ahead, Place
<1>8. Ahead(t) = IF cursor <= p THEN p - cursor ELSE n + p - cursor
  BY DEF Ahead
<1> HIDE DEF n, p
<1> QED
  BY <1>2, <1>3, <1>5, <1>6, <1>7, <1>8

\* What ends a poll leaves no tenant behind: as long as none is added, one that is due
\* comes nearer to its turn with every poll that does not serve it, so that it is
\* served after at most as many polls as there are tenants.
THEOREM RotationProgress == Spec => [][Nearer]_vars
<1>1. SchemaInv /\ RotationInv /\ [Next]_vars => [Nearer]_vars
  <2> SUFFICES ASSUME SchemaInv, RotationInv, Next,
                      NEW t \in tenants, Waits(t), t \in due', tenants' = tenants,
                      list = <<>> \/ Len(list) = Cardinality(tenants),
                      spc'[Worker] = "up"
               PROVE  /\ Ahead(t)' <= Ahead(t)
                      /\ list # <<>> /\ list' = <<>> => Ahead(t)' < Ahead(t)
    BY DEF Nearer
  <2>1. RotationType
    BY DEF RotationInv
  <2>2. Ahead(t) \in Nat
    <3>1. cursor \in Nat /\ Cardinality(tenants) \in Nat /\ Place(t) \in 0..(Cardinality(tenants) - 1)
          /\ (cursor = 0 \/ cursor < Cardinality(tenants))
      BY <2>1, TenantsHaveIds, PlacesAre DEF RotationType
    <3> QED
      BY <3>1 DEF Ahead
  <2>3. ASSUME cursor' = cursor, list' = list \/ list = <<>>
        PROVE  /\ Ahead(t)' <= Ahead(t)
               /\ list # <<>> /\ list' = <<>> => Ahead(t)' < Ahead(t)
    <3>1. Ahead(t)' = Ahead(t)
      BY <2>3 DEF Ahead, Place
    <3> QED
      BY <2>2, <2>3, <3>1
  <2>4. ASSUME NEW passed \in 1..Len(list), EndPoll(passed), list # <<>>,
               \A i \in 1..passed : list[i] # t
        PROVE  /\ Ahead(t)' <= Ahead(t)
               /\ list # <<>> /\ list' = <<>> => Ahead(t)' < Ahead(t)
    <3>1. Ahead(t)' < Ahead(t)
      BY <2>4, TenantsHaveIds, ServingNears
    <3>2. Ahead(t)' \in Nat
      <4>1. RotationInv'
        BY TenantsHaveIds, RotationInvariance
      <4>2. /\ cursor' \in Nat /\ Cardinality(tenants) \in Nat /\ Place(t) \in 0..(Cardinality(tenants) - 1)
            /\ cursor' = 0 \/ cursor' < Cardinality(tenants)
        BY <2>1, <4>1, TenantsHaveIds, PlacesAre DEF RotationInv, RotationType
      <4>3. Ahead(t)' = IF cursor' <= Place(t) THEN Place(t) - cursor'
                        ELSE Cardinality(tenants) + Place(t) - cursor'
        BY DEF Ahead, Place
      <4> QED
        BY <4>2, <4>3
    <3> QED
      BY <2>2, <3>1, <3>2
  <2>5. CASE SchemaStep
    BY <2>3, <2>5 DEF SchemaStep, rotationVars
  <2>6. CASE \E u \in Tenant : AddTenant(u) \/ ComeDue(u)
    BY <2>3, <2>6 DEF AddTenant, ComeDue
  <2>7. CASE BeginPoll
    BY <2>3, <2>7 DEF BeginPoll
  <2>8. CASE Lease
    <3>1. tried + 1 \in 1..Len(list) /\ list # <<>> /\ tried \in Nat
      BY <2>1, <2>8 DEF Lease, RotationType
    <3>2. CASE tried' = tried + 1 /\ UNCHANGED <<due, cursor, list>>
      BY <2>3, <3>2
    <3>3. CASE due' = due \ {list[tried + 1]} /\ EndPoll(tried + 1)
      <4>1. list[tried + 1] # t
        BY <3>3
      <4>2. \A i \in 1..(tried + 1) : i \in 1..tried \/ i = tried + 1
        BY <3>1
      <4>3. \A i \in 1..(tried + 1) : list[i] # t
        BY <4>1, <4>2 DEF Waits
      <4> QED
        BY <2>4, <3>1, <3>3, <4>3
    <3> QED
      BY <2>8, <3>2, <3>3 DEF Lease
  <2>9. CASE GoIdle
    <3>1. list # <<>> /\ tried = Len(list) /\ EndPoll(1)
      BY <2>9 DEF GoIdle
    <3>2. 1 \in 1..Len(list) /\ \A i \in 1..1 : i \in 1..tried
      BY <2>1, <3>1 DEF RotationType
    <3>3. \A i \in 1..1 : list[i] # t
      BY <3>2 DEF Waits
    <3> QED
      BY <2>4, <3>1, <3>2, <3>3
  <2>10. CASE StopWorker
    <3>1. spc'[Worker] # "up"
      BY <2>10, WorkerIsServer DEF StopWorker, StopServer, Settle, SchemaInv, SchemaTypeOK
    <3> QED
      BY <3>1
  <2> QED
    BY <2>5, <2>6, <2>7, <2>8, <2>9, <2>10 DEF Next, Poll
<1>2. Spec => [](SchemaInv /\ RotationInv)
  BY RotationSafety, SchemaUnderRotation, SchemaInvariance, PTL
<1> QED
  BY <1>1, <1>2, PTL DEF Spec

=============================================================================
