---------------------------- MODULE TenantRotation ----------------------------
(***************************************************************************)
(* The effect worker and its tenants. Tenants come into being by           *)
(* create-key, which migrates first; the worker starts when the schema is  *)
(* that of its build, and looks through the tenants for a due effect, from *)
(* a cursor that it keeps in memory. What it does with an effect once it   *)
(* has leased it is the matter of EffectLifecycle.                         *)
(***************************************************************************)
EXTENDS SchemaMigration

CONSTANTS
    Tenant,     \* tenant ids, numbers for their order
    CreateKey,  \* the migrators that are create-key
    Worker      \* the server that is the effect worker

ASSUME CreateKeyMigrates == CreateKey \subseteq Migrator
ASSUME WorkerIsServer == Worker \in Server
ASSUME TenantsHaveIds == Tenant \subseteq Nat

VARIABLES
    tenants,    \* agentic_auth.tenants
    due,        \* the tenants that have an effect to lease
    cursor,     \* tenantCursor
    list,       \* the rows that this poll goes through
    tried       \* how many of them had nothing due

rotationVars == <<tenants, due, cursor, list, tried>>
vars == <<schemaVars, rotationVars>>

Init ==
    /\ SchemaInit
    /\ tenants = {}
    /\ due     = {}
    /\ cursor  = 0
    /\ list    = <<>>
    /\ tried   = 0

\* createApiKey, after its migratePostgres
AddTenant(t) ==
    /\ \E m \in CreateKey : mpc[m] = "done"
    /\ tenants' = tenants \cup {t}
    /\ UNCHANGED <<schemaVars, due, cursor, list, tried>>

\* An effect is authorized, or comes due.
ComeDue(t) ==
    /\ t \in tenants
    /\ due' = due \cup {t}
    /\ UNCHANGED <<schemaVars, tenants, cursor, list, tried>>

\* The rows of the tenants, ORDER BY tenant_id.
TenantRows ==
    CHOOSE rows \in [1..Cardinality(tenants) -> tenants] :
        \A i, j \in DOMAIN rows : i < j => rows[i] < rows[j]

Start(n) == cursor % n

\* runOnce: the tenants by id, from the cursor on.
BeginPoll ==
    /\ spc[Worker] = "up"
    /\ list = <<>>
    /\ tenants # {}
    /\ LET rows == TenantRows
           start == Start(Len(rows))
       IN list' = SubSeq(rows, start + 1, Len(rows)) \o SubSeq(rows, 1, start)
    /\ tried' = 0
    /\ UNCHANGED <<schemaVars, tenants, due, cursor>>

\* Mutant: every poll begins with the first tenant.
FirstAgain(passed) == 0

\* The cursor after a poll that has passed so many tenants.
Advanced(passed) == (Start(Len(list)) + passed) % Len(list)

EndPoll(passed) ==
    /\ cursor' = Advanced(passed)
    /\ list'   = <<>>
    /\ tried'  = 0

\* leaseNext for the next tenant: it has an effect to work on, or not.
Lease ==
    LET t == list[tried + 1] IN
    /\ spc[Worker] = "up"
    /\ tried < Len(list)
    /\ \/ t \in due /\ due' = due \ {t} /\ EndPoll(tried + 1)
       \/ t \notin due /\ tried' = tried + 1 /\ UNCHANGED <<due, cursor, list>>
    /\ UNCHANGED <<schemaVars, tenants>>

\* Nothing is due: the worker sleeps, and begins one further on.
GoIdle ==
    /\ spc[Worker] = "up"
    /\ list # <<>> /\ tried = Len(list)
    /\ EndPoll(1)
    /\ UNCHANGED <<schemaVars, tenants, due>>

\* The cursor is in the memory of the worker.
StopWorker ==
    /\ StopServer(Worker)
    /\ cursor' = 0
    /\ list'   = <<>>
    /\ tried'  = 0
    /\ UNCHANGED <<tenants, due>>

\* Everything of SchemaMigration but the inserts of a worker, which stores no assertions.
SchemaStep ==
    /\ \/ BootstrapRuntimeRole
       \/ \E m \in Migrator : MigratorNext(m)
       \/ \E s \in Server : VerifySchema(s) \/ VerifySpace(s)
       \/ \E s \in Server \ {Worker} : BeginInsert(s) \/ InsertEnds(s) \/ StopServer(s)
    /\ UNCHANGED rotationVars

Poll == BeginPoll \/ Lease \/ GoIdle

Next ==
    \/ SchemaStep
    \/ \E t \in Tenant : AddTenant(t) \/ ComeDue(t)
    \/ Poll
    \/ StopWorker

Spec == Init /\ [][Next]_vars /\ SchemaFairness /\ WF_vars(Poll)

-----------------------------------------------------------------------------
(* Correctness *)

\* While the worker runs, every tenant with a due effect has its turn, though the
\* others have always more, tenants are added and the cursor counts a list that is
\* read anew for every poll.
EveryTenantReached == \A t \in Tenant : []<>(t \notin due \/ spc[Worker] # "up")

=============================================================================
