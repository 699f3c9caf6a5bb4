--------------------------- MODULE IntentExecution ---------------------------
(***************************************************************************)
(* execute() of the PostgreSQL profile, for every operation alike: look    *)
(* the idempotency key up in one transaction; put an artifact's file into  *)
(* the store, outside any transaction; then authorize, look up again,      *)
(* execute, write receipt and result in a second one.  Around it: other    *)
(* calls, revocation, backups under the maintenance flag, and the          *)
(* reconciler that removes files without a row.                            *)
(*                                                                         *)
(* A call is one HTTP request; a client that retries is another call with  *)
(* the same key.  Operation keys stand for tenant, principal and key.      *)
(* What an operation does to the data is the business of the other         *)
(* modules; here a Content puts an artifact, explains (in REPEATABLE READ)  *)
(* or does neither.                                                        *)
(***************************************************************************)
EXTENDS FiniteSets

CONSTANTS
    Call,          \* requests
    OpKey,         \* idempotency keys, or request ids, of a principal
    ApiKey,        \* API keys of the principal
    Content,       \* what can be asked for
    Explains,      \* the contents that are explanations
    Artifact,      \* artifact ids
    ArtifactOf,    \* the artifact that a content puts, or None
    None,
    OrphansReused  \* environment: is a file without a row ever taken up again
                   \* when it is old enough to be removed?

Refusals == {"denied", "maintenance", "failed", "serialization", "duplicate"}

ASSUME IntentAssumption ==
    /\ Explains \subseteq Content
    /\ ArtifactOf \in [Content -> Artifact \cup {None}]
    /\ \A x \in Explains : ArtifactOf[x] = None
    /\ None \notin Artifact \cup Content \cup Call \cup {"conflict"} \cup Refusals
    /\ None \notin [key : OpKey, content : Content, apiKey : ApiKey]
                   \cup [key : OpKey, content : Content]
    /\ Call \cap ({"conflict"} \cup Refusals) = {}
    /\ OrphansReused \in BOOLEAN

VARIABLES
    active,     \* API keys that are not revoked
    request,    \* of a call: [key, content, apiKey]
    pc,         \* where execute() is
    snapshot,   \* the commits that the second transaction's snapshot shows
    executed,   \* the calls that committed: the rows of idempotency_results
    reply,      \* the answer: a call of executed, or why there is none
    file,       \* the artifact store: the content of each file
    aged,       \* the files older than the reconciler's minimum age
    row,        \* artifacts: the content of each active row
    reconciler, \* [pc, referenced, listed]
    backup,     \* [pc, calls, rows, files]; the maintenance flag is up while it runs
    grace       \* history: calls under way in their second transaction, or done,
                \* when their API key was revoked

callVars   == <<request, pc, snapshot, reply>>
storeVars  == <<file, aged, row>>
jobVars    == <<reconciler, backup>>
intentVars == <<active, callVars, executed, storeVars, jobVars, grace>>

Resting == [pc |-> "off", referenced |-> {}, listed |-> {}]
NoFiles == [a \in Artifact |-> None]
NoBackup == [pc |-> "off", calls |-> {}, rows |-> NoFiles, files |-> NoFiles]

Init ==
    /\ active     = ApiKey
    /\ request    = [c \in Call |-> None]
    /\ pc         = [c \in Call |-> "idle"]
    /\ snapshot   = [c \in Call |-> {}]
    /\ executed   = {}
    /\ reply      = [c \in Call |-> None]
    /\ file       = NoFiles
    /\ aged       = {}
    /\ row        = NoFiles
    /\ reconciler = Resting
    /\ backup     = NoBackup
    /\ grace      = {}

Key(c)      == request[c].key
Subject(c)  == request[c].content
Target(c)   == ArtifactOf[Subject(c)]
Maintenance == backup.pc # "off"

Goto(c, l) == pc' = [pc EXCEPT ![c] = l]

Answer(c, r) ==
    /\ reply' = [reply EXCEPT ![c] = r]
    /\ Goto(c, "done")

-----------------------------------------------------------------------------
(* The first transaction *)

\* The server authenticates the API key.
Send(c, k, x, a) ==
    /\ pc[c] = "idle"
    /\ a \in active
    /\ request' = [request EXCEPT ![c] = [key |-> k, content |-> x, apiKey |-> a]]
    /\ Goto(c, "sent")
    /\ UNCHANGED <<active, snapshot, reply, executed, storeVars, jobVars, grace>>

\* revalidateAuthenticatedPrincipal, a plain read.
Revalidate(c) ==
    /\ pc[c] = "sent"
    /\ IF request[c].apiKey \in active
       THEN Goto(c, "valid") /\ UNCHANGED reply
       ELSE Answer(c, "denied")
    /\ UNCHANGED <<active, request, snapshot, executed, storeVars, jobVars, grace>>

\* The call has the advisory lock of its key.  The first transaction takes and
\* gives it back in one step.
HoldsKey(c) == pc[c] = "locked"

\* Mutant: no lockIdempotency.
KeyUnlocked(c) == TRUE

KeyFree(c) == \A d \in Call \ {c} : HoldsKey(d) => Key(d) # Key(c)

\* Mutant: the request hash is not compared.
MatchesByKey(c, d) == Key(d) = Key(c)

\* getIdempotency: the row has the request's hash.
Matches(c, d) == Key(d) = Key(c) /\ Subject(d) = Subject(c)

Known(c, S) == {d \in S : Key(d) = Key(c)}

\* getIdempotency over the commits S finds a row: replay or refuse.
Recall(c, S) ==
    \E d \in Known(c, S) :
        IF Matches(c, d) THEN Answer(c, d) ELSE Answer(c, "conflict")

LookUp(c) ==
    /\ pc[c] = "valid"
    /\ KeyFree(c)
    /\ \/ Recall(c, executed)
       \/ /\ Known(c, executed) = {}
          /\ Goto(c, IF Target(c) = None THEN "ready" ELSE "fresh")
          /\ UNCHANGED reply
    /\ UNCHANGED <<active, request, snapshot, executed, storeVars, jobVars, grace>>

-----------------------------------------------------------------------------
(* Between the transactions *)

\* EncryptedArtifactStore.put: publish the file, or use the one that is there if
\* it has the same content.
PrepareArtifact(c) ==
    LET a == Target(c) IN
    /\ pc[c] = "fresh"
    /\ \/ /\ file[a] = None
          /\ file' = [file EXCEPT ![a] = Subject(c)]
          /\ Goto(c, "ready")
          /\ UNCHANGED reply
       \/ /\ file[a] = Subject(c)
          /\ OrphansReused \/ row[a] # None \/ a \notin aged
          /\ Goto(c, "ready")
          /\ UNCHANGED <<file, reply>>
       \/ /\ file[a] \notin {None, Subject(c)}
          /\ Answer(c, "failed")
          /\ UNCHANGED file
    /\ UNCHANGED <<active, request, snapshot, executed, aged, row, jobVars, grace>>

-----------------------------------------------------------------------------
(* The second transaction *)

\* Mutant: the maintenance flag is not looked at.
WritesAllowedUnchecked(c) == TRUE

\* assertWritesAllowed.  Its share lock stays to the end.
WritesAllowed(c) == ~Maintenance

\* Mutant: only the first transaction authorizes.
StillValidAssumed(c) == TRUE

StillValid(c) == request[c].apiKey \in active

Begin(c) ==
    /\ pc[c] = "ready"
    /\ \/ /\ WritesAllowed(c) /\ StillValid(c)
          /\ Goto(c, "writing")
          /\ snapshot' = [snapshot EXCEPT ![c] = executed]
          /\ UNCHANGED reply
       \/ /\ ~WritesAllowed(c)
          /\ Answer(c, "maintenance")
          /\ UNCHANGED snapshot
       \/ /\ WritesAllowed(c) /\ ~StillValid(c)
          /\ Answer(c, "denied")
          /\ UNCHANGED snapshot
    /\ UNCHANGED <<active, request, executed, storeVars, jobVars, grace>>

Writing(c) == pc[c] \in {"writing", "locked"}

\* What a statement of the transaction sees now.
Sees(c) == IF Subject(c) \in Explains THEN snapshot[c] ELSE executed

LockKey(c) ==
    /\ pc[c] = "writing"
    /\ KeyFree(c)
    /\ \/ Recall(c, Sees(c))
       \/ /\ Known(c, Sees(c)) = {}
          /\ Goto(c, "locked")
          /\ UNCHANGED reply
    /\ UNCHANGED <<active, request, snapshot, executed, storeVars, jobVars, grace>>

\* putArtifact: the row is new or says the same.
Storable(c) == Target(c) # None => row[Target(c)] \in {None, Subject(c)}

\* executeOperation, recordReceipt, INSERT INTO idempotency_results, COMMIT.
Commit(c) ==
    /\ pc[c] = "locked"
    /\ Sees(c) = executed
    /\ Storable(c)
    /\ Known(c, executed) = {}
    /\ executed' = executed \cup {c}
    /\ row' = IF Target(c) = None THEN row ELSE [row EXCEPT ![Target(c)] = Subject(c)]
    /\ Answer(c, c)
    /\ UNCHANGED <<active, request, snapshot, file, aged, jobVars, grace>>

\* One of them throws.  A snapshot that misses a commit cannot lock the row of
\* the clock (next_system_time in REPEATABLE READ).
Reject(c) ==
    /\ pc[c] = "locked"
    /\ \/ Sees(c) # executed /\ Answer(c, "serialization")
       \/ ~Storable(c) /\ Answer(c, "conflict")
       \/ Known(c, executed) # {} /\ Answer(c, "duplicate")
    /\ UNCHANGED <<active, request, snapshot, executed, storeVars, jobVars, grace>>

\* Anything throws: the provider, a timeout, the connection, the process.
Fail(c) ==
    /\ pc[c] \notin {"idle", "done"}
    /\ Answer(c, "failed")
    /\ UNCHANGED <<active, request, snapshot, executed, storeVars, jobVars, grace>>

-----------------------------------------------------------------------------
(* Operators *)

\* revoke-key is a write transaction of its own.
Revoke(a) ==
    /\ a \in active
    /\ ~Maintenance
    /\ active' = active \ {a}
    /\ grace' = grace \cup {c \in Call : /\ request[c] # None
                                         /\ request[c].apiKey = a
                                         /\ Writing(c) \/ c \in executed}
    /\ UNCHANGED <<callVars, executed, storeVars, jobVars>>

\* backup.ps1: raise the flag, which waits for the transactions that hold the
\* row; dump the database; archive the files; lower the flag.
RaiseFlag ==
    /\ backup.pc = "off"
    /\ \A c \in Call : ~Writing(c)
    /\ backup' = [NoBackup EXCEPT !.pc = "raised"]
    /\ UNCHANGED <<active, callVars, executed, storeVars, reconciler, grace>>

Dump ==
    /\ backup.pc = "raised"
    /\ backup' = [backup EXCEPT !.pc = "dumped", !.calls = executed, !.rows = row]
    /\ UNCHANGED <<active, callVars, executed, storeVars, reconciler, grace>>

Archive ==
    /\ backup.pc = "dumped"
    /\ backup' = [backup EXCEPT !.pc = "archived", !.files = file]
    /\ UNCHANGED <<active, callVars, executed, storeVars, reconciler, grace>>

\* Also after any of its steps has failed.
LowerFlag ==
    /\ Maintenance
    /\ backup' = NoBackup
    /\ UNCHANGED <<active, callVars, executed, storeVars, reconciler, grace>>

\* The minimum age passes, an hour by default: longer than a call and the
\* reconciler's verification together.
Age(a) ==
    /\ file[a] # None
    /\ a \notin aged
    /\ reconciler.pc # "read"
    /\ \A c \in Call : pc[c] = "ready" \/ Writing(c) => Target(c) # a
    /\ aged' = aged \cup {a}
    /\ UNCHANGED <<active, callVars, executed, file, row, jobVars, grace>>

\* reconcileArtifactFiles: read the rows ...
ReadReferences ==
    /\ reconciler.pc = "off"
    /\ reconciler' = [pc |-> "read", referenced |-> {a \in Artifact : row[a] # None},
                      listed |-> {}]
    /\ UNCHANGED <<active, callVars, executed, storeVars, backup, grace>>

\* Mutant: no minimum age.
RemovableAtOnce(a) == file[a] # None /\ a \notin reconciler.referenced

Removable(a) == file[a] # None /\ a \notin reconciler.referenced /\ a \in aged

\* ... verify their files, and list the old files that none refers to ...
ListFiles ==
    /\ reconciler.pc = "read"
    /\ IF \A a \in reconciler.referenced : file[a] = row[a]
       THEN reconciler' = [reconciler EXCEPT !.pc = "listed",
                                             !.listed = {a \in Artifact : Removable(a)}]
       ELSE reconciler' = Resting
    /\ UNCHANGED <<active, callVars, executed, storeVars, backup, grace>>

\* ... and remove them one by one.
RemoveFile ==
    /\ reconciler.pc = "listed"
    /\ \E a \in reconciler.listed :
        /\ file' = [file EXCEPT ![a] = None]
        /\ aged' = aged \ {a}
        /\ reconciler' = [reconciler EXCEPT !.listed = @ \ {a}]
    /\ UNCHANGED <<active, callVars, executed, row, backup, grace>>

EndReconciliation ==
    /\ reconciler.pc = "listed"
    /\ reconciler.listed = {}
    /\ reconciler' = Resting
    /\ UNCHANGED <<active, callVars, executed, storeVars, backup, grace>>

-----------------------------------------------------------------------------
Step(c) ==
    \/ Revalidate(c)
    \/ LookUp(c)
    \/ PrepareArtifact(c)
    \/ Begin(c)
    \/ LockKey(c)
    \/ Commit(c)
    \/ Reject(c)

Next ==
    \/ \E c \in Call :
        \/ \E k \in OpKey, x \in Content, a \in ApiKey : Send(c, k, x, a)
        \/ Step(c)
        \/ Fail(c)
    \/ \E a \in ApiKey : Revoke(a)
    \/ RaiseFlag \/ Dump \/ Archive \/ LowerFlag
    \/ \E a \in Artifact : Age(a)
    \/ ReadReferences \/ ListFiles \/ RemoveFile \/ EndReconciliation

Spec == Init /\ [][Next]_intentVars

-----------------------------------------------------------------------------
(* Correctness *)

TypeOK ==
    /\ active \subseteq ApiKey
    /\ request \in [Call -> [key : OpKey, content : Content, apiKey : ApiKey] \cup {None}]
    /\ pc \in [Call -> {"idle", "sent", "valid", "fresh", "ready", "writing", "locked", "done"}]
    /\ snapshot \in [Call -> SUBSET executed]
    /\ executed \subseteq {c \in Call : reply[c] = c}
    /\ reply \in [Call -> {None, "conflict"} \cup Refusals \cup executed]
    /\ file \in [Artifact -> Content \cup {None}]
    /\ aged \subseteq {a \in Artifact : file[a] # None}
    /\ row \in [Artifact -> Content \cup {None}]
    /\ reconciler \in [pc : {"off", "read", "listed"}, referenced : SUBSET Artifact,
                       listed : SUBSET Artifact]
    /\ backup \in [pc : {"off", "raised", "dumped", "archived"}, calls : SUBSET Call,
                   rows : [Artifact -> Content \cup {None}],
                   files : [Artifact -> Content \cup {None}]]
    /\ grace \subseteq Call

\* execute() implements IdempotentService: each call seems to be answered in one
\* step between request and answer, whatever runs beside it.
Service == INSTANCE IdempotentService WITH
    asked    <- [c \in Call |-> IF request[c] = None THEN None
                               ELSE [key |-> Key(c), content |-> Subject(c)]],
    executed <- executed,
    replied  <- [c \in Call |-> IF reply[c] \in Refusals THEN "refused" ELSE reply[c]]

ImplementsService == Service!Spec

\* A retry of an operation that has happened is not refused for having happened.
RetryReplays(c) ==
    /\ request[c] # None
    /\ reply[c] = None
    /\ \E d \in executed : Matches(c, d)
    => reply'[c] \notin {"serialization", "duplicate"}

\* docs/STABILITY.md:54: "Exact retries return the original durable result and
\* receipt".
ExactRetriesReplay == [][\A c \in Call : RetryReplays(c)]_intentVars

\* The same of the operations that run in READ COMMITTED.
OrdinaryRetriesReplay ==
    [][\A c \in Call : request[c] # None /\ Subject(c) \notin Explains
                            => RetryReplays(c)]_intentVars

\* Once an API key is revoked no transaction begins to write for it, however
\* long the call has been preparing.
RevokedExecutesNothing ==
    \A c \in executed : request[c].apiKey \in active \/ c \in grace

\* Every row has its file: putArtifact publishes the file first, and the
\* reconciler removes none that a row refers to or a call is about to.
RowsHaveFiles == \A a \in Artifact : row[a] # None => file[a] = row[a]

\* From the dump to the end of the backup nothing is committed, and the archive
\* has the file of every row of the dump.
BackupConsistent ==
    /\ backup.pc \in {"dumped", "archived"} => backup.calls = executed /\ backup.rows = row
    /\ backup.pc = "archived" =>
           \A a \in Artifact : backup.rows[a] # None => backup.files[a] = backup.rows[a]

=============================================================================
