------------------------ MODULE IntentExecution_proofs ------------------------
(***************************************************************************)
(* Proofs about IntentExecution for any number of calls, keys, contents    *)
(* and artifacts.                                                          *)
(***************************************************************************)
EXTENDS IntentExecution, TLAPS

-----------------------------------------------------------------------------
(* The invariant *)

\* How far a call is, and what there is of it.
ProgressInv ==
    \A c \in Call :
        /\ pc[c] = "idle" <=> request[c] = None
        /\ pc[c] = "done" <=> reply[c] # None

\* A call with the lock of its key is alone with it; what it does not see
\* of the key was committed behind the back of its snapshot.
KeyInv ==
    \A c \in Call : HoldsKey(c) =>
        /\ \A d \in Call \ {c} : HoldsKey(d) => Key(d) # Key(c)
        /\ Subject(c) \notin Explains => Known(c, executed) = {}

\* A row is there because a call put it.
RowInv ==
    \A a \in Artifact : row[a] # None => \E d \in executed : Target(d) = a /\ Subject(d) = row[a]

\* Who writes has a live key, or had one when it began.
GraceInv ==
    \A c \in Call : Writing(c) \/ c \in executed => request[c].apiKey \in active \/ c \in grace

\* While the flag is up nobody writes.
FlagInv ==
    /\ Maintenance => \A c \in Call : ~Writing(c)
    /\ backup.pc \in {"dumped", "archived"} => backup.calls = executed /\ backup.rows = row

Prepared(c) == pc[c] = "ready" \/ Writing(c)

\* A call that is to commit a row has published its file, ...
PreparedInv == \A c \in Call : Prepared(c) /\ Target(c) # None => file[Target(c)] = Subject(c)

\* ... and a file that is old has a row by then, ...
AgedInv == \A c \in Call : Prepared(c) /\ Target(c) \in aged => row[Target(c)] # None

\* ... so that what the reconciler finds to be old and without a row stays so.
UnreferencedInv ==
    /\ reconciler.pc = "read" => \A a \in aged \ reconciler.referenced : row[a] = None
    /\ reconciler.pc = "listed" => \A a \in reconciler.listed : a \in aged /\ row[a] = None

ArchiveInv ==
    backup.pc = "archived" => \A a \in Artifact : backup.rows[a] # None => backup.files[a] = backup.rows[a]

CallInv  == TypeOK /\ ProgressInv /\ KeyInv /\ RowInv /\ GraceInv /\ FlagInv
StoreInv == PreparedInv /\ AgedInv /\ UnreferencedInv /\ RowsHaveFiles /\ ArchiveInv

-----------------------------------------------------------------------------
(* What a call can do *)

\* It is answered without a trace, ...
Refused(c, r) ==
    /\ pc[c] \notin {"idle", "done"}
    /\ Answer(c, r)
    /\ UNCHANGED <<active, request, snapshot, executed, storeVars, jobVars, grace>>

\* ... or goes on to prepare, ...
Prepares(c, l) ==
    /\ pc[c] \in {"sent", "valid"}
    /\ l = "ready" => Target(c) = None
    /\ Goto(c, l)
    /\ UNCHANGED <<active, request, snapshot, executed, reply, storeVars, jobVars, grace>>

\* ... or publishes its file, ...
Publishes(c) ==
    /\ pc[c] = "fresh"
    /\ \/ file[Target(c)] = None /\ file' = [file EXCEPT ![Target(c)] = Subject(c)]
       \/ /\ file[Target(c)] = Subject(c) /\ file' = file
          /\ OrphansReused \/ row[Target(c)] # None \/ Target(c) \notin aged
    /\ Goto(c, "ready")
    /\ UNCHANGED <<active, request, snapshot, executed, reply, aged, row, jobVars, grace>>

\* ... or begins to write, ...
Enters(c) ==
    /\ pc[c] = "ready"
    /\ ~Maintenance
    /\ request[c].apiKey \in active
    /\ Goto(c, "writing")
    /\ snapshot' = [snapshot EXCEPT ![c] = executed]
    /\ UNCHANGED <<active, request, executed, reply, storeVars, jobVars, grace>>

\* ... or has the lock of its key.
Locks(c) ==
    /\ pc[c] = "writing"
    /\ KeyFree(c)
    /\ Known(c, Sees(c)) = {}
    /\ Goto(c, "locked")
    /\ UNCHANGED <<active, request, snapshot, executed, reply, storeVars, jobVars, grace>>

Results == {"conflict"} \cup Refusals \cup executed

LEMMA RecallAnswers ==
    ASSUME NEW c \in Call, NEW S \in SUBSET executed, Recall(c, S)
    PROVE  \E r \in Results : Answer(c, r)
BY DEF Recall, Known, Results

\* What a call sees is committed.
LEMMA SeesCommitted ==
    ASSUME TypeOK, NEW c \in Call
    PROVE  Sees(c) \in SUBSET executed
BY DEF TypeOK, Sees

LEMMA CallSteps ==
    ASSUME TypeOK, NEW c \in Call, Step(c) \/ Fail(c)
    PROVE  \/ \E r \in Results : Refused(c, r)
           \/ \E l \in {"valid", "ready", "fresh"} : Prepares(c, l)
           \/ Publishes(c) \/ Enters(c) \/ Locks(c) \/ Commit(c)
<1> DEFINE Still == UNCHANGED <<active, request, snapshot, executed, storeVars, jobVars, grace>>
<1>0. Refusals \subseteq Results /\ "conflict" \in Results
  BY DEF Results
<1>1. CASE Revalidate(c)
  <2>1. CASE request[c].apiKey \in active
    BY <1>1, <2>1 DEF Revalidate, Prepares
  <2>2. CASE request[c].apiKey \notin active
    <3>1. Refused(c, "denied")
      BY <1>1, <2>2 DEF Revalidate, Refused
    <3> QED
      BY <1>0, <3>1 DEF Refusals
  <2> QED
    BY <2>1, <2>2
<1>2. CASE LookUp(c)
  <2>1. CASE Recall(c, executed)
    <3>1. PICK r \in Results : Answer(c, r)
      BY <2>1, RecallAnswers
    <3>2. Refused(c, r)
      BY <1>2, <3>1 DEF LookUp, Refused
    <3> QED
      BY <3>2
  <2>2. CASE ~Recall(c, executed)
    <3>1. Prepares(c, IF Target(c) = None THEN "ready" ELSE "fresh")
      BY <1>2, <2>2 DEF LookUp, Prepares
    <3> QED
      BY <3>1
  <2> QED
    BY <2>1, <2>2
<1>3. CASE PrepareArtifact(c)
  <2>1. CASE Answer(c, "failed") /\ UNCHANGED file
    <3>1. Refused(c, "failed")
      BY <1>3, <2>1 DEF PrepareArtifact, Refused, storeVars
    <3> QED
      BY <1>0, <3>1 DEF Refusals
  <2>2. CASE ~(Answer(c, "failed") /\ UNCHANGED file)
    BY <1>3, <2>2 DEF PrepareArtifact, Publishes
  <2> QED
    BY <2>1, <2>2
<1>4. CASE Begin(c)
  <2>1. CASE WritesAllowed(c) /\ StillValid(c) /\ Goto(c, "writing") /\ UNCHANGED reply
             /\ snapshot' = [snapshot EXCEPT ![c] = executed]
    BY <1>4, <2>1 DEF Begin, Enters, WritesAllowed, StillValid
  <2>2. CASE Answer(c, "maintenance") /\ UNCHANGED snapshot
    <3>1. Refused(c, "maintenance")
      BY <1>4, <2>2 DEF Begin, Refused
    <3> QED
      BY <1>0, <3>1 DEF Refusals
  <2>3. CASE Answer(c, "denied") /\ UNCHANGED snapshot
    <3>1. Refused(c, "denied")
      BY <1>4, <2>3 DEF Begin, Refused
    <3> QED
      BY <1>0, <3>1 DEF Refusals
  <2> QED
    BY <1>4, <2>1, <2>2, <2>3 DEF Begin
<1>5. CASE LockKey(c)
  <2>1. CASE Recall(c, Sees(c))
    <3>1. PICK r \in Results : Answer(c, r)
      BY <2>1, RecallAnswers, SeesCommitted
    <3>2. Refused(c, r)
      BY <1>5, <3>1 DEF LockKey, Refused
    <3> QED
      BY <3>2
  <2>2. CASE ~Recall(c, Sees(c))
    BY <1>5, <2>2 DEF LockKey, Locks
  <2> QED
    BY <2>1, <2>2
<1>6. CASE Reject(c)
  <2>1. PICK r \in Refusals \cup {"conflict"} : Answer(c, r)
    BY <1>6 DEF Reject, Refusals
  <2>2. Refused(c, r)
    BY <1>6, <2>1 DEF Reject, Refused
  <2> QED
    BY <1>0, <2>1, <2>2
<1>7. CASE Fail(c)
  <2>1. Refused(c, "failed")
    BY <1>7 DEF Fail, Refused
  <2> QED
    BY <1>0, <2>1 DEF Refusals
<1> QED
  BY <1>1, <1>2, <1>3, <1>4, <1>5, <1>6, <1>7 DEF Step

-----------------------------------------------------------------------------
(* Types, progress *)

LEMMA StepType ==
    ASSUME TypeOK, ProgressInv, [Next]_intentVars
    PROVE  TypeOK' /\ ProgressInv'
<1> USE IntentAssumption DEF Refusals, Results
<1>1. ASSUME NEW c \in Call, NEW k \in OpKey, NEW x \in Content, NEW a \in ApiKey, Send(c, k, x, a)
      PROVE  TypeOK' /\ ProgressInv'
  <2>1. [key |-> k, content |-> x, apiKey |-> a] \in [key : OpKey, content : Content, apiKey : ApiKey]
    OBVIOUS
  <2>2. TypeOK'
    BY <1>1, <2>1 DEF TypeOK, Send, Goto, storeVars, jobVars
  <2>3. ProgressInv'
    BY <1>1, <2>1 DEF TypeOK, ProgressInv, Send, Goto
  <2> QED
    BY <2>2, <2>3
<1>2. ASSUME NEW c \in Call, NEW r \in Results, Refused(c, r)
      PROVE  TypeOK' /\ ProgressInv'
  <2>1. r # None
    BY DEF TypeOK
  <2>2. TypeOK'
    BY <1>2 DEF TypeOK, ProgressInv, Refused, Answer, Goto, storeVars, jobVars
  <2>3. ProgressInv'
    BY <1>2, <2>1 DEF TypeOK, ProgressInv, Refused, Answer, Goto
  <2> QED
    BY <2>2, <2>3
<1>3. ASSUME NEW c \in Call, NEW l \in {"valid", "ready", "fresh"}, Prepares(c, l)
      PROVE  TypeOK' /\ ProgressInv'
  BY <1>3 DEF TypeOK, ProgressInv, Prepares, Goto, storeVars, jobVars
<1>4. ASSUME NEW c \in Call, Publishes(c)
      PROVE  TypeOK' /\ ProgressInv'
  <2>1. Subject(c) \in Content
    BY <1>4 DEF Publishes, TypeOK, ProgressInv, Subject
  <2>2. file' \in [Artifact -> Content \cup {None}] /\ aged' \subseteq {a \in Artifact : file'[a] # None}
    BY <1>4, <2>1 DEF TypeOK, Publishes
  <2> QED
    BY <1>4, <2>2 DEF TypeOK, ProgressInv, Publishes, Goto, jobVars
<1>5. ASSUME NEW c \in Call, Enters(c)
      PROVE  TypeOK' /\ ProgressInv'
  BY <1>5 DEF TypeOK, ProgressInv, Enters, Goto, storeVars, jobVars
<1>6. ASSUME NEW c \in Call, Locks(c)
      PROVE  TypeOK' /\ ProgressInv'
  BY <1>6 DEF TypeOK, ProgressInv, Locks, Goto, storeVars, jobVars
<1>7. ASSUME NEW c \in Call, Commit(c)
      PROVE  TypeOK' /\ ProgressInv'
  <2>1. Subject(c) \in Content /\ Target(c) \in Artifact \cup {None}
    BY <1>7 DEF Commit, TypeOK, ProgressInv, Subject, Target
  <2>2. row' \in [Artifact -> Content \cup {None}]
    BY <1>7, <2>1 DEF TypeOK, Commit
  <2>3. /\ reply' = [reply EXCEPT ![c] = c] /\ pc' = [pc EXCEPT ![c] = "done"]
        /\ executed' = executed \cup {c} /\ c # None
        /\ UNCHANGED <<active, request, snapshot, file, aged, jobVars, grace>>
    BY <1>7 DEF Commit, Answer, Goto
  <2>4. executed' \subseteq {d \in Call : reply'[d] = d}
    BY <2>3 DEF TypeOK
  <2>5. snapshot' \in [Call -> SUBSET executed'] /\ reply' \in [Call -> {None, "conflict"} \cup Refusals \cup executed']
    BY <2>3 DEF TypeOK
  <2>6. TypeOK'
    BY <2>2, <2>3, <2>4, <2>5 DEF TypeOK, jobVars
  <2>7. ProgressInv'
    BY <1>7, <2>3 DEF TypeOK, ProgressInv, Commit
  <2> QED
    BY <2>6, <2>7
<1>8. ASSUME NEW a \in ApiKey, Revoke(a)
      PROVE  TypeOK' /\ ProgressInv'
  BY <1>8 DEF TypeOK, ProgressInv, Revoke, callVars, storeVars, jobVars
<1>9. ASSUME RaiseFlag \/ Dump \/ Archive \/ LowerFlag
      PROVE  TypeOK' /\ ProgressInv'
  <2>1. backup' \in [pc : {"off", "raised", "dumped", "archived"}, calls : SUBSET Call,
                     rows : [Artifact -> Content \cup {None}],
                     files : [Artifact -> Content \cup {None}]]
    <3>1. executed \subseteq Call /\ NoFiles \in [Artifact -> Content \cup {None}]
      BY DEF TypeOK, NoFiles
    <3>2. NoBackup \in [pc : {"off", "raised", "dumped", "archived"}, calls : SUBSET Call,
                        rows : [Artifact -> Content \cup {None}],
                        files : [Artifact -> Content \cup {None}]]
      BY <3>1 DEF NoBackup
    <3>3. CASE RaiseFlag
      BY <3>2, <3>3 DEF RaiseFlag
    <3>4. CASE Dump
      BY <3>1, <3>4 DEF Dump, TypeOK
    <3>5. CASE Archive
      BY <3>1, <3>5 DEF Archive, TypeOK
    <3>6. CASE LowerFlag
      BY <3>2, <3>6 DEF LowerFlag
    <3> QED
      BY <1>9, <3>3, <3>4, <3>5, <3>6
  <2>2. UNCHANGED <<active, callVars, executed, storeVars, reconciler, grace>>
    BY <1>9 DEF RaiseFlag, Dump, Archive, LowerFlag
  <2> QED
    BY <2>1, <2>2 DEF TypeOK, ProgressInv, callVars, storeVars
<1>10. ASSUME NEW a \in Artifact, Age(a)
       PROVE  TypeOK' /\ ProgressInv'
  BY <1>10 DEF TypeOK, ProgressInv, Age, callVars, jobVars
<1>11. ASSUME ReadReferences \/ ListFiles \/ EndReconciliation
       PROVE  TypeOK' /\ ProgressInv'
  <2>1. reconciler' \in [pc : {"off", "read", "listed"}, referenced : SUBSET Artifact,
                         listed : SUBSET Artifact]
    <3>1. Resting \in [pc : {"off", "read", "listed"}, referenced : SUBSET Artifact,
                       listed : SUBSET Artifact]
      BY DEF Resting
    <3>2. CASE ReadReferences
      BY <3>2 DEF ReadReferences
    <3>3. CASE ListFiles
      <4>1. PICK L \in SUBSET Artifact :
               reconciler' = Resting \/ reconciler' = [reconciler EXCEPT !.pc = "listed", !.listed = L]
        BY <3>3 DEF ListFiles
      <4> QED
        BY <3>1, <4>1 DEF TypeOK
    <3>4. CASE EndReconciliation
      BY <3>1, <3>4 DEF EndReconciliation
    <3> QED
      BY <1>11, <3>2, <3>3, <3>4
  <2>2. UNCHANGED <<active, callVars, executed, storeVars, backup, grace>>
    BY <1>11 DEF ReadReferences, ListFiles, EndReconciliation
  <2> QED
    BY <2>1, <2>2 DEF TypeOK, ProgressInv, callVars, storeVars
<1>12. ASSUME RemoveFile
       PROVE  TypeOK' /\ ProgressInv'
  BY <1>12 DEF TypeOK, ProgressInv, RemoveFile, callVars
<1>13. CASE UNCHANGED intentVars
  BY <1>13 DEF TypeOK, ProgressInv, intentVars, callVars, storeVars, jobVars
<1> HIDE DEF Results, Refusals
<1> QED
  BY <1>1, <1>2, <1>3, <1>4, <1>5, <1>6, <1>7, <1>8, <1>9, <1>10, <1>11, <1>12, <1>13, CallSteps DEF Next

-----------------------------------------------------------------------------
(* Keys, rows, revocation, maintenance *)

LEMMA StepCalls ==
    ASSUME CallInv, TypeOK', [Next]_intentVars
    PROVE  KeyInv' /\ RowInv' /\ GraceInv' /\ FlagInv'
<1> USE IntentAssumption DEF CallInv, HoldsKey, Known, Key, Subject, Target, Writing, Maintenance
<1>0. /\ executed \subseteq Call
      /\ \A c \in executed : reply[c] = c /\ pc[c] = "done" /\ request[c] # None
      /\ pc \in [Call -> {"idle", "sent", "valid", "fresh", "ready", "writing", "locked", "done"}]
      /\ request \in [Call -> [key : OpKey, content : Content, apiKey : ApiKey] \cup {None}]
      /\ row \in [Artifact -> Content \cup {None}]
  BY DEF TypeOK, ProgressInv
<1> DEFINE Four == KeyInv' /\ RowInv' /\ GraceInv' /\ FlagInv'
<1> SUFFICES Four
  OBVIOUS
<1>1. ASSUME NEW c \in Call, NEW k \in OpKey, NEW x \in Content, NEW a \in ApiKey, Send(c, k, x, a)
      PROVE  Four
  <2>1. /\ c \notin executed /\ pc' = [pc EXCEPT ![c] = "sent"]
        /\ \A d \in Call \ {c} : request'[d] = request[d]
        /\ UNCHANGED <<active, executed, row, backup, grace>>
    BY <1>0, <1>1 DEF Send, Goto, storeVars, jobVars
  <2>2. KeyInv'
    BY <1>0, <2>1 DEF KeyInv
  <2>3. RowInv'
    BY <1>0, <2>1 DEF RowInv
  <2>4. GraceInv'
    BY <1>0, <2>1 DEF GraceInv
  <2>5. FlagInv'
    BY <1>0, <2>1 DEF FlagInv
  <2> QED
    BY <2>2, <2>3, <2>4, <2>5
\* What does not commit, revoke, begin to write, take a lock or raise the flag.
<1>2. ASSUME \A c \in Call : Writing(c)' => Writing(c),
             \A c \in Call : HoldsKey(c)' => HoldsKey(c),
             UNCHANGED <<active, request, executed, row, backup, grace>>
      PROVE  Four
  <2>1. KeyInv'
    BY <1>2 DEF KeyInv
  <2>2. RowInv'
    BY <1>2 DEF RowInv
  <2>3. GraceInv'
    BY <1>2 DEF GraceInv
  <2>4. FlagInv'
    BY <1>2 DEF FlagInv
  <2> QED
    BY <2>1, <2>2, <2>3, <2>4
<1>3. ASSUME NEW c \in Call, NEW l \in {"valid", "ready", "fresh", "done"}, Goto(c, l),
             UNCHANGED <<active, request, executed, row, backup, grace>>
      PROVE  Four
  <2>1. \A d \in Call : pc'[d] = IF d = c THEN l ELSE pc[d]
    BY <1>0, <1>3 DEF Goto
  <2> QED
    BY <1>2, <1>3, <2>1
<1>4. ASSUME NEW c \in Call, Enters(c)
      PROVE  Four
  <2>1. /\ \A d \in Call : pc'[d] = IF d = c THEN "writing" ELSE pc[d]
        /\ UNCHANGED <<active, request, executed, row, backup, grace>>
        /\ backup.pc = "off" /\ request[c].apiKey \in active
    BY <1>0, <1>4 DEF Enters, Goto, storeVars, jobVars
  <2>2. KeyInv'
    BY <2>1 DEF KeyInv
  <2>3. RowInv'
    BY <2>1 DEF RowInv
  <2>4. GraceInv'
    BY <2>1 DEF GraceInv
  <2>5. FlagInv'
    BY <2>1 DEF FlagInv
  <2> QED
    BY <2>2, <2>3, <2>4, <2>5
<1>5. ASSUME NEW c \in Call, Locks(c)
      PROVE  Four
  <2>1. /\ \A d \in Call : pc'[d] = IF d = c THEN "locked" ELSE pc[d]
        /\ UNCHANGED <<active, request, executed, row, backup, grace>>
        /\ pc[c] = "writing"
        /\ \A d \in Call \ {c} : pc[d] = "locked" => request[d].key # request[c].key
        /\ Subject(c) \notin Explains => Known(c, executed) = {}
    BY <1>0, <1>5 DEF Locks, Goto, KeyFree, Sees, storeVars, jobVars
  <2>2. KeyInv'
    BY <2>1 DEF KeyInv
  <2>3. RowInv'
    BY <2>1 DEF RowInv
  <2>4. GraceInv'
    BY <2>1 DEF GraceInv
  <2>5. FlagInv'
    BY <2>1 DEF FlagInv
  <2> QED
    BY <2>2, <2>3, <2>4, <2>5
<1>6. ASSUME NEW c \in Call, Commit(c)
      PROVE  Four
  <2>1. /\ \A d \in Call : pc'[d] = IF d = c THEN "done" ELSE pc[d]
        /\ UNCHANGED <<active, request, backup, grace>>
        /\ pc[c] = "locked" /\ executed' = executed \cup {c}
        /\ row' = IF Target(c) = None THEN row ELSE [row EXCEPT ![Target(c)] = Subject(c)]
        /\ Storable(c)
    BY <1>0, <1>6 DEF Commit, Answer, Goto, jobVars
  <2>2. KeyInv'
    BY <2>1 DEF KeyInv
  <2>3. RowInv'
    <3> SUFFICES ASSUME NEW a \in Artifact, row'[a] # None
                 PROVE  \E d \in executed' : Target(d)' = a /\ Subject(d)' = row'[a]
      BY DEF RowInv
    <3>1. CASE Target(c) = a
      BY <1>0, <2>1, <3>1
    <3>2. CASE Target(c) # a
      <4>1. row'[a] = row[a]
        BY <1>0, <2>1, <3>2
      <4> QED
        BY <2>1, <4>1 DEF RowInv
    <3> QED
      BY <3>1, <3>2
  <2>4. GraceInv'
    BY <2>1 DEF GraceInv
  <2>5. FlagInv'
    BY <2>1 DEF FlagInv
  <2> QED
    BY <2>2, <2>3, <2>4, <2>5
<1>7. ASSUME NEW a \in ApiKey, Revoke(a)
      PROVE  Four
  <2>1. /\ active' = active \ {a} /\ UNCHANGED <<pc, request, executed, row, backup>>
        /\ grace' = grace \cup {c \in Call : /\ request[c] # None /\ request[c].apiKey = a
                                             /\ Writing(c) \/ c \in executed}
    BY <1>7 DEF Revoke, callVars, storeVars, jobVars
  <2>2. \A c \in Call : Writing(c) \/ c \in executed => request[c] # None
    BY <1>0 DEF ProgressInv
  <2>3. GraceInv'
    BY <2>1, <2>2 DEF GraceInv
  <2>4. KeyInv' /\ RowInv' /\ FlagInv'
    BY <2>1 DEF KeyInv, RowInv, FlagInv
  <2> QED
    BY <2>3, <2>4
<1>8. ASSUME RaiseFlag \/ Dump \/ Archive \/ LowerFlag
      PROVE  Four
  <2>1. UNCHANGED <<active, pc, request, executed, row, grace>>
    BY <1>8 DEF RaiseFlag, Dump, Archive, LowerFlag, callVars, storeVars
  <2>2. FlagInv'
    <3>1. CASE RaiseFlag
      BY <2>1, <3>1 DEF RaiseFlag, NoBackup, FlagInv
    <3>2. CASE Dump
      BY <2>1, <3>2 DEF Dump, FlagInv, TypeOK
    <3>3. CASE Archive
      BY <2>1, <3>3 DEF Archive, FlagInv, TypeOK
    <3>4. CASE LowerFlag
      BY <2>1, <3>4 DEF LowerFlag, NoBackup, FlagInv
    <3> QED
      BY <1>8, <3>1, <3>2, <3>3, <3>4
  <2>3. KeyInv' /\ RowInv' /\ GraceInv'
    BY <2>1 DEF KeyInv, RowInv, GraceInv
  <2> QED
    BY <2>2, <2>3
<1>9. ASSUME \/ \E a \in Artifact : Age(a)
             \/ ReadReferences \/ ListFiles \/ RemoveFile \/ EndReconciliation
             \/ UNCHANGED intentVars
      PROVE  UNCHANGED <<active, pc, request, executed, row, backup, grace>>
  BY <1>9 DEF Age, ReadReferences, ListFiles, RemoveFile, EndReconciliation,
              intentVars, callVars, storeVars, jobVars
<1>10. ASSUME UNCHANGED <<active, pc, request, executed, row, backup, grace>>
       PROVE  Four
  BY <1>2, <1>10
<1>11. ASSUME NEW c \in Call, NEW r \in Results, Refused(c, r)
       PROVE  Four
  BY <1>3, <1>11 DEF Refused, Answer, storeVars, jobVars
<1>12. ASSUME NEW c \in Call, NEW l \in {"valid", "ready", "fresh"}, Prepares(c, l)
       PROVE  Four
  BY <1>3, <1>12 DEF Prepares, storeVars, jobVars
<1>13. ASSUME NEW c \in Call, Publishes(c)
       PROVE  Four
  BY <1>3, <1>13 DEF Publishes, jobVars
<1> HIDE DEF Four
<1> QED
  BY <1>1, <1>4, <1>5, <1>6, <1>7, <1>8, <1>9, <1>10, <1>11, <1>12, <1>13, CallSteps DEF Next

\* The part of the invariant that concerns calls.
THEOREM CallInvariance == Spec => []CallInv
<1>1. Init => CallInv
  <2> SUFFICES ASSUME Init PROVE CallInv
    OBVIOUS
  <2>1. NoFiles \in [Artifact -> Content \cup {None}]
    BY DEF NoFiles
  <2>2. TypeOK
    BY <2>1, IntentAssumption DEF Init, TypeOK, Resting, NoBackup
  <2>3. ProgressInv /\ KeyInv /\ RowInv /\ GraceInv /\ FlagInv
    BY DEF Init, ProgressInv, KeyInv, RowInv, GraceInv, FlagInv, HoldsKey, Writing, Maintenance,
           NoFiles, NoBackup
  <2> QED
    BY <2>2, <2>3 DEF CallInv
<1>2. CallInv /\ [Next]_intentVars => CallInv'
  BY StepType, StepCalls DEF CallInv
<1> QED
  BY <1>1, <1>2, PTL DEF Spec

\* Type correctness.
THEOREM IntentTypeCorrect == Spec => []TypeOK
<1>1. CallInv => TypeOK
  BY DEF CallInv
<1> QED
  BY <1>1, CallInvariance, PTL

\* Nothing is executed for a key that was revoked before the call began to write.
THEOREM RevocationSafety == Spec => []RevokedExecutesNothing
<1>1. CallInv => RevokedExecutesNothing
  BY DEF CallInv, TypeOK, GraceInv, RevokedExecutesNothing
<1> QED
  BY <1>1, CallInvariance, PTL

\* A retry outside REPEATABLE READ is never refused because its operation has happened.
THEOREM RetrySafety == Spec => OrdinaryRetriesReplay
<1>1. CallInv /\ [Next]_intentVars
        => [\A c \in Call : request[c] # None /\ Subject(c) \notin Explains => RetryReplays(c)]_intentVars
  <2> SUFFICES ASSUME CallInv, [Next]_intentVars, NEW c \in Call,
                      Subject(c) \notin Explains, reply[c] = None
               PROVE  reply'[c] \notin {"serialization", "duplicate"}
    BY DEF RetryReplays
  <2>0. /\ reply \in [Call -> {None, "conflict"} \cup Refusals \cup executed]
        /\ Known(c, executed) \subseteq Call
        /\ None \notin Refusals /\ Call \cap Refusals = {} /\ executed \subseteq Call
        /\ {"serialization", "duplicate"} \subseteq Refusals
    BY IntentAssumption DEF CallInv, TypeOK, Known, Refusals
  <2>1. CASE reply'[c] = None
    BY <2>0, <2>1
  <2>2. ASSUME NEW d \in Call \ {c}, NEW r, Answer(d, r)
        PROVE  reply'[c] = None
    BY <2>0, <2>2 DEF Answer
  <2>3. CASE UNCHANGED reply
    BY <2>1, <2>3
  <2>4. ASSUME NEW r, Answer(c, r)
        PROVE  reply'[c] = r
    BY <2>0, <2>4 DEF Answer
  <2>5. ASSUME NEW S \in SUBSET executed, Recall(c, S)
        PROVE  reply'[c] \notin {"serialization", "duplicate"}
    BY <2>0, <2>4, <2>5, IntentAssumption DEF Recall, Known, Refusals
  <2>6. CASE Step(c) \/ Fail(c)
    <3>1. CASE Revalidate(c)
      BY <2>1, <2>4, <3>1 DEF Revalidate
    <3>2. CASE LookUp(c)
      BY <2>1, <2>5, <3>2 DEF LookUp
    <3>3. CASE PrepareArtifact(c)
      BY <2>1, <2>4, <3>3 DEF PrepareArtifact
    <3>4. CASE Begin(c)
      BY <2>1, <2>4, <3>4 DEF Begin
    <3>5. CASE LockKey(c)
      <4>1. Sees(c) \in SUBSET executed
        BY SeesCommitted DEF CallInv
      <4> QED
        BY <2>1, <2>5, <3>5, <4>1 DEF LockKey
    <3>6. CASE Commit(c)
      BY <2>0, <2>4, <3>6 DEF Commit
    <3>7. CASE Reject(c)
      <4>1. Sees(c) = executed /\ Known(c, executed) = {}
        BY <3>7 DEF Reject, Sees, CallInv, KeyInv, HoldsKey
      <4> QED
        BY <2>4, <3>7, <4>1 DEF Reject
    <3>8. CASE Fail(c)
      BY <2>4, <3>8 DEF Fail
    <3> QED
      BY <2>6, <3>1, <3>2, <3>3, <3>4, <3>5, <3>6, <3>7, <3>8 DEF Step
  <2>7. ASSUME NEW d \in Call \ {c}, Step(d) \/ Fail(d)
        PROVE  reply'[c] \notin {"serialization", "duplicate"}
    <3>1. \/ \E r \in Results : Refused(d, r)
          \/ \E l \in {"valid", "ready", "fresh"} : Prepares(d, l)
          \/ Publishes(d) \/ Enters(d) \/ Locks(d) \/ Commit(d)
      BY <2>7, CallSteps DEF CallInv
    <3>2. (\E r : Answer(d, r)) \/ UNCHANGED reply
      BY <3>1 DEF Refused, Prepares, Publishes, Enters, Locks, Commit
    <3> QED
      BY <2>1, <2>2, <2>3, <3>2
  <2>8. ASSUME \/ \E d \in Call, k \in OpKey, x \in Content, a \in ApiKey : Send(d, k, x, a)
               \/ \E a \in ApiKey : Revoke(a)
               \/ RaiseFlag \/ Dump \/ Archive \/ LowerFlag
               \/ \E a \in Artifact : Age(a)
               \/ ReadReferences \/ ListFiles \/ RemoveFile \/ EndReconciliation
               \/ UNCHANGED intentVars
        PROVE  UNCHANGED reply
    BY <2>8 DEF Send, Revoke, RaiseFlag, Dump, Archive, LowerFlag, Age, ReadReferences, ListFiles,
                RemoveFile, EndReconciliation, intentVars, callVars
  <2> QED
    BY <2>3, <2>6, <2>7, <2>8 DEF Next
<1> QED
  BY <1>1, CallInvariance, PTL DEF Spec, OrdinaryRetriesReplay

-----------------------------------------------------------------------------
(* The artifact store *)

LEMMA StepStore ==
    ASSUME CallInv, CallInv', StoreInv, ~OrphansReused, [Next]_intentVars
    PROVE  StoreInv'
<1> USE IntentAssumption DEF Writing, Prepared, Subject, Target
<1> DEFINE Five == PreparedInv' /\ AgedInv' /\ UnreferencedInv' /\ RowsHaveFiles' /\ ArchiveInv'
<1> SUFFICES Five
  BY DEF StoreInv
<1>0. /\ pc \in [Call -> {"idle", "sent", "valid", "fresh", "ready", "writing", "locked", "done"}]
      /\ \A c \in Call : pc[c] # "idle" => request[c].content \in Content
                                        /\ Target(c) \in Artifact \cup {None}
      /\ row \in [Artifact -> Content \cup {None}] /\ file \in [Artifact -> Content \cup {None}]
      /\ aged \subseteq {a \in Artifact : file[a] # None}
      /\ executed \subseteq Call
      /\ reconciler \in [pc : {"off", "read", "listed"}, referenced : SUBSET Artifact,
                         listed : SUBSET Artifact]
      /\ backup \in [pc : {"off", "raised", "dumped", "archived"}, calls : SUBSET Call,
                   rows : [Artifact -> Content \cup {None}],
                   files : [Artifact -> Content \cup {None}]]
  BY DEF CallInv, TypeOK, ProgressInv
<1>00. PreparedInv /\ AgedInv /\ UnreferencedInv /\ RowsHaveFiles /\ ArchiveInv
  BY DEF StoreInv
<1>1. ASSUME \A c \in Call : Prepared(c)' => Prepared(c) /\ request'[c] = request[c],
             UNCHANGED <<storeVars, jobVars>>
      PROVE  Five
  <2>1. UNCHANGED <<file, aged, row, reconciler, backup>>
    BY <1>1 DEF storeVars, jobVars
  <2>2. PreparedInv'
    BY <1>00, <1>1, <2>1 DEF PreparedInv
  <2>3. AgedInv'
    BY <1>00, <1>1, <2>1 DEF AgedInv
  <2>4. UnreferencedInv' /\ RowsHaveFiles' /\ ArchiveInv'
    BY <1>00, <2>1 DEF UnreferencedInv, RowsHaveFiles, ArchiveInv
  <2> QED
    BY <2>2, <2>3, <2>4
<1>2. ASSUME NEW c \in Call, NEW k \in OpKey, NEW x \in Content, NEW a \in ApiKey, Send(c, k, x, a)
      PROVE  Five
  <2>1. /\ pc' = [pc EXCEPT ![c] = "sent"] /\ \A d \in Call \ {c} : request'[d] = request[d]
        /\ UNCHANGED <<storeVars, jobVars>>
    BY <1>0, <1>2 DEF Send, Goto, CallInv, TypeOK
  <2> QED
    BY <1>0, <1>1, <2>1
<1>3. ASSUME NEW c \in Call, NEW l \in {"valid", "fresh", "done"}, Goto(c, l),
             UNCHANGED <<request, storeVars, jobVars>>
      PROVE  Five
  BY <1>0, <1>1, <1>3 DEF Goto
<1>4. ASSUME NEW c \in Call, Prepares(c, "ready")
      PROVE  Five
  <2>1. /\ pc' = [pc EXCEPT ![c] = "ready"] /\ Target(c) = None
        /\ UNCHANGED <<request, file, aged, row, reconciler, backup>>
    BY <1>4 DEF Prepares, Goto, storeVars, jobVars
  <2>2. PreparedInv'
    BY <1>0, <1>00, <2>1 DEF PreparedInv
  <2>3. AgedInv'
    BY <1>0, <1>00, <2>1 DEF AgedInv
  <2>4. UnreferencedInv' /\ RowsHaveFiles' /\ ArchiveInv'
    BY <1>00, <2>1 DEF UnreferencedInv, RowsHaveFiles, ArchiveInv
  <2> QED
    BY <2>2, <2>3, <2>4
<1>5. ASSUME NEW c \in Call, Publishes(c)
      PROVE  Five
  <2>1. /\ pc' = [pc EXCEPT ![c] = "ready"] /\ pc[c] = "fresh" /\ request[c].content \in Content
        /\ UNCHANGED <<request, aged, row, reconciler, backup>>
    BY <1>0, <1>5 DEF Publishes, Goto, jobVars
  <2>2. CASE Target(c) \notin Artifact
    <3>1. Target(c) = None /\ file' = file
      BY <1>0, <1>5, <2>1, <2>2 DEF Publishes
    <3>2. PreparedInv'
      BY <1>0, <1>00, <2>1, <3>1 DEF PreparedInv
    <3>3. AgedInv'
      BY <1>0, <1>00, <2>1, <2>2 DEF AgedInv
    <3>4. UnreferencedInv' /\ RowsHaveFiles' /\ ArchiveInv'
      BY <1>00, <2>1, <3>1 DEF UnreferencedInv, RowsHaveFiles, ArchiveInv
    <3> QED
      BY <3>2, <3>3, <3>4
  <2>3. CASE Target(c) \in Artifact
    <3>1. /\ file[Target(c)] \in {None, Subject(c)}
          /\ \A a \in Artifact : file'[a] = IF a = Target(c) THEN Subject(c) ELSE file[a]
          /\ file[Target(c)] = Subject(c) => row[Target(c)] # None \/ Target(c) \notin aged
      BY <1>0, <1>5, <2>3 DEF Publishes
    <3>2. PreparedInv'
      <4> SUFFICES ASSUME NEW d \in Call, Prepared(d)', Target(d)' # None
                   PROVE  file'[Target(d)'] = Subject(d)'
        BY DEF PreparedInv
      <4>1. CASE d = c
        BY <2>1, <2>3, <3>1, <4>1
      <4>2. CASE d # c
        <5>1. Prepared(d) /\ Target(d)' = Target(d) /\ Target(d) \in Artifact
          BY <1>0, <2>1, <4>2
        <5>2. file[Target(d)] = Subject(d) /\ Subject(d) # None
          BY <1>0, <1>00, <5>1 DEF PreparedInv
        <5> QED
          BY <2>1, <3>1, <5>1, <5>2
      <4> QED
        BY <4>1, <4>2
    <3>3. AgedInv'
      <4>1. Target(c) \in aged => row[Target(c)] # None
        BY <1>0, <2>1, <3>1
      <4> QED
        BY <1>0, <1>00, <2>1, <4>1 DEF AgedInv
    <3>4. UnreferencedInv'
      BY <1>00, <2>1 DEF UnreferencedInv
    <3>5. RowsHaveFiles'
      BY <1>0, <1>00, <2>1, <3>1 DEF RowsHaveFiles
    <3>6. ArchiveInv'
      BY <1>00, <2>1 DEF ArchiveInv
    <3> QED
      BY <3>2, <3>3, <3>4, <3>5, <3>6
  <2> QED
    BY <2>2, <2>3
<1>6. ASSUME NEW c \in Call, Enters(c) \/ Locks(c)
      PROVE  Five
  <2>1. /\ Prepared(c) /\ \A d \in Call : d # c => pc'[d] = pc[d]
        /\ UNCHANGED <<request, storeVars, jobVars>>
    BY <1>0, <1>6 DEF Enters, Locks, Goto
  <2> QED
    BY <1>1, <2>1
<1>7. ASSUME NEW c \in Call, Commit(c)
      PROVE  Five
  <2>1. /\ pc' = [pc EXCEPT ![c] = "done"] /\ pc[c] = "locked"
        /\ row' = IF Target(c) = None THEN row ELSE [row EXCEPT ![Target(c)] = Subject(c)]
        /\ UNCHANGED <<request, file, aged, reconciler, backup>>
    BY <1>7 DEF Commit, Answer, Goto, jobVars
  <2>2. Target(c) # None => /\ file[Target(c)] = Subject(c)
                            /\ Target(c) \in aged => row[Target(c)] # None
    BY <1>00, <2>1 DEF PreparedInv, AgedInv
  <2>3. /\ Subject(c) \in Content /\ Target(c) \in Artifact \cup {None}
        /\ \A a \in Artifact : row'[a] = IF a = Target(c) THEN Subject(c) ELSE row[a]
    BY <1>0, <2>1
  <2>4. PreparedInv'
    BY <1>0, <1>00, <2>1 DEF PreparedInv
  <2>5. AgedInv'
    <3> SUFFICES ASSUME NEW d \in Call, Prepared(d)', Target(d)' \in aged
                 PROVE  row'[Target(d)'] # None
      BY <2>1 DEF AgedInv
    <3>1. Prepared(d) /\ Target(d) \in Artifact /\ Target(d)' = Target(d)
      BY <1>0, <2>1
    <3> QED
      BY <1>00, <2>1, <2>3, <3>1 DEF AgedInv
  <2>6. UnreferencedInv'
    BY <1>0, <1>00, <2>1, <2>2, <2>3 DEF UnreferencedInv
  <2>7. RowsHaveFiles'
    BY <1>00, <2>1, <2>2, <2>3 DEF RowsHaveFiles
  <2>8. ArchiveInv'
    BY <1>00, <2>1 DEF ArchiveInv
  <2> QED
    BY <2>4, <2>5, <2>6, <2>7, <2>8
<1>8. ASSUME NEW a \in ApiKey, Revoke(a)
      PROVE  Five
  BY <1>1, <1>8 DEF Revoke, callVars
<1>9. ASSUME RaiseFlag \/ Dump \/ Archive \/ LowerFlag
      PROVE  Five
  <2>1. UNCHANGED <<pc, request, file, aged, row, reconciler>>
    BY <1>9 DEF RaiseFlag, Dump, Archive, LowerFlag, callVars, storeVars
  <2>2. ArchiveInv'
    <3>1. CASE Archive
      <4>1. /\ backup.rows = row /\ backup'.rows = backup.rows /\ backup'.files = file
        BY <1>0, <3>1 DEF Archive, CallInv, FlagInv
      <4> QED
        BY <1>00, <4>1 DEF ArchiveInv, RowsHaveFiles
    <3>2. CASE RaiseFlag \/ Dump \/ LowerFlag
      <4>1. ASSUME RaiseFlag
            PROVE  backup'.pc # "archived"
        BY <4>1 DEF RaiseFlag, NoBackup
      <4>2. ASSUME Dump
            PROVE  backup'.pc # "archived"
        <5>1. backup' = [backup EXCEPT !.pc = "dumped", !.calls = executed, !.rows = row]
          BY <4>2 DEF Dump
        <5> QED
          BY <1>0, <5>1
      <4>3. ASSUME LowerFlag
            PROVE  backup'.pc # "archived"
        BY <4>3 DEF LowerFlag, NoBackup
      <4> QED
        BY <3>2, <4>1, <4>2, <4>3 DEF ArchiveInv
    <3> QED
      BY <1>9, <3>1, <3>2
  <2>3. PreparedInv' /\ AgedInv' /\ UnreferencedInv' /\ RowsHaveFiles'
    BY <1>00, <2>1 DEF PreparedInv, AgedInv, UnreferencedInv, RowsHaveFiles
  <2> QED
    BY <2>2, <2>3
<1>10. ASSUME NEW a \in Artifact, Age(a)
       PROVE  Five
  <2>1. /\ aged' = aged \cup {a} /\ reconciler.pc # "read"
        /\ \A c \in Call : Prepared(c) => Target(c) # a
        /\ UNCHANGED <<pc, request, file, row, reconciler, backup>>
    BY <1>10 DEF Age, callVars, jobVars
  <2>2. PreparedInv' /\ RowsHaveFiles' /\ ArchiveInv'
    BY <1>00, <2>1 DEF PreparedInv, RowsHaveFiles, ArchiveInv
  <2>3. AgedInv'
    BY <1>00, <2>1 DEF AgedInv
  <2>4. UnreferencedInv'
    BY <1>00, <2>1 DEF UnreferencedInv
  <2> QED
    BY <2>2, <2>3, <2>4
<1>11. ASSUME ReadReferences \/ ListFiles \/ EndReconciliation
       PROVE  Five
  <2>1. UNCHANGED <<pc, request, file, aged, row, backup>>
    BY <1>11 DEF ReadReferences, ListFiles, EndReconciliation, callVars, storeVars
  <2>2. UnreferencedInv'
    <3>1. CASE ReadReferences
      <4>1. reconciler'.pc = "read" /\ reconciler'.referenced = {a \in Artifact : row[a] # None}
        BY <3>1 DEF ReadReferences
      <4> QED
        BY <1>0, <2>1, <4>1 DEF UnreferencedInv
    <3>2. CASE ListFiles
      <4>1. CASE reconciler' = Resting
        BY <4>1 DEF Resting, UnreferencedInv
      <4>2. CASE reconciler' # Resting
        <5>1. /\ reconciler.pc = "read"
              /\ reconciler' = [reconciler EXCEPT !.pc = "listed",
                                                  !.listed = {a \in Artifact : Removable(a)}]
          BY <3>2, <4>2 DEF ListFiles
        <5>2. reconciler'.pc = "listed" /\ reconciler'.listed = {a \in Artifact : Removable(a)}
          BY <1>0, <5>1
        <5> QED
          BY <1>00, <2>1, <5>1, <5>2 DEF UnreferencedInv, Removable
      <4> QED
        BY <4>1, <4>2
    <3>3. CASE EndReconciliation
      BY <3>3 DEF EndReconciliation, Resting, UnreferencedInv
    <3> QED
      BY <1>11, <3>1, <3>2, <3>3
  <2>3. PreparedInv' /\ AgedInv' /\ RowsHaveFiles' /\ ArchiveInv'
    BY <1>00, <2>1 DEF PreparedInv, AgedInv, RowsHaveFiles, ArchiveInv
  <2> QED
    BY <2>2, <2>3
<1>12. ASSUME RemoveFile
       PROVE  Five
  <2>1. PICK a \in reconciler.listed :
            /\ reconciler.pc = "listed"
            /\ file' = [file EXCEPT ![a] = None]
            /\ aged' = aged \ {a}
            /\ reconciler' = [reconciler EXCEPT !.listed = @ \ {a}]
            /\ UNCHANGED <<pc, request, row, backup>>
    BY <1>12 DEF RemoveFile, callVars
  <2>2. a \in aged /\ row[a] = None /\ \A c \in Call : Prepared(c) => Target(c) # a
    BY <1>00, <2>1 DEF UnreferencedInv, AgedInv
  <2>3. \A b \in Artifact : b # a => file'[b] = file[b]
    BY <1>0, <2>1
  <2>4. PreparedInv'
    <3> SUFFICES ASSUME NEW d \in Call, Prepared(d), Target(d) # None
                 PROVE  file'[Target(d)] = Subject(d)
      BY <2>1 DEF PreparedInv
    <3>1. Target(d) \in Artifact /\ file[Target(d)] = Subject(d) /\ Target(d) # a
      BY <1>0, <1>00, <2>2 DEF PreparedInv
    <3> QED
      BY <2>3, <3>1
  <2>5. AgedInv'
    BY <1>00, <2>1 DEF AgedInv
  <2>6. UnreferencedInv'
    <3>1. reconciler'.pc = "listed" /\ reconciler'.listed = reconciler.listed \ {a}
      BY <1>0, <2>1
    <3> QED
      BY <1>00, <2>1, <3>1 DEF UnreferencedInv
  <2>7. RowsHaveFiles'
    BY <1>00, <2>1, <2>2, <2>3 DEF RowsHaveFiles
  <2>8. ArchiveInv'
    BY <1>00, <2>1 DEF ArchiveInv
  <2> QED
    BY <2>4, <2>5, <2>6, <2>7, <2>8
<1>13. CASE UNCHANGED intentVars
  BY <1>1, <1>13 DEF intentVars, callVars
<1>14. ASSUME NEW c \in Call, NEW r \in Results, Refused(c, r)
       PROVE  Five
  BY <1>3, <1>14 DEF Refused, Answer
<1>15. ASSUME NEW c \in Call, NEW l \in {"valid", "ready", "fresh"}, Prepares(c, l)
       PROVE  Five
  <2>1. CASE l = "ready"
    BY <1>4, <1>15, <2>1
  <2>2. CASE l # "ready"
    BY <1>3, <1>15, <2>2 DEF Prepares
  <2> QED
    BY <2>1, <2>2
<1>16. TypeOK
  BY DEF CallInv
<1> HIDE DEF Five, Writing, Prepared, Subject, Target
<1> QED
  BY <1>2, <1>5, <1>6, <1>7, <1>8, <1>9, <1>10, <1>11, <1>12, <1>13, <1>14, <1>15, <1>16, CallSteps
  DEF Next

\* Unless an old file without a row is taken up again, the store and the
\* reconciler keep the invariant.
LEMMA StoreInvariance ==
    ASSUME ~OrphansReused
    PROVE  Spec => []StoreInv
<1>1. Init => StoreInv
  <2> SUFFICES ASSUME Init
               PROVE  StoreInv
    OBVIOUS
  <2>1. /\ \A c \in Call : ~Prepared(c)
        /\ aged = {} /\ reconciler.pc = "off" /\ backup.pc = "off"
        /\ \A a \in Artifact : row[a] = None
    BY DEF Init, Prepared, Writing, Resting, NoBackup, NoFiles
  <2> QED
    BY <2>1 DEF StoreInv, PreparedInv, AgedInv, UnreferencedInv, RowsHaveFiles, ArchiveInv
<1>2. CallInv /\ CallInv' /\ StoreInv /\ [Next]_intentVars => StoreInv'
  BY StepStore
<1> QED
  BY <1>1, <1>2, CallInvariance, PTL DEF Spec

\* A row always has its file: no interleaving of calls, reconciler and backups
\* removes a file that a row refers to.
THEOREM StoreSafety ==
    ASSUME ~OrphansReused
    PROVE  Spec => []RowsHaveFiles
<1>1. StoreInv => RowsHaveFiles
  BY DEF StoreInv
<1> QED
  BY <1>1, StoreInvariance, PTL

\* A backup has a dump and an archive that belong together.
THEOREM BackupSafety ==
    ASSUME ~OrphansReused
    PROVE  Spec => []BackupConsistent
<1>1. CallInv /\ StoreInv => BackupConsistent
  BY DEF CallInv, FlagInv, StoreInv, ArchiveInv, BackupConsistent
<1> QED
  BY <1>1, CallInvariance, StoreInvariance, PTL

-----------------------------------------------------------------------------
(* IntentExecution implements IdempotentService *)

\* The abstract asked and replied of a state.
AskedOf == [c \in Call |-> IF request[c] = None THEN None
                           ELSE [key |-> Key(c), content |-> Subject(c)]]
RepliedOf == [c \in Call |-> IF reply[c] \in Refusals THEN "refused" ELSE reply[c]]

\* The abstract call c is answered r.
Replies(c, r) ==
    /\ AskedOf[c] # None /\ RepliedOf[c] = None
    /\ RepliedOf' = [RepliedOf EXCEPT ![c] = r]
    /\ UNCHANGED AskedOf

\* What the abstract actions are in terms of the concrete state.
LEMMA Abstractly ==
    ASSUME NEW c \in Call
    PROVE  /\ Replies(c, "refused") /\ UNCHANGED executed => Service!Refuse(c)
           /\ \A d \in executed : /\ AskedOf[d] = AskedOf[c] /\ Replies(c, d)
                                  /\ UNCHANGED executed
                                  => Service!Replay(c)
           /\ \A d \in executed :
                 /\ AskedOf[c].content # AskedOf[d].content
                 /\ \/ AskedOf[c].key = AskedOf[d].key
                    \/ /\ ArtifactOf[AskedOf[c].content] # None
                       /\ ArtifactOf[AskedOf[c].content] = ArtifactOf[AskedOf[d].content]
                 /\ Replies(c, "conflict")
                 /\ UNCHANGED executed
                 => Service!Conflict(c)
           /\ /\ \A d \in executed : AskedOf[d].key # AskedOf[c].key
              /\ executed' = executed \cup {c}
              /\ Replies(c, c)
              => Service!Execute(c)
           /\ \A k \in OpKey, x \in Content :
                 /\ AskedOf[c] = None
                 /\ AskedOf' = [AskedOf EXCEPT ![c] = [key |-> k, content |-> x]]
                 /\ UNCHANGED <<executed, RepliedOf>>
                 => Service!Ask(c, k, x)
<1>1. Replies(c, "refused") /\ UNCHANGED executed => Service!Refuse(c)
  BY DEF Replies, AskedOf, RepliedOf, Service!Refuse, Service!Waiting, Service!Reply
<1>2. ASSUME NEW d \in executed, AskedOf[d] = AskedOf[c], Replies(c, d), UNCHANGED executed
      PROVE  Service!Replay(c)
  BY <1>2 DEF Replies, AskedOf, RepliedOf, Service!Replay, Service!Waiting, Service!Reply
<1>3. ASSUME NEW d \in executed,
             /\ AskedOf[c].content # AskedOf[d].content
             /\ \/ AskedOf[c].key = AskedOf[d].key
                \/ /\ ArtifactOf[AskedOf[c].content] # None
                   /\ ArtifactOf[AskedOf[c].content] = ArtifactOf[AskedOf[d].content],
             Replies(c, "conflict"), UNCHANGED executed
      PROVE  Service!Conflict(c)
  BY <1>3 DEF Replies, AskedOf, RepliedOf, Service!Conflict, Service!Clash, Service!Waiting, Service!Reply
<1>4. ASSUME \A d \in executed : AskedOf[d].key # AskedOf[c].key,
             executed' = executed \cup {c}, Replies(c, c)
      PROVE  Service!Execute(c)
  BY <1>4 DEF Replies, AskedOf, RepliedOf, Service!Execute, Service!Waiting, Service!Reply
<1>5. ASSUME NEW k \in OpKey, NEW x \in Content, AskedOf[c] = None,
             AskedOf' = [AskedOf EXCEPT ![c] = [key |-> k, content |-> x]],
             UNCHANGED <<executed, RepliedOf>>
      PROVE  Service!Ask(c, k, x)
  BY <1>5 DEF AskedOf, RepliedOf, Service!Ask
<1> QED
  BY <1>1, <1>2, <1>3, <1>4, <1>5

\* An answer to a call is the abstract answer.
LEMMA AnswerReplies ==
    ASSUME TypeOK, ProgressInv, NEW c \in Call, NEW r, pc[c] \notin {"idle", "done"},
           Answer(c, r), UNCHANGED request
    PROVE  Replies(c, IF r \in Refusals THEN "refused" ELSE r)
<1>1. request[c] # None /\ reply[c] = None /\ None \notin Refusals /\ reply' = [reply EXCEPT ![c] = r]
  BY IntentAssumption DEF ProgressInv, Answer
<1>2. AskedOf[c] # None
  <2>1. /\ Key(c) \in OpKey /\ Subject(c) \in Content
        /\ AskedOf[c] = [key |-> Key(c), content |-> Subject(c)]
    BY <1>1 DEF TypeOK, AskedOf, Key, Subject
  <2> QED
    BY <2>1, IntentAssumption
<1>3. UNCHANGED AskedOf
  BY DEF AskedOf, Key, Subject
<1>4. RepliedOf' = [RepliedOf EXCEPT ![c] = IF r \in Refusals THEN "refused" ELSE r]
  BY <1>1 DEF RepliedOf, TypeOK
<1> QED
  BY <1>1, <1>2, <1>3, <1>4 DEF Replies, RepliedOf

\* What the call c asks, abstractly, once it is sent.
LEMMA AskedIs ==
    ASSUME TypeOK, ProgressInv, NEW c \in Call, pc[c] # "idle" \/ c \in executed
    PROVE  AskedOf[c] = [key |-> Key(c), content |-> Subject(c)]
<1>1. c \in executed => pc[c] # "idle"
  <2> SUFFICES ASSUME c \in executed
               PROVE  pc[c] # "idle"
    OBVIOUS
  <2>1. reply[c] # None
    BY IntentAssumption DEF TypeOK
  <2> QED
    BY <2>1 DEF ProgressInv
<1> QED
  BY <1>1 DEF ProgressInv, AskedOf

\* A key that is found replays or is in conflict.
LEMMA RecallServes ==
    ASSUME TypeOK, ProgressInv, NEW c \in Call, NEW S \in SUBSET executed, Recall(c, S),
           pc[c] \notin {"idle", "done"}, UNCHANGED <<request, executed>>
    PROVE  Service!Replay(c) \/ Service!Conflict(c)
<1>1. PICK d \in Known(c, S) : IF Matches(c, d) THEN Answer(c, d) ELSE Answer(c, "conflict")
  BY DEF Recall
<1>2. d \in executed /\ d \in Call /\ Key(d) = Key(c)
  BY <1>1 DEF Known, TypeOK
<1>3. /\ AskedOf[c] = [key |-> Key(c), content |-> Subject(c)]
      /\ AskedOf[d] = [key |-> Key(d), content |-> Subject(d)]
  BY <1>2, AskedIs
<1>4. CASE Matches(c, d)
  <2>1. d \notin Refusals
    BY <1>2, IntentAssumption
  <2>2. Replies(c, d)
    BY <1>1, <1>4, <2>1, AnswerReplies
  <2> QED
    BY <1>2, <1>3, <1>4, <2>2, Abstractly DEF Matches
<1>5. CASE ~Matches(c, d)
  <2>1. Replies(c, "conflict")
    BY <1>1, <1>5, AnswerReplies DEF Refusals
  <2>2. AskedOf[c].content # AskedOf[d].content /\ AskedOf[c].key = AskedOf[d].key
    BY <1>2, <1>3, <1>5 DEF Matches
  <2> QED
    BY <1>2, <2>1, <2>2, Abstractly
<1> QED
  BY <1>4, <1>5

\* Every step is a step of the service, or none.
LEMMA StepServes ==
    ASSUME CallInv, [Next]_intentVars
    PROVE  [Service!Next]_(Service!serviceVars)
<1> DEFINE Serves == [Service!Next]_(Service!serviceVars)
<1>0. TypeOK /\ ProgressInv /\ KeyInv /\ RowInv
  BY DEF CallInv
<1>1. ASSUME UNCHANGED <<request, executed, reply>>
      PROVE  Serves
  BY <1>1 DEF Service!serviceVars, Key, Subject
<1>2. ASSUME NEW c \in Call, NEW r \in Refusals, pc[c] \notin {"idle", "done"}, Answer(c, r),
             UNCHANGED <<request, executed>>
      PROVE  Serves
  <2>1. Service!Refuse(c)
    BY <1>0, <1>2, AnswerReplies, Abstractly
  <2> QED
    BY <2>1 DEF Service!Next
<1>3. ASSUME NEW c \in Call, NEW S \in SUBSET executed, Recall(c, S), pc[c] \notin {"idle", "done"},
             UNCHANGED <<request, executed>>
      PROVE  Serves
  BY <1>0, <1>3, RecallServes DEF Service!Next
<1>4. ASSUME NEW c \in Call, NEW k \in OpKey, NEW x \in Content, NEW a \in ApiKey, Send(c, k, x, a)
      PROVE  Serves
  <2>1. /\ request[c] = None /\ UNCHANGED <<executed, reply>>
        /\ request' = [request EXCEPT ![c] = [key |-> k, content |-> x, apiKey |-> a]]
    BY <1>0, <1>4 DEF Send, ProgressInv
  <2>2. [key |-> k, content |-> x, apiKey |-> a] # None
    BY IntentAssumption
  <2>3. AskedOf[c] = None /\ AskedOf' = [AskedOf EXCEPT ![c] = [key |-> k, content |-> x]]
    BY <1>0, <2>1, <2>2 DEF AskedOf, TypeOK, Key, Subject
  <2>4. UNCHANGED RepliedOf
    BY <2>1 DEF RepliedOf
  <2>5. Service!Ask(c, k, x)
    BY <2>1, <2>3, <2>4, Abstractly
  <2> QED
    BY <2>5 DEF Service!Next
<1>5. ASSUME NEW c \in Call, Commit(c)
      PROVE  Serves
  <2>1. /\ pc[c] = "locked" /\ Answer(c, c) /\ UNCHANGED request
        /\ executed' = executed \cup {c} /\ Known(c, executed) = {}
    BY <1>5 DEF Commit
  <2>2. Replies(c, c)
    BY <1>0, <2>1, AnswerReplies, IntentAssumption
  <2>3. ASSUME NEW d \in executed
        PROVE  AskedOf[d].key # AskedOf[c].key
    <3>1. d \in Call /\ Key(d) # Key(c)
      BY <1>0, <2>1 DEF Known, TypeOK
    <3>2. /\ AskedOf[c] = [key |-> Key(c), content |-> Subject(c)]
          /\ AskedOf[d] = [key |-> Key(d), content |-> Subject(d)]
      BY <1>0, <2>1, <3>1, AskedIs
    <3> QED
      BY <3>1, <3>2
  <2>4. Service!Execute(c)
    BY <2>1, <2>2, <2>3, Abstractly
  <2> QED
    BY <2>4 DEF Service!Next
<1>6. ASSUME NEW c \in Call, Reject(c)
      PROVE  Serves
  <2>1. pc[c] = "locked" /\ UNCHANGED <<request, executed>>
    BY <1>6 DEF Reject
  <2>2. CASE Answer(c, "serialization") \/ Answer(c, "duplicate")
    BY <1>2, <2>1, <2>2 DEF Refusals
  <2>3. CASE ~Storable(c) /\ Answer(c, "conflict")
    <3>1. /\ AskedOf[c] = [key |-> Key(c), content |-> Subject(c)] /\ Subject(c) \in Content
          /\ ArtifactOf[Subject(c)] # None /\ row[Target(c)] \notin {None, Subject(c)}
          /\ Target(c) \in Artifact
      BY <1>0, <2>1, <2>3, AskedIs, IntentAssumption DEF Storable, Target, Subject, TypeOK, ProgressInv
    <3>2. PICK d \in executed : Target(d) = Target(c) /\ Subject(d) = row[Target(c)]
      BY <1>0, <3>1 DEF RowInv
    <3>3. AskedOf[d] = [key |-> Key(d), content |-> Subject(d)]
      BY <1>0, AskedIs DEF TypeOK
    <3>4. Replies(c, "conflict")
      BY <1>0, <2>1, <2>3, AnswerReplies DEF Refusals
    <3>5. /\ AskedOf[c].content # AskedOf[d].content
          /\ ArtifactOf[AskedOf[c].content] # None
          /\ ArtifactOf[AskedOf[c].content] = ArtifactOf[AskedOf[d].content]
      BY <3>1, <3>2, <3>3 DEF Target
    <3>6. Service!Conflict(c)
      BY <2>1, <3>4, <3>5, Abstractly
    <3> QED
      BY <3>6 DEF Service!Next
  <2> QED
    BY <1>6, <2>2, <2>3 DEF Reject
<1>7. ASSUME NEW c \in Call, Step(c) \/ Fail(c)
      PROVE  Serves
  <2>1. CASE Revalidate(c)
    BY <1>1, <1>2, <2>1 DEF Revalidate, Goto, Refusals
  <2>2. CASE LookUp(c)
    BY <1>1, <1>3, <2>2 DEF LookUp, Goto
  <2>3. CASE PrepareArtifact(c)
    BY <1>1, <1>2, <2>3 DEF PrepareArtifact, Goto, Refusals
  <2>4. CASE Begin(c)
    BY <1>1, <1>2, <2>4 DEF Begin, Goto, Refusals
  <2>5. CASE LockKey(c)
    <3>1. Sees(c) \in SUBSET executed
      BY <1>0, SeesCommitted
    <3> QED
      BY <1>1, <1>3, <2>5, <3>1 DEF LockKey, Goto
  <2>6. CASE Fail(c)
    BY <1>2, <2>6 DEF Fail, Refusals
  <2> QED
    BY <1>5, <1>6, <1>7, <2>1, <2>2, <2>3, <2>4, <2>5, <2>6 DEF Step
<1>8. ASSUME \/ \E a \in ApiKey : Revoke(a)
             \/ RaiseFlag \/ Dump \/ Archive \/ LowerFlag
             \/ \E a \in Artifact : Age(a)
             \/ ReadReferences \/ ListFiles \/ RemoveFile \/ EndReconciliation
             \/ UNCHANGED intentVars
      PROVE  Serves
  <2>1. UNCHANGED <<request, executed, reply>>
    BY <1>8 DEF Revoke, RaiseFlag, Dump, Archive, LowerFlag, Age, ReadReferences, ListFiles,
                RemoveFile, EndReconciliation, intentVars, callVars
  <2> QED
    BY <1>1, <2>1
<1> HIDE DEF Serves
<1>9. Serves
  BY <1>4, <1>7, <1>8 DEF Next
<1> QED
  BY <1>9 DEF Serves

\* Every behaviour of execute(), with its two transactions, its file, revocations,
\* backups and reconciliations between them, is one of the service that answers
\* each call in one step.
THEOREM IntentImplementsService == Spec => ImplementsService
<1>1. Init => Service!Init
  BY IntentAssumption DEF Init, Service!Init
<1>2. CallInv /\ [Next]_intentVars => [Service!Next]_(Service!serviceVars)
  BY StepServes
<1> QED
  BY <1>1, <1>2, CallInvariance, PTL DEF Spec, ImplementsService, Service!Spec

=============================================================================
