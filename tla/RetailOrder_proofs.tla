-------------------------- MODULE RetailOrder_proofs --------------------------
(***************************************************************************)
(* Proofs about effects, EffectLifecycle and its contract, and about the   *)
(* orders of RetailOrder that pay by them, for any number of effects, keys *)
(* and workers, orders and items, any attempt limit, any amounts, any      *)
(* budget limits, stock and quantities.                                    *)
(***************************************************************************)
EXTENDS RetailOrder, EffectRefinement, TLAPS, FiniteSetTheorems

-----------------------------------------------------------------------------
(* Budget units: how the sum of a set of amounts changes with the set *)

UnitsOf(m, S, f) == {u \in Effect \X (1..m) : u[1] \in S /\ u[2] <= f[u[1]]}

\* The units of a set of effects are finitely many.
LEMMA UnitsFinite ==
    ASSUME NEW m \in Nat, NEW S, NEW f
    PROVE  IsFiniteSet(UnitsOf(m, S, f))
<1>1. IsFiniteSet(1..m)
  BY ConstantsAssumption, FS_Interval
<1>2. IsFiniteSet(Effect \X (1..m))
  BY <1>1, ConstantsAssumption, FS_Product
<1> QED
  BY <1>2, FS_Subset DEF UnitsOf

\* Only the amounts of the members count.
LEMMA UnitsAgree ==
    ASSUME NEW m, NEW S, NEW f, NEW g, \A e \in Effect : e \in S => f[e] = g[e]
    PROVE  UnitsOf(m, S, f) = UnitsOf(m, S, g)
BY DEF UnitsOf

\* A new member adds its amount.
LEMMA UnitsAdd ==
    ASSUME NEW m \in Nat, NEW S, NEW f \in [Effect -> 0..m], NEW e \in Effect, e \notin S
    PROVE  Cardinality(UnitsOf(m, S \cup {e}, f)) = Cardinality(UnitsOf(m, S, f)) + f[e]
<1> DEFINE Column == {e} \X (1..f[e])
<1>a. f[e] \in Nat /\ f[e] <= m
  BY ConstantsAssumption
<1>1. UnitsOf(m, S \cup {e}, f) = UnitsOf(m, S, f) \cup Column
  BY <1>a, ConstantsAssumption DEF UnitsOf
<1>2. UnitsOf(m, S, f) \cap Column = {}
  BY DEF UnitsOf
<1>3. IsFiniteSet(Column) /\ Cardinality(Column) = f[e]
  <2>1. IsFiniteSet({e}) /\ Cardinality({e}) = 1
    BY FS_Singleton
  <2>2. IsFiniteSet(1..f[e]) /\ Cardinality(1..f[e]) = f[e]
    BY <1>a, FS_Interval
  <2>3. Cardinality(Column) = 1 * f[e] /\ IsFiniteSet(Column)
    BY <2>1, <2>2, FS_Product
  <2> QED
    BY <2>3, <1>a
<1>4. IsFiniteSet(UnitsOf(m, S, f)) /\ Cardinality(UnitsOf(m, S, f)) \in Nat
  BY UnitsFinite, FS_CardinalityType
<1>5. Cardinality(UnitsOf(m, S, f) \cup Column)
        = Cardinality(UnitsOf(m, S, f)) + Cardinality(Column) - Cardinality({})
  BY <1>2, <1>3, <1>4, FS_Union
<1>6. Cardinality({}) = 0
  BY FS_EmptySet
<1> HIDE DEF Column
<1>7. Cardinality(UnitsOf(m, S, f) \cup Column) = Cardinality(UnitsOf(m, S, f)) + f[e]
  BY <1>3, <1>4, <1>5, <1>6, <1>a
<1> QED
  BY <1>1, <1>7, Zenon

\* A member removed takes its amount with it.
LEMMA UnitsRemove ==
    ASSUME NEW m \in Nat, NEW S, NEW f \in [Effect -> 0..m], NEW e \in Effect, e \in S
    PROVE  /\ Cardinality(UnitsOf(m, S \ {e}, f)) = Cardinality(UnitsOf(m, S, f)) - f[e]
           /\ Cardinality(UnitsOf(m, S, f)) >= f[e]
<1>1. (S \ {e}) \cup {e} = S /\ e \notin S \ {e}
  OBVIOUS
<1>0. \A T : e \notin T =>
        Cardinality(UnitsOf(m, T \cup {e}, f)) = Cardinality(UnitsOf(m, T, f)) + f[e]
  BY UnitsAdd
<1>2. Cardinality(UnitsOf(m, S, f)) = Cardinality(UnitsOf(m, S \ {e}, f)) + f[e]
  BY <1>0, <1>1, Zenon
<1>3. Cardinality(UnitsOf(m, S, f)) \in Nat /\ Cardinality(UnitsOf(m, S \ {e}, f)) \in Nat
  BY UnitsFinite, FS_CardinalityType
<1>4. f[e] \in Nat
  BY ConstantsAssumption
<1> QED
  BY <1>2, <1>3, <1>4

\* No members, no units.
LEMMA UnitsEmpty ==
    ASSUME NEW m \in Nat, NEW f
    PROVE  Cardinality(UnitsOf(m, {}, f)) = 0
<1>1. UnitsOf(m, {}, f) = {}
  BY DEF UnitsOf
<1> QED
  BY <1>1, FS_EmptySet

\* The counters of a key in the terms of the lemmas above.
LEMMA UnitsAreOfAmount == \A S : Units(S) = UnitsOf(MaxAmount, S, amount)
BY DEF Units, UnitsOf

-----------------------------------------------------------------------------
(* The inductive invariant *)

\* A worker remembers a lease exactly while it works on one.
JobInv ==
    \A w \in Worker :
        /\ job[w] = None <=> pc[w] \in {"idle", "down"}
        /\ pc[w] # "answered" => result[w] = "unknown"
        /\ pc[w] = "calling" => mode[w] = "deliver"

\* A requested intent has a key; the fence is set from the first lease on.
RowInv ==
    \A e \in Effect :
        /\ status[e] # "absent" => owner[e] \in Key
        /\ fenced[e] <=> status[e] \notin {"absent", "planned", "cancelled"}

\* Without a fence no worker, message or receiver has heard of the effect.
SentInv ==
    \A e \in Effect :
        ~fenced[e] => /\ posts[e] = 0
                      /\ e \notin wire
                      /\ provider[e] = "none"
                      /\ \A w \in Worker : job[w] # e

\* The statuses in which an effect may be delivered (again).
Deliverable == {"absent", "planned", "unknown"}

\* An effect that may still be delivered has an attempt left for every post;
\* while a worker has it in hand for delivery it is not deliverable.
AttemptInv ==
    /\ \A e \in Effect :
        status[e] \in Deliverable => attempts[e] < EffectMaxAttempts /\ posts[e] <= attempts[e]
    /\ \A w \in Worker :
        mode[w] = "deliver" /\ job[w] # None =>
            /\ status[job[w]] \notin Deliverable
            /\ attempts[job[w]] < EffectMaxAttempts
            /\ posts[job[w]] <= attempts[job[w]] + 1
            /\ pc[w] = "leased" => posts[job[w]] <= attempts[job[w]]

\* What a worker is about to record is what the receiver holds for good.
AnswerInv ==
    \A w \in Worker :
        job[w] # None =>
            /\ result[w] = "succeeded" => provider[job[w]] = "applied"
            /\ result[w] = "failed" /\ job[w] \notin UninformedFailures => provider[job[w]] = "refused"

Inv ==
    /\ TypeOK
    /\ JobInv
    /\ RowInv
    /\ SentInv
    /\ AttemptInv
    /\ NoOverlappingDelivery
    /\ PostsBounded
    /\ AnswerInv
    /\ OutcomeMatchesReceiver

\* The types are kept.
LEMMA StepTypeOK ==
    ASSUME TypeOK, JobInv, RowInv, [Next]_vars
    PROVE  TypeOK'
<1> USE ConstantsAssumption DEF intentVars, keyVars, workerVars, providerVars, TypeOK, JobInv, RowInv, Statuses, Outstanding
<1>1. ASSUME NEW e \in Effect, NEW k \in Key, NEW a \in 0..MaxAmount, RequestEffect(e, k, a) PROVE TypeOK'
  BY <1>1 DEF RequestEffect
<1>2. ASSUME NEW k \in Key, RevokeApiKey(k) PROVE TypeOK'
  BY <1>2 DEF RevokeApiKey
<1>3. ASSUME NEW w \in Worker, NEW e \in Effect, LeaseNext(w, e) PROVE TypeOK'
  BY <1>3 DEF LeaseNext, Candidate, ReconciliationMode
<1>4. ASSUME NEW w \in Worker, NEW e \in Effect, CancelUnauthorized(w, e) PROVE TypeOK'
  BY <1>4 DEF CancelUnauthorized, Candidate, Released
<1>5. ASSUME NEW w \in Worker, Post(w) PROVE TypeOK'
  BY <1>5 DEF Post
<1>6. ASSUME NEW w \in Worker, NEW r \in {"succeeded", "failed", "unknown"}, Conclude(w, r) PROVE TypeOK'
  BY <1>6 DEF Conclude, Answers
<1>7. ASSUME NEW w \in Worker, Finalize(w) PROVE TypeOK'
  <2> DEFINE e == job[w]
  <2>1. e \in Effect /\ owner[e] \in Key
    BY <1>7 DEF Finalize, HoldsLease
  <2>2. status' \in [Effect -> Statuses] /\ attempts' \in [Effect -> Nat]
    BY <1>7, <2>1 DEF Finalize, NextStatus, NextAttempts
  <2>3. Released(e) \in Nat /\ spent[owner[e]] + amount[e] \in Nat
    BY <2>1 DEF Released
  <2>4. reserved' \in [Key -> Nat] /\ spent' \in [Key -> Nat]
    BY <1>7, <2>1, <2>3 DEF Finalize, SettleBudget
  <2> QED
    BY <1>7, <2>1, <2>2, <2>4 DEF Finalize, Forget
<1>8. ASSUME NEW w \in Worker, LoseLease(w) PROVE TypeOK'
  BY <1>8 DEF LoseLease, Forget
<1>9. ASSUME NEW w \in Worker, Crash(w) PROVE TypeOK'
  BY <1>9 DEF Crash, Forget
<1>10. ASSUME NEW w \in Worker, Restart(w) PROVE TypeOK'
  BY <1>10 DEF Restart
<1>11. ASSUME NEW e \in Effect, ExpireLease(e) PROVE TypeOK'
  BY <1>11 DEF ExpireLease
<1>12. ASSUME NEW e \in Effect, RetryDue(e) PROVE TypeOK'
  BY <1>12 DEF RetryDue
<1>13. ASSUME NEW e \in Effect, Receive(e) PROVE TypeOK'
  BY <1>13 DEF Receive
<1>14. ASSUME NEW e \in Effect, LoseRequest(e) PROVE TypeOK'
  BY <1>14 DEF LoseRequest
<1>15. ASSUME NEW e \in Effect, Resolve(e) PROVE TypeOK'
  BY <1>15 DEF Resolve
<1>16. CASE UNCHANGED vars
  BY <1>16 DEF vars
<1> QED
  BY <1>1, <1>2, <1>3, <1>4, <1>5, <1>6, <1>7, <1>8, <1>9, <1>10, <1>11, <1>12, <1>13, <1>14, <1>15, <1>16
  DEF Next, KernelStep, WorkerStep, EnvironmentStep

\* Leasing, finishing and crashing keep the worker's memory in step.
LEMMA StepJob ==
    ASSUME TypeOK, JobInv, [Next]_vars
    PROVE  JobInv'
<1> USE ConstantsAssumption DEF intentVars, keyVars, workerVars, providerVars, TypeOK, JobInv
<1>1. ASSUME NEW e \in Effect, NEW k \in Key, NEW a \in 0..MaxAmount, RequestEffect(e, k, a) PROVE JobInv'
  BY <1>1 DEF RequestEffect
<1>2. ASSUME NEW k \in Key, RevokeApiKey(k) PROVE JobInv'
  BY <1>2 DEF RevokeApiKey
<1>3. ASSUME NEW w \in Worker, NEW e \in Effect, LeaseNext(w, e) PROVE JobInv'
  BY <1>3 DEF LeaseNext, Candidate, ReconciliationMode
<1>4. ASSUME NEW w \in Worker, NEW e \in Effect, CancelUnauthorized(w, e) PROVE JobInv'
  BY <1>4 DEF CancelUnauthorized, Candidate, Released
<1>5. ASSUME NEW w \in Worker, Post(w) PROVE JobInv'
  BY <1>5 DEF Post
<1>6. ASSUME NEW w \in Worker, NEW r \in {"succeeded", "failed", "unknown"}, Conclude(w, r) PROVE JobInv'
  BY <1>6 DEF Conclude, Answers
<1>7. ASSUME NEW w \in Worker, Finalize(w) PROVE JobInv'
  BY <1>7 DEF Finalize, HoldsLease, NextStatus, NextAttempts, SettleBudget, Released, Forget
<1>8. ASSUME NEW w \in Worker, LoseLease(w) PROVE JobInv'
  BY <1>8 DEF LoseLease, Forget
<1>9. ASSUME NEW w \in Worker, Crash(w) PROVE JobInv'
  BY <1>9 DEF Crash, Forget
<1>10. ASSUME NEW w \in Worker, Restart(w) PROVE JobInv'
  BY <1>10 DEF Restart
<1>11. ASSUME NEW e \in Effect, ExpireLease(e) PROVE JobInv'
  BY <1>11 DEF ExpireLease
<1>12. ASSUME NEW e \in Effect, RetryDue(e) PROVE JobInv'
  BY <1>12 DEF RetryDue
<1>13. ASSUME NEW e \in Effect, Receive(e) PROVE JobInv'
  BY <1>13 DEF Receive
<1>14. ASSUME NEW e \in Effect, LoseRequest(e) PROVE JobInv'
  BY <1>14 DEF LoseRequest
<1>15. ASSUME NEW e \in Effect, Resolve(e) PROVE JobInv'
  BY <1>15 DEF Resolve
<1>16. CASE UNCHANGED vars
  BY <1>16 DEF vars
<1> QED
  BY <1>1, <1>2, <1>3, <1>4, <1>5, <1>6, <1>7, <1>8, <1>9, <1>10, <1>11, <1>12, <1>13, <1>14, <1>15, <1>16
  DEF Next, KernelStep, WorkerStep, EnvironmentStep

\* No fence without a lease, no lease without a fence.
LEMMA StepRow ==
    ASSUME TypeOK, JobInv, RowInv, [Next]_vars
    PROVE  RowInv'
<1> USE ConstantsAssumption DEF intentVars, keyVars, workerVars, providerVars, TypeOK, JobInv, RowInv, Statuses, Outstanding
<1>1. ASSUME NEW e \in Effect, NEW k \in Key, NEW a \in 0..MaxAmount, RequestEffect(e, k, a) PROVE RowInv'
  BY <1>1 DEF RequestEffect
<1>2. ASSUME NEW k \in Key, RevokeApiKey(k) PROVE RowInv'
  BY <1>2 DEF RevokeApiKey
<1>3. ASSUME NEW w \in Worker, NEW e \in Effect, LeaseNext(w, e) PROVE RowInv'
  BY <1>3 DEF LeaseNext, Candidate, ReconciliationMode
<1>4. ASSUME NEW w \in Worker, NEW e \in Effect, CancelUnauthorized(w, e) PROVE RowInv'
  BY <1>4 DEF CancelUnauthorized, Candidate, Released
<1>5. ASSUME NEW w \in Worker, Post(w) PROVE RowInv'
  BY <1>5 DEF Post
<1>6. ASSUME NEW w \in Worker, NEW r \in {"succeeded", "failed", "unknown"}, Conclude(w, r) PROVE RowInv'
  BY <1>6 DEF Conclude, Answers
<1>7. ASSUME NEW w \in Worker, Finalize(w) PROVE RowInv'
  BY <1>7 DEF Finalize, HoldsLease, NextStatus, NextAttempts, SettleBudget, Released, Forget
<1>8. ASSUME NEW w \in Worker, LoseLease(w) PROVE RowInv'
  BY <1>8 DEF LoseLease, Forget
<1>9. ASSUME NEW w \in Worker, Crash(w) PROVE RowInv'
  BY <1>9 DEF Crash, Forget
<1>10. ASSUME NEW w \in Worker, Restart(w) PROVE RowInv'
  BY <1>10 DEF Restart
<1>11. ASSUME NEW e \in Effect, ExpireLease(e) PROVE RowInv'
  BY <1>11 DEF ExpireLease
<1>12. ASSUME NEW e \in Effect, RetryDue(e) PROVE RowInv'
  BY <1>12 DEF RetryDue
<1>13. ASSUME NEW e \in Effect, Receive(e) PROVE RowInv'
  BY <1>13 DEF Receive
<1>14. ASSUME NEW e \in Effect, LoseRequest(e) PROVE RowInv'
  BY <1>14 DEF LoseRequest
<1>15. ASSUME NEW e \in Effect, Resolve(e) PROVE RowInv'
  BY <1>15 DEF Resolve
<1>16. CASE UNCHANGED vars
  BY <1>16 DEF vars
<1> QED
  BY <1>1, <1>2, <1>3, <1>4, <1>5, <1>6, <1>7, <1>8, <1>9, <1>10, <1>11, <1>12, <1>13, <1>14, <1>15, <1>16
  DEF Next, KernelStep, WorkerStep, EnvironmentStep

\* Only fenced effects are sent, and none loses its fence.
LEMMA StepSent ==
    ASSUME TypeOK, JobInv, RowInv, SentInv, [Next]_vars
    PROVE  SentInv'
<1> USE ConstantsAssumption DEF intentVars, keyVars, workerVars, providerVars, TypeOK, JobInv, RowInv, SentInv, Statuses, Outstanding
<1>1. ASSUME NEW e \in Effect, NEW k \in Key, NEW a \in 0..MaxAmount, RequestEffect(e, k, a) PROVE SentInv'
  BY <1>1 DEF RequestEffect
<1>2. ASSUME NEW k \in Key, RevokeApiKey(k) PROVE SentInv'
  BY <1>2 DEF RevokeApiKey
<1>3. ASSUME NEW w \in Worker, NEW e \in Effect, LeaseNext(w, e) PROVE SentInv'
  BY <1>3 DEF LeaseNext, Candidate, ReconciliationMode
<1>4. ASSUME NEW w \in Worker, NEW e \in Effect, CancelUnauthorized(w, e) PROVE SentInv'
  BY <1>4 DEF CancelUnauthorized, Candidate, Released
<1>5. ASSUME NEW w \in Worker, Post(w) PROVE SentInv'
  BY <1>5 DEF Post
<1>6. ASSUME NEW w \in Worker, NEW r \in {"succeeded", "failed", "unknown"}, Conclude(w, r) PROVE SentInv'
  BY <1>6 DEF Conclude, Answers
<1>7. ASSUME NEW w \in Worker, Finalize(w) PROVE SentInv'
  BY <1>7 DEF Finalize, HoldsLease, NextStatus, NextAttempts, SettleBudget, Released, Forget
<1>8. ASSUME NEW w \in Worker, LoseLease(w) PROVE SentInv'
  BY <1>8 DEF LoseLease, Forget
<1>9. ASSUME NEW w \in Worker, Crash(w) PROVE SentInv'
  BY <1>9 DEF Crash, Forget
<1>10. ASSUME NEW w \in Worker, Restart(w) PROVE SentInv'
  BY <1>10 DEF Restart
<1>11. ASSUME NEW e \in Effect, ExpireLease(e) PROVE SentInv'
  BY <1>11 DEF ExpireLease
<1>12. ASSUME NEW e \in Effect, RetryDue(e) PROVE SentInv'
  BY <1>12 DEF RetryDue
<1>13. ASSUME NEW e \in Effect, Receive(e) PROVE SentInv'
  BY <1>13 DEF Receive
<1>14. ASSUME NEW e \in Effect, LoseRequest(e) PROVE SentInv'
  BY <1>14 DEF LoseRequest
<1>15. ASSUME NEW e \in Effect, Resolve(e) PROVE SentInv'
  BY <1>15 DEF Resolve
<1>16. CASE UNCHANGED vars
  BY <1>16 DEF vars
<1> QED
  BY <1>1, <1>2, <1>3, <1>4, <1>5, <1>6, <1>7, <1>8, <1>9, <1>10, <1>11, <1>12, <1>13, <1>14, <1>15, <1>16
  DEF Next, KernelStep, WorkerStep, EnvironmentStep

\* Deliveries and attempts stay in step.
LEMMA StepAttempt ==
    ASSUME TypeOK, JobInv, RowInv, SentInv, AttemptInv, NoOverlappingDelivery, [Next]_vars
    PROVE  AttemptInv'
<1> USE ConstantsAssumption DEF intentVars, keyVars, workerVars, providerVars, TypeOK, JobInv, RowInv, SentInv, AttemptInv, NoOverlappingDelivery, Deliverable, Statuses, Outstanding
<1>1. ASSUME NEW e \in Effect, NEW k \in Key, NEW a \in 0..MaxAmount, RequestEffect(e, k, a) PROVE AttemptInv'
  BY <1>1 DEF RequestEffect
<1>2. ASSUME NEW k \in Key, RevokeApiKey(k) PROVE AttemptInv'
  BY <1>2 DEF RevokeApiKey
<1>3. ASSUME NEW w \in Worker, NEW e \in Effect, LeaseNext(w, e) PROVE AttemptInv'
  BY <1>3 DEF LeaseNext, Candidate, ReconciliationMode
<1>4. ASSUME NEW w \in Worker, NEW e \in Effect, CancelUnauthorized(w, e) PROVE AttemptInv'
  BY <1>4 DEF CancelUnauthorized, Candidate, Released
<1>5. ASSUME NEW w \in Worker, Post(w) PROVE AttemptInv'
  BY <1>5 DEF Post
<1>6. ASSUME NEW w \in Worker, NEW r \in {"succeeded", "failed", "unknown"}, Conclude(w, r) PROVE AttemptInv'
  BY <1>6 DEF Conclude, Answers
<1>7. ASSUME NEW w \in Worker, Finalize(w) PROVE AttemptInv'
  BY <1>7 DEF Finalize, HoldsLease, NextStatus, NextAttempts, SettleBudget, Released, Forget
<1>8. ASSUME NEW w \in Worker, LoseLease(w) PROVE AttemptInv'
  BY <1>8 DEF LoseLease, Forget
<1>9. ASSUME NEW w \in Worker, Crash(w) PROVE AttemptInv'
  BY <1>9 DEF Crash, Forget
<1>10. ASSUME NEW w \in Worker, Restart(w) PROVE AttemptInv'
  BY <1>10 DEF Restart
<1>11. ASSUME NEW e \in Effect, ExpireLease(e) PROVE AttemptInv'
  BY <1>11 DEF ExpireLease
<1>12. ASSUME NEW e \in Effect, RetryDue(e) PROVE AttemptInv'
  BY <1>12 DEF RetryDue
<1>13. ASSUME NEW e \in Effect, Receive(e) PROVE AttemptInv'
  BY <1>13 DEF Receive
<1>14. ASSUME NEW e \in Effect, LoseRequest(e) PROVE AttemptInv'
  BY <1>14 DEF LoseRequest
<1>15. ASSUME NEW e \in Effect, Resolve(e) PROVE AttemptInv'
  BY <1>15 DEF Resolve
<1>16. CASE UNCHANGED vars
  BY <1>16 DEF vars
<1> QED
  BY <1>1, <1>2, <1>3, <1>4, <1>5, <1>6, <1>7, <1>8, <1>9, <1>10, <1>11, <1>12, <1>13, <1>14, <1>15, <1>16
  DEF Next, KernelStep, WorkerStep, EnvironmentStep

\* A lease for delivery is only given on a deliverable effect.
LEMMA StepOverlap ==
    ASSUME TypeOK, JobInv, RowInv, AttemptInv, NoOverlappingDelivery, [Next]_vars
    PROVE  NoOverlappingDelivery'
<1> USE ConstantsAssumption DEF intentVars, keyVars, workerVars, providerVars, TypeOK, JobInv, RowInv, AttemptInv, NoOverlappingDelivery, Deliverable, Statuses, Outstanding
<1>1. ASSUME NEW e \in Effect, NEW k \in Key, NEW a \in 0..MaxAmount, RequestEffect(e, k, a) PROVE NoOverlappingDelivery'
  BY <1>1 DEF RequestEffect
<1>2. ASSUME NEW k \in Key, RevokeApiKey(k) PROVE NoOverlappingDelivery'
  BY <1>2 DEF RevokeApiKey
<1>3. ASSUME NEW w \in Worker, NEW e \in Effect, LeaseNext(w, e) PROVE NoOverlappingDelivery'
  BY <1>3 DEF LeaseNext, Candidate, ReconciliationMode
<1>4. ASSUME NEW w \in Worker, NEW e \in Effect, CancelUnauthorized(w, e) PROVE NoOverlappingDelivery'
  BY <1>4 DEF CancelUnauthorized, Candidate, Released
<1>5. ASSUME NEW w \in Worker, Post(w) PROVE NoOverlappingDelivery'
  BY <1>5 DEF Post
<1>6. ASSUME NEW w \in Worker, NEW r \in {"succeeded", "failed", "unknown"}, Conclude(w, r) PROVE NoOverlappingDelivery'
  BY <1>6 DEF Conclude, Answers
<1>7. ASSUME NEW w \in Worker, Finalize(w) PROVE NoOverlappingDelivery'
  BY <1>7 DEF Finalize, HoldsLease, NextStatus, NextAttempts, SettleBudget, Released, Forget
<1>8. ASSUME NEW w \in Worker, LoseLease(w) PROVE NoOverlappingDelivery'
  BY <1>8 DEF LoseLease, Forget
<1>9. ASSUME NEW w \in Worker, Crash(w) PROVE NoOverlappingDelivery'
  BY <1>9 DEF Crash, Forget
<1>10. ASSUME NEW w \in Worker, Restart(w) PROVE NoOverlappingDelivery'
  BY <1>10 DEF Restart
<1>11. ASSUME NEW e \in Effect, ExpireLease(e) PROVE NoOverlappingDelivery'
  BY <1>11 DEF ExpireLease
<1>12. ASSUME NEW e \in Effect, RetryDue(e) PROVE NoOverlappingDelivery'
  BY <1>12 DEF RetryDue
<1>13. ASSUME NEW e \in Effect, Receive(e) PROVE NoOverlappingDelivery'
  BY <1>13 DEF Receive
<1>14. ASSUME NEW e \in Effect, LoseRequest(e) PROVE NoOverlappingDelivery'
  BY <1>14 DEF LoseRequest
<1>15. ASSUME NEW e \in Effect, Resolve(e) PROVE NoOverlappingDelivery'
  BY <1>15 DEF Resolve
<1>16. CASE UNCHANGED vars
  BY <1>16 DEF vars
<1> QED
  BY <1>1, <1>2, <1>3, <1>4, <1>5, <1>6, <1>7, <1>8, <1>9, <1>10, <1>11, <1>12, <1>13, <1>14, <1>15, <1>16
  DEF Next, KernelStep, WorkerStep, EnvironmentStep

\* A post uses up an attempt that is left.
LEMMA StepPosts ==
    ASSUME TypeOK, JobInv, AttemptInv, PostsBounded, [Next]_vars
    PROVE  PostsBounded'
<1> USE ConstantsAssumption DEF intentVars, keyVars, workerVars, providerVars, TypeOK, JobInv, AttemptInv, PostsBounded, Deliverable
<1>1. ASSUME NEW e \in Effect, NEW k \in Key, NEW a \in 0..MaxAmount, RequestEffect(e, k, a) PROVE PostsBounded'
  BY <1>1 DEF RequestEffect
<1>2. ASSUME NEW k \in Key, RevokeApiKey(k) PROVE PostsBounded'
  BY <1>2 DEF RevokeApiKey
<1>3. ASSUME NEW w \in Worker, NEW e \in Effect, LeaseNext(w, e) PROVE PostsBounded'
  BY <1>3 DEF LeaseNext, Candidate, ReconciliationMode
<1>4. ASSUME NEW w \in Worker, NEW e \in Effect, CancelUnauthorized(w, e) PROVE PostsBounded'
  BY <1>4 DEF CancelUnauthorized, Candidate, Released
<1>5. ASSUME NEW w \in Worker, Post(w) PROVE PostsBounded'
  BY <1>5 DEF Post
<1>6. ASSUME NEW w \in Worker, NEW r \in {"succeeded", "failed", "unknown"}, Conclude(w, r) PROVE PostsBounded'
  BY <1>6 DEF Conclude, Answers
<1>7. ASSUME NEW w \in Worker, Finalize(w) PROVE PostsBounded'
  BY <1>7 DEF Finalize, HoldsLease, NextStatus, NextAttempts, SettleBudget, Released, Forget
<1>8. ASSUME NEW w \in Worker, LoseLease(w) PROVE PostsBounded'
  BY <1>8 DEF LoseLease, Forget
<1>9. ASSUME NEW w \in Worker, Crash(w) PROVE PostsBounded'
  BY <1>9 DEF Crash, Forget
<1>10. ASSUME NEW w \in Worker, Restart(w) PROVE PostsBounded'
  BY <1>10 DEF Restart
<1>11. ASSUME NEW e \in Effect, ExpireLease(e) PROVE PostsBounded'
  BY <1>11 DEF ExpireLease
<1>12. ASSUME NEW e \in Effect, RetryDue(e) PROVE PostsBounded'
  BY <1>12 DEF RetryDue
<1>13. ASSUME NEW e \in Effect, Receive(e) PROVE PostsBounded'
  BY <1>13 DEF Receive
<1>14. ASSUME NEW e \in Effect, LoseRequest(e) PROVE PostsBounded'
  BY <1>14 DEF LoseRequest
<1>15. ASSUME NEW e \in Effect, Resolve(e) PROVE PostsBounded'
  BY <1>15 DEF Resolve
<1>16. CASE UNCHANGED vars
  BY <1>16 DEF vars
<1> QED
  BY <1>1, <1>2, <1>3, <1>4, <1>5, <1>6, <1>7, <1>8, <1>9, <1>10, <1>11, <1>12, <1>13, <1>14, <1>15, <1>16
  DEF Next, KernelStep, WorkerStep, EnvironmentStep

\* The receiver never changes its mind.
LEMMA StepAnswer ==
    ASSUME TypeOK, JobInv, AnswerInv, [Next]_vars
    PROVE  AnswerInv'
<1> USE ConstantsAssumption DEF intentVars, keyVars, workerVars, providerVars, TypeOK, JobInv, AnswerInv
<1>1. ASSUME NEW e \in Effect, NEW k \in Key, NEW a \in 0..MaxAmount, RequestEffect(e, k, a) PROVE AnswerInv'
  BY <1>1 DEF RequestEffect
<1>2. ASSUME NEW k \in Key, RevokeApiKey(k) PROVE AnswerInv'
  BY <1>2 DEF RevokeApiKey
<1>3. ASSUME NEW w \in Worker, NEW e \in Effect, LeaseNext(w, e) PROVE AnswerInv'
  BY <1>3 DEF LeaseNext, Candidate, ReconciliationMode
<1>4. ASSUME NEW w \in Worker, NEW e \in Effect, CancelUnauthorized(w, e) PROVE AnswerInv'
  BY <1>4 DEF CancelUnauthorized, Candidate, Released
<1>5. ASSUME NEW w \in Worker, Post(w) PROVE AnswerInv'
  BY <1>5 DEF Post
<1>6. ASSUME NEW w \in Worker, NEW r \in {"succeeded", "failed", "unknown"}, Conclude(w, r) PROVE AnswerInv'
  BY <1>6 DEF Conclude, Answers
<1>7. ASSUME NEW w \in Worker, Finalize(w) PROVE AnswerInv'
  BY <1>7 DEF Finalize, HoldsLease, NextStatus, NextAttempts, SettleBudget, Released, Forget
<1>8. ASSUME NEW w \in Worker, LoseLease(w) PROVE AnswerInv'
  BY <1>8 DEF LoseLease, Forget
<1>9. ASSUME NEW w \in Worker, Crash(w) PROVE AnswerInv'
  BY <1>9 DEF Crash, Forget
<1>10. ASSUME NEW w \in Worker, Restart(w) PROVE AnswerInv'
  BY <1>10 DEF Restart
<1>11. ASSUME NEW e \in Effect, ExpireLease(e) PROVE AnswerInv'
  BY <1>11 DEF ExpireLease
<1>12. ASSUME NEW e \in Effect, RetryDue(e) PROVE AnswerInv'
  BY <1>12 DEF RetryDue
<1>13. ASSUME NEW e \in Effect, Receive(e) PROVE AnswerInv'
  BY <1>13 DEF Receive
<1>14. ASSUME NEW e \in Effect, LoseRequest(e) PROVE AnswerInv'
  BY <1>14 DEF LoseRequest
<1>15. ASSUME NEW e \in Effect, Resolve(e) PROVE AnswerInv'
  BY <1>15 DEF Resolve
<1>16. CASE UNCHANGED vars
  BY <1>16 DEF vars
<1> QED
  BY <1>1, <1>2, <1>3, <1>4, <1>5, <1>6, <1>7, <1>8, <1>9, <1>10, <1>11, <1>12, <1>13, <1>14, <1>15, <1>16
  DEF Next, KernelStep, WorkerStep, EnvironmentStep

\* A settled outcome was an answer.
LEMMA StepOutcome ==
    ASSUME TypeOK, JobInv, AnswerInv, OutcomeMatchesReceiver, [Next]_vars
    PROVE  OutcomeMatchesReceiver'
<1> USE ConstantsAssumption DEF intentVars, keyVars, workerVars, providerVars, TypeOK, JobInv, AnswerInv, OutcomeMatchesReceiver, Statuses
<1>1. ASSUME NEW e \in Effect, NEW k \in Key, NEW a \in 0..MaxAmount, RequestEffect(e, k, a) PROVE OutcomeMatchesReceiver'
  BY <1>1 DEF RequestEffect
<1>2. ASSUME NEW k \in Key, RevokeApiKey(k) PROVE OutcomeMatchesReceiver'
  BY <1>2 DEF RevokeApiKey
<1>3. ASSUME NEW w \in Worker, NEW e \in Effect, LeaseNext(w, e) PROVE OutcomeMatchesReceiver'
  BY <1>3 DEF LeaseNext, Candidate, ReconciliationMode
<1>4. ASSUME NEW w \in Worker, NEW e \in Effect, CancelUnauthorized(w, e) PROVE OutcomeMatchesReceiver'
  BY <1>4 DEF CancelUnauthorized, Candidate, Released
<1>5. ASSUME NEW w \in Worker, Post(w) PROVE OutcomeMatchesReceiver'
  BY <1>5 DEF Post
<1>6. ASSUME NEW w \in Worker, NEW r \in {"succeeded", "failed", "unknown"}, Conclude(w, r) PROVE OutcomeMatchesReceiver'
  BY <1>6 DEF Conclude, Answers
<1>7. ASSUME NEW w \in Worker, Finalize(w) PROVE OutcomeMatchesReceiver'
  BY <1>7 DEF Finalize, HoldsLease, NextStatus, NextAttempts, SettleBudget, Released, Forget
<1>8. ASSUME NEW w \in Worker, LoseLease(w) PROVE OutcomeMatchesReceiver'
  BY <1>8 DEF LoseLease, Forget
<1>9. ASSUME NEW w \in Worker, Crash(w) PROVE OutcomeMatchesReceiver'
  BY <1>9 DEF Crash, Forget
<1>10. ASSUME NEW w \in Worker, Restart(w) PROVE OutcomeMatchesReceiver'
  BY <1>10 DEF Restart
<1>11. ASSUME NEW e \in Effect, ExpireLease(e) PROVE OutcomeMatchesReceiver'
  BY <1>11 DEF ExpireLease
<1>12. ASSUME NEW e \in Effect, RetryDue(e) PROVE OutcomeMatchesReceiver'
  BY <1>12 DEF RetryDue
<1>13. ASSUME NEW e \in Effect, Receive(e) PROVE OutcomeMatchesReceiver'
  BY <1>13 DEF Receive
<1>14. ASSUME NEW e \in Effect, LoseRequest(e) PROVE OutcomeMatchesReceiver'
  BY <1>14 DEF LoseRequest
<1>15. ASSUME NEW e \in Effect, Resolve(e) PROVE OutcomeMatchesReceiver'
  BY <1>15 DEF Resolve
<1>16. CASE UNCHANGED vars
  BY <1>16 DEF vars
<1> QED
  BY <1>1, <1>2, <1>3, <1>4, <1>5, <1>6, <1>7, <1>8, <1>9, <1>10, <1>11, <1>12, <1>13, <1>14, <1>15, <1>16
  DEF Next, KernelStep, WorkerStep, EnvironmentStep

-----------------------------------------------------------------------------
(* Budgets *)

Counted(k) ==
    /\ reserved[k] = Cardinality(UnitsOf(MaxAmount, Held(k), amount))
    /\ spent[k] = Cardinality(UnitsOf(MaxAmount, Charged(k), amount))

\* BudgetConserved in the terms of the lemmas on units.
LEMMA ConservedIsCounted == BudgetConserved <=> \A k \in Key : Counted(k)
BY UnitsAreOfAmount DEF BudgetConserved, Counted

\* The reservation of an outstanding intent is there to be released.
LEMMA ReleasedIsExact ==
    ASSUME TypeOK, \A k \in Key : Counted(k), NEW e \in Effect,
           owner[e] \in Key, status[e] \in Outstanding
    PROVE  /\ Released(e) = reserved[owner[e]] - amount[e]
           /\ reserved[owner[e]] - amount[e]
                = Cardinality(UnitsOf(MaxAmount, Held(owner[e]) \ {e}, amount))
           /\ reserved[owner[e]] >= amount[e]
<1>1. e \in Held(owner[e])
  BY DEF Held
<1>2. amount \in [Effect -> 0..MaxAmount]
  BY DEF TypeOK
<1>3. /\ Cardinality(UnitsOf(MaxAmount, Held(owner[e]) \ {e}, amount))
           = Cardinality(UnitsOf(MaxAmount, Held(owner[e]), amount)) - amount[e]
      /\ Cardinality(UnitsOf(MaxAmount, Held(owner[e]), amount)) >= amount[e]
  BY <1>1, <1>2, UnitsRemove, ConstantsAssumption
<1> QED
  BY <1>3 DEF Counted, Released

\* A step that leaves owners, amounts and counters alone and moves an intent
\* only between outstanding statuses changes no sum.
LEMMA StillCounted ==
    ASSUME \A k \in Key : Counted(k),
           UNCHANGED <<owner, amount, reserved, spent>>,
           \A e \in Effect : \/ status'[e] = status[e]
                             \/ status[e] \in Outstanding /\ status'[e] \in Outstanding
    PROVE  \A k \in Key : Counted(k)'
<1>1. \A k \in Key : Held(k)' = Held(k) /\ Charged(k)' = Charged(k)
  BY DEF Held, Charged, Outstanding
<1> QED
  BY <1>1 DEF Counted, UnitsOf

\* Requesting adds the amount to what the key holds.
LEMMA RequestCounted ==
    ASSUME TypeOK, \A k \in Key : Counted(k),
           NEW e \in Effect, NEW k \in Key, NEW a \in 0..MaxAmount,
           RequestEffect(e, k, a)
    PROVE  \A q \in Key : Counted(q)'
<1> USE DEF RequestEffect, TypeOK
<1>1. amount' \in [Effect -> 0..MaxAmount] /\ amount'[e] = a
  OBVIOUS
<1>2. \A q \in Key : e \notin Held(q) /\ e \notin Charged(q)
  BY DEF Held, Charged, Outstanding
<1>3. \A q \in Key : Charged(q)' = Charged(q)
  BY DEF Charged
<1>4. \A q \in Key : Held(q)' = IF q = k THEN Held(q) \cup {e} ELSE Held(q)
  BY DEF Held, Outstanding
<1>5. \A q \in Key : /\ UnitsOf(MaxAmount, Held(q), amount') = UnitsOf(MaxAmount, Held(q), amount)
                     /\ UnitsOf(MaxAmount, Charged(q), amount') = UnitsOf(MaxAmount, Charged(q), amount)
  BY <1>2 DEF UnitsOf
<1>6. Cardinality(UnitsOf(MaxAmount, Held(k) \cup {e}, amount'))
        = Cardinality(UnitsOf(MaxAmount, Held(k), amount')) + a
  <2>1. \A S : \A f \in [Effect -> 0..MaxAmount] : e \notin S =>
          Cardinality(UnitsOf(MaxAmount, S \cup {e}, f)) = Cardinality(UnitsOf(MaxAmount, S, f)) + f[e]
    <3> HIDE DEF RequestEffect, TypeOK
    <3>1. MaxAmount \in Nat
      BY ConstantsAssumption
    <3> QED
      BY <3>1, UnitsAdd
  <2> HIDE DEF RequestEffect, TypeOK
  <2> QED
    BY <1>1, <1>2, <2>1
<1>7. ASSUME NEW q \in Key PROVE Counted(q)'
  <2>1. /\ spent'[q] = spent[q]
        /\ reserved'[q] = IF q = k THEN reserved[q] + a ELSE reserved[q]
    OBVIOUS
  <2>2. Counted(q)
    OBVIOUS
  <2>3. spent'[q] = Cardinality(UnitsOf(MaxAmount, Charged(q)', amount'))
    BY <1>3, <1>5, <2>1, <2>2 DEF Counted
  <2>4. reserved'[q] = Cardinality(UnitsOf(MaxAmount, Held(q)', amount'))
    <3>1. CASE q = k
      BY <1>4, <1>5, <1>6, <2>1, <2>2, <3>1 DEF Counted
    <3>2. CASE q # k
      BY <1>4, <1>5, <2>1, <2>2, <3>2 DEF Counted
    <3> QED
      BY <3>1, <3>2
  <2> QED
    BY <2>3, <2>4 DEF Counted, UnitsOf
<1> QED
  BY <1>7

\* Ending an outstanding intent takes its amount from what the key holds, and
\* charges it if the intent succeeded.
LEMMA EndCounted ==
    ASSUME TypeOK, \A k \in Key : Counted(k),
           NEW e \in Effect, owner[e] \in Key, status[e] \in Outstanding,
           NEW s \in Terminal,
           status' = [status EXCEPT ![e] = s],
           UNCHANGED <<owner, amount>>,
           reserved' = [reserved EXCEPT ![owner[e]] = Released(e)],
           spent' = [spent EXCEPT ![owner[e]] =
                        IF s = "succeeded" THEN @ + amount[e] ELSE @]
    PROVE  \A q \in Key : Counted(q)'
<1> DEFINE k == owner[e]
<1>1. Released(e) = Cardinality(UnitsOf(MaxAmount, Held(k) \ {e}, amount))
  BY ReleasedIsExact
<1>2. amount \in [Effect -> 0..MaxAmount]
  BY DEF TypeOK
<1>3. e \notin Charged(k)
  BY DEF Charged, Outstanding
<1>4. Cardinality(UnitsOf(MaxAmount, Charged(k) \cup {e}, amount))
        = Cardinality(UnitsOf(MaxAmount, Charged(k), amount)) + amount[e]
  BY <1>2, <1>3, UnitsAdd, ConstantsAssumption
<1>5. ASSUME NEW q \in Key PROVE Counted(q)'
  <2>1. Held(q)' = IF q = k THEN Held(q) \ {e} ELSE Held(q)
    BY DEF Held, Outstanding, Terminal, TypeOK
  <2>2. Charged(q)' = IF q = k /\ s = "succeeded" THEN Charged(q) \cup {e} ELSE Charged(q)
    BY DEF Charged, Outstanding, Terminal, TypeOK
  <2>3. /\ reserved'[q] = IF q = k THEN Released(e) ELSE reserved[q]
        /\ spent'[q] = IF q = k /\ s = "succeeded" THEN spent[q] + amount[e] ELSE spent[q]
    BY DEF TypeOK
  <2>4. Counted(q)
    OBVIOUS
  <2>5. reserved'[q] = Cardinality(UnitsOf(MaxAmount, Held(q)', amount))
    BY <1>1, <2>1, <2>3, <2>4 DEF Counted
  <2>6. spent'[q] = Cardinality(UnitsOf(MaxAmount, Charged(q)', amount))
    BY <1>4, <2>2, <2>3, <2>4 DEF Counted
  <2> QED
    BY <2>5, <2>6 DEF Counted, UnitsOf
<1> QED
  BY <1>5

\* Finalize either keeps the intent outstanding and the counters as they are,
\* or ends it.
LEMMA FinalizeCounted ==
    ASSUME TypeOK, JobInv, RowInv, \A k \in Key : Counted(k),
           NEW w \in Worker, Finalize(w)
    PROVE  \A q \in Key : Counted(q)'
<1> DEFINE e == job[w]
<1>1. e \in Effect /\ owner[e] \in Key /\ status[e] = "dispatching"
  BY DEF Finalize, HoldsLease, TypeOK, JobInv, RowInv
<1>2. UNCHANGED <<owner, amount>> /\ status' = [status EXCEPT ![e] = NextStatus(w)]
  BY DEF Finalize
<1>3. CASE result[w] = "unknown"
  <2>1. NextStatus(w) \in {"unknown", "reconciling"}
    BY <1>3 DEF NextStatus
  <2>2. UNCHANGED <<reserved, spent>>
    BY <1>3 DEF Finalize, SettleBudget
  <2>3. \A d \in Effect : \/ status'[d] = status[d]
                          \/ status[d] \in Outstanding /\ status'[d] \in Outstanding
    BY <1>1, <1>2, <2>1 DEF TypeOK, Outstanding
  <2> QED
    BY <1>2, <2>2, <2>3, StillCounted
<1>4. CASE result[w] # "unknown"
  <2>1. NextStatus(w) = result[w] /\ result[w] \in {"succeeded", "failed"}
    BY <1>4 DEF NextStatus, TypeOK
  <2>2. /\ reserved' = [reserved EXCEPT ![owner[e]] = Released(e)]
        /\ spent' = [spent EXCEPT ![owner[e]] =
                        IF result[w] = "succeeded" THEN @ + amount[e] ELSE @]
    BY <1>1, <1>4, <2>1 DEF Finalize, SettleBudget, TypeOK
  <2>3. result[w] \in Terminal /\ status[e] \in Outstanding
    BY <1>1, <2>1 DEF Terminal, Outstanding
  <2> QED
    BY <1>1, <1>2, <2>1, <2>2, <2>3, EndCounted
<1> QED
  BY <1>3, <1>4

\* The sums are kept by every step.
LEMMA StepCounted ==
    ASSUME TypeOK, JobInv, RowInv, \A k \in Key : Counted(k), [Next]_vars
    PROVE  \A k \in Key : Counted(k)'
<1>1. CASE \E e \in Effect, k \in Key, a \in 0..MaxAmount : RequestEffect(e, k, a)
  BY <1>1, RequestCounted
<1>2. CASE \E w \in Worker : Finalize(w)
  BY <1>2, FinalizeCounted
<1>3. CASE \E w \in Worker, e \in Effect : CancelUnauthorized(w, e)
  <2>1. PICK w \in Worker, e \in Effect : CancelUnauthorized(w, e)
    BY <1>3
  <2>2. owner[e] \in Key /\ status[e] \in Outstanding /\ "cancelled" \in Terminal
    BY <2>1 DEF CancelUnauthorized, Candidate, RowInv, Outstanding, Terminal
  <2>3. /\ status' = [status EXCEPT ![e] = "cancelled"]
        /\ UNCHANGED <<owner, amount>>
        /\ reserved' = [reserved EXCEPT ![owner[e]] = Released(e)]
        /\ spent' = [spent EXCEPT ![owner[e]] =
                        IF "cancelled" = "succeeded" THEN @ + amount[e] ELSE @]
    BY <2>1, <2>2 DEF CancelUnauthorized, TypeOK
  <2> QED
    BY <2>2, <2>3, EndCounted
<1>4. CASE \E w \in Worker, e \in Effect : LeaseNext(w, e)
  <2>1. PICK w \in Worker, e \in Effect : LeaseNext(w, e)
    BY <1>4
  <2>2. UNCHANGED <<owner, amount, reserved, spent>>
    BY <2>1 DEF LeaseNext, keyVars
  <2>3. status' = [status EXCEPT ![e] = "dispatching"] /\ status[e] \in Outstanding
    BY <2>1 DEF LeaseNext, Candidate
  <2>4. \A d \in Effect : \/ status'[d] = status[d]
                          \/ status[d] \in Outstanding /\ status'[d] \in Outstanding
    BY <2>3 DEF Outstanding, TypeOK
  <2> QED
    BY <2>2, <2>4, StillCounted
<1>5. CASE \/ \E k \in Key : RevokeApiKey(k)
           \/ \E w \in Worker : \/ Post(w)
                               \/ \E r \in {"succeeded", "failed", "unknown"} : Conclude(w, r)
                               \/ LoseLease(w) \/ Crash(w) \/ Restart(w)
           \/ \E e \in Effect : EnvironmentStep(e)
           \/ UNCHANGED vars
  <2>1. UNCHANGED <<status, owner, amount, reserved, spent>>
    BY <1>5 DEF RevokeApiKey, Post, Conclude, LoseLease, Crash, Restart, EnvironmentStep,
                ExpireLease, RetryDue, Receive, LoseRequest, Resolve,
                vars, intentVars, keyVars
  <2> QED
    BY <2>1, StillCounted
<1> QED
  BY <1>1, <1>2, <1>3, <1>4, <1>5 DEF Next, KernelStep, WorkerStep

\* The limit is checked against everything committed, and settling moves an
\* amount from held to spent or gives it back.
LEMMA StepLimit ==
    ASSUME TypeOK, JobInv, RowInv, \A k \in Key : Counted(k), BudgetWithinLimit, [Next]_vars
    PROVE  BudgetWithinLimit'
<1> USE ConstantsAssumption DEF BudgetWithinLimit, TypeOK
<1>1. CASE \E e \in Effect, k \in Key, a \in 0..MaxAmount : RequestEffect(e, k, a)
  BY <1>1 DEF RequestEffect
<1>2. CASE \E w \in Worker : Finalize(w)
  <2>1. PICK w \in Worker : Finalize(w)
    BY <1>2
  <2> DEFINE e == job[w]
  <2>2. e \in Effect /\ owner[e] \in Key /\ status[e] \in Outstanding
    BY <2>1 DEF Finalize, HoldsLease, JobInv, RowInv, Outstanding
  <2>3. /\ Released(e) = reserved[owner[e]] - amount[e]
        /\ reserved[owner[e]] >= amount[e]
    BY <2>2, ReleasedIsExact
  <2>4. amount[e] \in Nat
    BY <2>2
  <2> QED
    BY <2>1, <2>2, <2>3, <2>4 DEF Finalize, SettleBudget
<1>3. CASE \E w \in Worker, e \in Effect : CancelUnauthorized(w, e)
  <2>1. PICK w \in Worker, e \in Effect : CancelUnauthorized(w, e)
    BY <1>3
  <2>2. owner[e] \in Key /\ amount[e] \in Nat
    BY <2>1 DEF CancelUnauthorized, Candidate, RowInv, Outstanding
  <2> QED
    BY <2>1, <2>2 DEF CancelUnauthorized, Released
<1>4. CASE UNCHANGED <<reserved, spent>>
  BY <1>4
<1>5. CASE \/ \E k \in Key : RevokeApiKey(k)
           \/ \E w \in Worker : \/ \E e \in Effect : LeaseNext(w, e)
                               \/ Post(w)
                               \/ \E r \in {"succeeded", "failed", "unknown"} : Conclude(w, r)
                               \/ LoseLease(w) \/ Crash(w) \/ Restart(w)
           \/ \E e \in Effect : EnvironmentStep(e)
           \/ UNCHANGED vars
  <2>1. UNCHANGED <<reserved, spent>>
    BY <1>5 DEF RevokeApiKey, LeaseNext, Post, Conclude, LoseLease, Crash, Restart,
                EnvironmentStep, ExpireLease, RetryDue, Receive, LoseRequest, Resolve,
                vars, keyVars
  <2> QED
    BY <2>1
<1> QED
  BY <1>1, <1>2, <1>3, <1>5 DEF Next, KernelStep, WorkerStep

-----------------------------------------------------------------------------
(* The theorems *)

IInv == Inv /\ BudgetConserved /\ BudgetWithinLimit

\* The inductive invariant holds in every reachable state.
THEOREM Invariance == Spec => []IInv
<1>1. Init => IInv
  <2> SUFFICES ASSUME Init PROVE IInv
    OBVIOUS
  <2>1. Inv
    BY ConstantsAssumption
    DEF Init, Inv, TypeOK, JobInv, RowInv, SentInv, AttemptInv, NoOverlappingDelivery,
        PostsBounded, AnswerInv, OutcomeMatchesReceiver, Statuses, Deliverable
  <2>2. \A k \in Key : Counted(k)
    <3>1. \A k \in Key : Held(k) = {} /\ Charged(k) = {}
      BY DEF Init, Held, Charged, Outstanding
    <3>2. Cardinality(UnitsOf(MaxAmount, {}, amount)) = 0
      BY UnitsEmpty, ConstantsAssumption
    <3>3. \A k \in Key : reserved[k] = 0 /\ spent[k] = 0
      BY DEF Init
    <3> QED
      BY <3>1, <3>2, <3>3 DEF Counted
  <2>3. BudgetWithinLimit
    BY ConstantsAssumption DEF Init, BudgetWithinLimit
  <2> QED
    BY <2>1, <2>2, <2>3, ConservedIsCounted DEF IInv
<1>2. IInv /\ [Next]_vars => IInv'
  <2> SUFFICES ASSUME IInv, [Next]_vars PROVE IInv'
    OBVIOUS
  <2>1. Inv'
    BY StepTypeOK, StepJob, StepRow, StepSent, StepAttempt, StepOverlap, StepPosts,
       StepAnswer, StepOutcome DEF IInv, Inv
  <2>2. \A k \in Key : Counted(k)
    BY ConservedIsCounted DEF IInv
  <2>3. \A k \in Key : Counted(k)'
    BY <2>2, StepCounted DEF IInv, Inv
  <2>4. BudgetConserved'
    <3>1. (\A S : Units(S) = UnitsOf(MaxAmount, S, amount))'
      BY DEF Units, UnitsOf
    <3> QED
      BY <2>3, <3>1 DEF BudgetConserved, Counted
  <2>5. BudgetWithinLimit'
    BY <2>2, StepLimit DEF IInv, Inv
  <2> QED
    BY <2>1, <2>4, <2>5 DEF IInv
<1> QED
  BY <1>1, <1>2, PTL DEF Spec

\* Type correctness.
THEOREM TypeCorrect == Spec => []TypeOK
<1>1. IInv => TypeOK
  BY DEF IInv, Inv
<1> QED
  BY <1>1, Invariance, PTL

\* The key's counters are the amounts of its intents.
THEOREM BudgetSafety == Spec => []BudgetConserved
<1>1. IInv => BudgetConserved
  BY DEF IInv
<1> QED
  BY <1>1, Invariance, PTL

\* No key reserves and spends more than its limit.
THEOREM BudgetLimitSafety == Spec => []BudgetWithinLimit
<1>1. IInv => BudgetWithinLimit
  BY DEF IInv
<1> QED
  BY <1>1, Invariance, PTL

\* Deliveries of one effect never overlap.
THEOREM DeliverySafety == Spec => []NoOverlappingDelivery
<1>1. IInv => NoOverlappingDelivery
  BY DEF IInv, Inv
<1> QED
  BY <1>1, Invariance, PTL

\* Nor do they pass the attempt limit.
THEOREM AttemptSafety == Spec => []PostsBounded
<1>1. IInv => PostsBounded
  BY DEF IInv, Inv
<1> QED
  BY <1>1, Invariance, PTL

\* A cancelled effect was never sent; a settled one matches the receiver.
THEOREM OutcomeSafety == Spec => [](CancelledNeverSent /\ OutcomeMatchesReceiver)
<1>1. IInv => CancelledNeverSent /\ OutcomeMatchesReceiver
  BY DEF IInv, Inv, RowInv, SentInv, CancelledNeverSent, TypeOK
<1> QED
  BY <1>1, Invariance, PTL

\* A terminal intent keeps its status.
THEOREM Finality == Spec => TerminalIsFinal
<1>1. IInv /\ [Next]_vars =>
        [\A e \in Effect : status[e] \in Terminal => status'[e] = status[e]]_vars
  <2> SUFFICES ASSUME IInv, [Next]_vars, NEW e \in Effect, status[e] \in Terminal
               PROVE  status'[e] = status[e]
    OBVIOUS
  <2> QED
    BY DEF IInv, Inv, TypeOK, JobInv, Terminal, Outstanding, Next, KernelStep, WorkerStep,
           EnvironmentStep, RequestEffect, RevokeApiKey, LeaseNext, CancelUnauthorized,
           Candidate, Post, Conclude, Finalize, HoldsLease, LoseLease, Crash, Restart,
           ExpireLease, RetryDue, Receive, LoseRequest, Resolve, vars, intentVars
<1> QED
  BY <1>1, Invariance, PTL DEF Spec, TerminalIsFinal

\* Revocation before the fence keeps the effect from being sent, for ever.
THEOREM Revocation == Spec => RevocationBeforeFence
<1>1. ASSUME NEW e \in Effect
      PROVE  Spec => [](Barred(e) => [](posts[e] = 0))
  <2>1. IInv /\ Barred(e) => posts[e] = 0
    BY DEF IInv, Inv, SentInv, Barred
  <2>2. IInv /\ Barred(e) /\ [Next]_vars => Barred(e)'
    <3> SUFFICES ASSUME IInv, Barred(e), [Next]_vars PROVE Barred(e)'
      OBVIOUS
    <3> USE DEF IInv, Inv, TypeOK, JobInv, RowInv, SentInv, Barred
    <3>1. UNCHANGED owner \/ \E d \in Effect, k \in Key, a \in 0..MaxAmount : RequestEffect(d, k, a)
      BY DEF Next, KernelStep, WorkerStep, EnvironmentStep, RevokeApiKey, LeaseNext,
             CancelUnauthorized, Post, Conclude, Finalize, LoseLease, Crash, Restart,
             ExpireLease, RetryDue, Receive, LoseRequest, Resolve, vars, intentVars
    <3>2. owner'[e] = owner[e]
      BY <3>1 DEF RequestEffect
    <3>3. \A k \in Key : ~active[k] => ~active'[k]
      BY DEF Next, KernelStep, WorkerStep, EnvironmentStep, RequestEffect, RevokeApiKey,
             LeaseNext, CancelUnauthorized, Post, Conclude, Finalize, LoseLease, Crash,
             Restart, ExpireLease, RetryDue, Receive, LoseRequest, Resolve, vars, keyVars
    <3>4. status'[e] # "absent"
      BY DEF Next, KernelStep, WorkerStep, EnvironmentStep, RequestEffect, RevokeApiKey,
             LeaseNext, CancelUnauthorized, Post, Conclude, Finalize, NextStatus, HoldsLease,
             LoseLease, Crash, Restart, ExpireLease, RetryDue, Receive, LoseRequest, Resolve,
             vars, intentVars
    <3>5. ~fenced'[e]
      BY DEF Next, KernelStep, WorkerStep, EnvironmentStep, RequestEffect, RevokeApiKey,
             LeaseNext, CancelUnauthorized, Post, Conclude, Finalize, LoseLease, Crash,
             Restart, ExpireLease, RetryDue, Receive, LoseRequest, Resolve, vars, intentVars
    <3> QED
      BY <3>2, <3>3, <3>4, <3>5
  <2> QED
    BY <2>1, <2>2, Invariance, PTL DEF Spec
<1>2. Spec => \A e \in Effect : [](Barred(e) => [](posts[e] = 0))
  BY <1>1
<1> QED
  BY <1>2 DEF RevocationBeforeFence

-----------------------------------------------------------------------------
(* The contract *)


\* What the contract counts as committed is what the key holds and has spent.
LEMMA CommittedIsCounted ==
    ASSUME TypeOK, \A k \in Key : Counted(k), NEW k \in Key
    PROVE  Promise!Cost(Promise!Committed(k)) = spent[k] + reserved[k]
<1>0. \A e \in Effect : PromisePhase(status[e]) \in {"requested", "authorized", "succeeded"}
                       <=> status[e] \in Outstanding \cup {"succeeded"}
  BY DEF PromisePhase, TypeOK, Statuses, Outstanding
<1>1. Promise!Committed(k) = Held(k) \cup Charged(k)
  <2>1. ASSUME NEW e
        PROVE  e \in Promise!Committed(k) <=> e \in Held(k) \cup Charged(k)
    BY <1>0 DEF Promise!Committed, Held, Charged
  <2> QED
    BY <2>1
<1>2. \A S : Promise!Cost(S) = Cardinality(UnitsOf(MaxAmount, S, amount))
  <2>1. ASSUME NEW S
        PROVE  Promise!Cost(S) = Cardinality(UnitsOf(MaxAmount, S, amount))
    <3>1. Promise!Cost(S) = Cardinality({u \in Effect \X (1..MaxAmount) :
                                            u[1] \in S /\ u[2] <= amount[u[1]]})
      BY DEF Promise!Cost, Promise!Cardinality, Cardinality
    <3> QED
      BY <3>1 DEF UnitsOf
  <2> QED
    BY <2>1
<1>3. UnitsOf(MaxAmount, Held(k) \cup Charged(k), amount)
        = UnitsOf(MaxAmount, Held(k), amount) \cup UnitsOf(MaxAmount, Charged(k), amount)
  BY DEF UnitsOf
<1>4. UnitsOf(MaxAmount, Held(k), amount) \cap UnitsOf(MaxAmount, Charged(k), amount) = {}
  BY DEF UnitsOf, Held, Charged, Outstanding
<1>5. /\ IsFiniteSet(UnitsOf(MaxAmount, Held(k), amount))
      /\ IsFiniteSet(UnitsOf(MaxAmount, Charged(k), amount))
  BY UnitsFinite, ConstantsAssumption
<1>6. Cardinality(UnitsOf(MaxAmount, Held(k), amount) \cup UnitsOf(MaxAmount, Charged(k), amount))
        = Cardinality(UnitsOf(MaxAmount, Held(k), amount)) + Cardinality(UnitsOf(MaxAmount, Charged(k), amount))
            - Cardinality({})
  BY <1>4, <1>5, FS_Union
<1>7. Cardinality({}) = 0
  BY FS_EmptySet
<1>8. Counted(k) /\ reserved[k] \in Nat /\ spent[k] \in Nat
  BY DEF TypeOK
<1>9. Promise!Cost(Promise!Committed(k))
        = Cardinality(UnitsOf(MaxAmount, Held(k), amount) \cup UnitsOf(MaxAmount, Charged(k), amount))
  BY <1>1, <1>2, <1>3, Zenon
<1>10. Cardinality(UnitsOf(MaxAmount, Held(k), amount)) = reserved[k]
       /\ Cardinality(UnitsOf(MaxAmount, Charged(k), amount)) = spent[k]
  BY <1>8 DEF Counted
<1> QED
  BY <1>6, <1>7, <1>8, <1>9, <1>10

\* One step of the detailed specification is one of the contract, or none.
LEMMA StepRefines ==
    ASSUME IInv, [Next]_vars
    PROVE  [Promise!Next]_(Promise!contractVars)
<1> USE DEF IInv, Inv
<1> DEFINE ph == [e \in Effect |-> PromisePhase(status[e])]
           lv == {k \in Key : active[k]}
           ac == {e \in Effect : provider[e] = "applied"}
<1> DEFINE Stutter == UNCHANGED <<ph, owner, amount, lv, ac>>
<1>0. Stutter => UNCHANGED Promise!contractVars
  BY DEF Promise!contractVars
<1>1. ASSUME NEW e \in Effect, NEW k \in Key, NEW a \in 0..MaxAmount, RequestEffect(e, k, a)
      PROVE  Promise!Request(e, k, a)
  <2>1. \A q \in Key : Counted(q)
    BY ConservedIsCounted
  <2>2. Promise!Cost(Promise!Committed(k)) + a <= Limit[k]
    BY <1>1, <2>1, CommittedIsCounted DEF RequestEffect
  <2>3. ph[e] = "absent" /\ k \in lv
    BY <1>1 DEF RequestEffect, PromisePhase
  <2>4. ph' = [ph EXCEPT ![e] = "requested"]
    BY <1>1 DEF RequestEffect, TypeOK, PromisePhase
  <2>5. UNCHANGED <<lv, ac>>
    BY <1>1 DEF RequestEffect, providerVars
  <2> QED
    BY <1>1, <2>2, <2>3, <2>4, <2>5 DEF RequestEffect, Promise!Request
<1>2. ASSUME NEW k \in Key, RevokeApiKey(k)
      PROVE  Promise!Revoke(k)
  BY <1>2 DEF RevokeApiKey, Promise!Revoke, TypeOK, intentVars, providerVars
<1>3. ASSUME NEW w \in Worker, NEW e \in Effect, LeaseNext(w, e)
      PROVE  Promise!Authorize(e) \/ Stutter
  <2>1. UNCHANGED <<owner, amount, lv, ac>>
    BY <1>3 DEF LeaseNext, keyVars, providerVars
  <2>2. status' = [status EXCEPT ![e] = "dispatching"] /\ status[e] \in Outstanding
    BY <1>3 DEF LeaseNext, Candidate
  <2>3. CASE status[e] = "planned"
    <3>1. owner[e] \in lv
      BY <1>3, <2>3 DEF LeaseNext, RowInv
    <3>2. ph[e] = "requested" /\ ph' = [ph EXCEPT ![e] = "authorized"]
      BY <2>2, <2>3 DEF TypeOK, PromisePhase
    <3> QED
      BY <2>1, <3>1, <3>2 DEF Promise!Authorize
  <2>4. CASE status[e] # "planned"
    <3>1. ph' = ph
      BY <2>2, <2>4 DEF TypeOK, PromisePhase, Outstanding
    <3> QED
      BY <2>1, <3>1
  <2> QED
    BY <2>3, <2>4
<1>4. ASSUME NEW w \in Worker, NEW e \in Effect, CancelUnauthorized(w, e)
      PROVE  Promise!Cancel(e)
  <2>1. UNCHANGED <<owner, amount, lv, ac>>
    BY <1>4 DEF CancelUnauthorized, providerVars
  <2>2. status[e] = "planned" /\ status' = [status EXCEPT ![e] = "cancelled"]
    BY <1>4 DEF CancelUnauthorized, Candidate, Outstanding, RowInv
  <2>3. ph[e] = "requested" /\ ph' = [ph EXCEPT ![e] = "cancelled"]
    BY <2>2 DEF TypeOK, PromisePhase
  <2>4. owner[e] \notin lv
    BY <1>4 DEF CancelUnauthorized
  <2> QED
    BY <2>1, <2>3, <2>4 DEF Promise!Cancel
<1>5. ASSUME NEW w \in Worker, Finalize(w)
      PROVE  (job[w] \in Effect /\ Promise!Settle(job[w])) \/ Stutter
  <2> DEFINE e == job[w]
  <2>1. UNCHANGED <<owner, amount, lv, ac>>
    BY <1>5 DEF Finalize, providerVars
  <2>2. e \in Effect /\ status[e] = "dispatching"
    BY <1>5 DEF Finalize, HoldsLease, TypeOK, JobInv
  <2>3. status' = [status EXCEPT ![e] = NextStatus(w)]
    BY <1>5 DEF Finalize
  <2>4. CASE result[w] = "unknown"
    <3>1. NextStatus(w) \in {"unknown", "reconciling"}
      BY <2>4 DEF NextStatus
    <3>2. ph' = ph
      BY <2>2, <2>3, <3>1 DEF TypeOK, PromisePhase
    <3> QED
      BY <2>1, <3>2
  <2>5. CASE result[w] # "unknown"
    <3>1. \/ NextStatus(w) = "succeeded" /\ e \in ac
          \/ NextStatus(w) = "failed" /\ (e \notin ac \/ e \in UninformedFailures)
      BY <2>2, <2>5, ConstantsAssumption DEF NextStatus, AnswerInv, TypeOK
    <3>2. /\ ph[e] = "authorized"
          /\ NextStatus(w) \in {"succeeded", "failed"} => ph' = [ph EXCEPT ![e] = NextStatus(w)]
      BY <2>2, <2>3 DEF TypeOK, PromisePhase
    <3> QED
      BY <2>1, <2>2, <3>1, <3>2 DEF Promise!Settle
  <2> QED
    BY <2>4, <2>5
<1>6. ASSUME NEW e \in Effect, Resolve(e)
      PROVE  Promise!Act(e) \/ Stutter
  <2>1. UNCHANGED <<ph, owner, amount, lv>>
    BY <1>6 DEF Resolve, intentVars, keyVars
  <2>2. PICK p \in {"applied", "refused"} : provider' = [provider EXCEPT ![e] = p]
    BY <1>6 DEF Resolve
  <2>3. provider[e] = "pending" /\ e \notin ac
    BY <1>6 DEF Resolve
  <2>4. CASE p = "refused"
    BY <2>1, <2>2, <2>3, <2>4 DEF TypeOK
  <2>5. CASE p = "applied"
    <3>1. ac' = ac \cup {e}
      BY <2>2, <2>3, <2>5 DEF TypeOK
    <3>2. status[e] \in {"dispatching", "unknown", "reconciling"}
            \/ (status[e] = "failed" /\ e \in UninformedFailures)
      BY <2>3, ConstantsAssumption DEF TypeOK, Statuses, RowInv, SentInv, OutcomeMatchesReceiver
    <3>3. ph[e] = "authorized" \/ (ph[e] = "failed" /\ e \in UninformedFailures)
      BY <3>2 DEF PromisePhase
    <3> QED
      BY <2>1, <2>3, <3>1, <3>3 DEF Promise!Act
  <2> QED
    BY <2>4, <2>5
<1>7. ASSUME NEW e \in Effect, Receive(e)
      PROVE  Stutter
  BY <1>7 DEF Receive, intentVars, keyVars, TypeOK
<1>8. CASE \/ \E w \in Worker : \/ Post(w)
                               \/ \E r \in {"succeeded", "failed", "unknown"} : Conclude(w, r)
                               \/ LoseLease(w) \/ Crash(w) \/ Restart(w)
           \/ \E e \in Effect : ExpireLease(e) \/ RetryDue(e) \/ LoseRequest(e)
           \/ UNCHANGED vars
  <2>1. UNCHANGED <<status, owner, amount, active, provider>>
    BY <1>8 DEF Post, Conclude, LoseLease, Crash, Restart, ExpireLease, RetryDue, LoseRequest,
                vars, intentVars, keyVars, providerVars
  <2> QED
    BY <2>1, <1>0
<1> HIDE DEF Stutter
<1> QED
  BY <1>0, <1>1, <1>2, <1>3, <1>4, <1>5, <1>6, <1>7, <1>8
  DEF Next, KernelStep, WorkerStep, EnvironmentStep, Promise!Next

\* Every behaviour of the effect subsystem is one of the contract: of the strict one
\* when failures are informed, and of the one that says what is left when they are not.
THEOREM Implementation == Spec => ImplementsContract
<1>1. Init => Promise!Init
  BY DEF Init, Promise!Init, PromisePhase
<1>2. IInv /\ [Next]_vars => [Promise!Next]_(Promise!contractVars)
  BY StepRefines
<1> QED
  BY <1>1, <1>2, Invariance, PTL DEF Spec, ImplementsContract, Promise!Spec

-----------------------------------------------------------------------------
(* Orders do not disturb effects *)

\* Every retail step is an effect step or leaves the effects alone.
LEMMA RetailStepIsEffectStep ==
    ASSUME [RetailNext]_retailVars
    PROVE  [Next]_vars
<1>1. CASE OrderStep
  <2> USE DEF RequestPayment, FinalizePayment, CancelPayment, SeedInventory,
              ReserveInventory, ProcessTimers, Lapse
  <2> QED
    BY <1>1 DEF OrderStep, Next, KernelStep, WorkerStep, Order
<1>2. CASE EffectOnlyStep
  BY <1>2 DEF EffectOnlyStep, Next, KernelStep, WorkerStep
<1>3. CASE UNCHANGED retailVars
  BY <1>3 DEF retailVars
<1> QED
  BY <1>1, <1>2, <1>3 DEF RetailNext

\* With orders, the effect subsystem is still the one of EffectLifecycle: every
\* theorem about Spec holds of RetailSpec.
THEOREM EffectsUnderOrders == RetailSpec => Spec
<1>1. RetailInit => Init
  BY DEF RetailInit
<1>2. [RetailNext]_retailVars => [Next]_vars
  BY RetailStepIsEffectStep
<1> QED
  BY <1>1, <1>2, PTL DEF RetailSpec, Spec

-----------------------------------------------------------------------------
(* The inductive invariant *)

\* An order is for an item that has been seeded.
ItemInv ==
    \A o \in Order : machine[o] # "absent" => item[o] \in Item /\ seeded[item[o]] # None

\* An order waits for its payment exactly while the payment is outstanding.
PendingInv ==
    \A o \in Order : status[o] \in Outstanding <=> machine[o] = "payment_pending"

ControlInv == RetailTypeOK /\ ItemInv /\ PendingInv /\ OrderMatchesPayment

\* The stock of an item in the terms of the lemmas on units.
StockCounted(i) ==
    /\ held[i] = Cardinality(UnitsOf(MaxQuantity, At(i, Holding), quantity))
    /\ seeded[i] # None =>
         onHand[i] + Cardinality(UnitsOf(MaxQuantity, At(i, Confirmed), quantity)) = seeded[i]

\* The steps that only the effects take leave every order's payment as
\* outstanding, or as settled, as it was.
LEMMA EffectOnlyKeeps ==
    ASSUME TypeOK, JobInv, EffectOnlyStep
    PROVE  \A e \in Effect : \/ status'[e] = status[e]
                             \/ status[e] \in Outstanding /\ status'[e] \in Outstanding
BY DEF TypeOK, JobInv, EffectOnlyStep, RevokeApiKey, LeaseNext, Candidate, Post, Conclude,
       LoseLease, Crash, Restart, EnvironmentStep, ExpireLease, RetryDue, Receive,
       LoseRequest, Resolve, intentVars, Outstanding

\* What settling a payment does to its status.
LEMMA FinalizeStatus ==
    ASSUME TypeOK, JobInv, NEW w \in Worker, Finalize(w)
    PROVE  /\ job[w] \in Effect
           /\ status[job[w]] = "dispatching"
           /\ status' = [status EXCEPT ![job[w]] = NextStatus(w)]
           /\ result[w] = "unknown" => NextStatus(w) \in Outstanding
           /\ result[w] # "unknown" => NextStatus(w) = result[w]
           /\ result[w] \in {"succeeded", "failed", "unknown"}
BY DEF TypeOK, JobInv, Finalize, HoldsLease, NextStatus, Outstanding

\* Cancelling a payment takes it from outstanding to cancelled.
LEMMA CancelStatus ==
    ASSUME TypeOK, NEW w \in Worker, NEW o \in Order, CancelUnauthorized(w, o)
    PROVE  /\ status[o] \in Outstanding
           /\ status' = [status EXCEPT ![o] = "cancelled"]
BY DEF CancelUnauthorized, Candidate

\* Type correctness of the orders' state.
LEMMA StepRetailType ==
    ASSUME TypeOK', ControlInv, Inv, [RetailNext]_retailVars
    PROVE  RetailTypeOK'
<1> USE RetailAssumption DEF ControlInv, RetailTypeOK, Order, MachineStates, Enter
<1>1. ASSUME NEW i \in Item, NEW n \in 0..MaxStock, SeedInventory(i, n)
      PROVE  RetailTypeOK'
  BY <1>1 DEF SeedInventory
<1>2. ASSUME NEW o \in Order, NEW i \in Item, NEW n \in 1..MaxQuantity, ReserveInventory(o, i, n)
      PROVE  RetailTypeOK'
  BY <1>2 DEF ReserveInventory
<1>3. ASSUME NEW o \in Order, NEW k \in Key, NEW a \in 0..MaxAmount, RequestPayment(o, k, a)
      PROVE  RetailTypeOK'
  BY <1>3 DEF RequestPayment
<1>4. ASSUME NEW S \in SUBSET Order, ProcessTimers(S)
      PROVE  RetailTypeOK'
  <2>1. \A i \in Item : Quantity(At(i, Expiring(S))) \in Nat
    <3>1. \A T : Quantity(T) = Cardinality(UnitsOf(MaxQuantity, T, quantity))
      BY DEF Quantity, UnitsOf
    <3>2. \A T : Cardinality(UnitsOf(MaxQuantity, T, quantity)) \in Nat
      BY UnitsFinite, FS_CardinalityType
    <3> QED
      BY <3>1, <3>2
  <2>2. held' \in [Item -> Nat]
    BY <1>4, <2>1 DEF ProcessTimers
  <2>3. history' \in [Order -> Seq(MachineStates)]
    BY <1>4 DEF ProcessTimers
  <2>4. machine' \in [Order -> MachineStates]
    BY <1>4 DEF ProcessTimers
  <2>5. timer' \in [Order -> {"absent", "pending", "fired", "cancelled"}]
    BY <1>4 DEF ProcessTimers
  <2> QED
    BY <1>4, <2>2, <2>3, <2>4, <2>5 DEF ProcessTimers
<1>5. ASSUME NEW o \in Order, Lapse(o)
      PROVE  RetailTypeOK'
  BY <1>5 DEF Lapse
<1>6. ASSUME NEW w \in Worker, FinalizePayment(w)
      PROVE  RetailTypeOK'
  <2>1. CASE UNCHANGED orderVars
    BY <2>1 DEF orderVars
  <2>2. ASSUME FinishRetailOrder(job[w], result[w])
        PROVE  RetailTypeOK'
    <3>1. job[w] \in Order
      BY <1>6, FinalizeStatus DEF FinalizePayment, Inv
    <3>2. quantity[job[w]] \in Nat /\ item[job[w]] \in Item
      BY <2>2, <3>1 DEF FinishRetailOrder, ItemInv
    <3>3. held' \in [Item -> Nat]
      <4>1. /\ held[item[job[w]]] >= quantity[job[w]]
            /\ held' = [held EXCEPT ![item[job[w]]] = @ - quantity[job[w]]]
        BY <2>2 DEF FinishRetailOrder, Commit, Release
      <4> QED
        BY <3>2, <4>1
    <3>4. onHand' \in [Item -> Nat]
      <4>1. \/ /\ onHand[item[job[w]]] >= quantity[job[w]]
               /\ onHand' = [onHand EXCEPT ![item[job[w]]] = @ - quantity[job[w]]]
            \/ UNCHANGED onHand
        BY <2>2 DEF FinishRetailOrder, Commit, Release
      <4>2. onHand \in [Item -> Nat] /\ item[job[w]] \in Item /\ quantity[job[w]] \in Nat
        BY <3>2
      <4> HIDE DEF ControlInv, RetailTypeOK
      <4> QED
        BY <4>1, <4>2
    <3>5. \E s \in MachineStates :
            /\ machine' = [machine EXCEPT ![job[w]] = s]
            /\ history' = [history EXCEPT ![job[w]] = Append(@, s)]
      BY <2>2 DEF FinishRetailOrder
    <3>6. UNCHANGED <<seeded, item, quantity, lapsed, timer>>
      BY <2>2 DEF FinishRetailOrder
    <3> QED
      BY <3>1, <3>3, <3>4, <3>5, <3>6
  <2> QED
    BY <1>6, <2>1, <2>2 DEF FinalizePayment
<1>7. ASSUME NEW w \in Worker, NEW o \in Order, CancelPayment(w, o)
      PROVE  RetailTypeOK'
  <2>1. CASE machine[o] = "payment_pending"
    <3>1. quantity[o] \in Nat /\ item[o] \in Item
      BY <2>1 DEF ItemInv
    <3>2. /\ held[item[o]] >= quantity[o]
          /\ held' = [held EXCEPT ![item[o]] = @ - quantity[o]]
          /\ machine' = [machine EXCEPT ![o] = "failed"]
          /\ history' = [history EXCEPT ![o] = Append(@, "failed")]
          /\ UNCHANGED <<seeded, onHand, item, quantity, lapsed, timer>>
      BY <1>7, <2>1 DEF CancelPayment, Release
    <3> QED
      BY <3>1, <3>2
  <2>2. CASE UNCHANGED orderVars
    BY <2>2 DEF orderVars
  <2> QED
    BY <1>7, <2>1, <2>2 DEF CancelPayment
<1>8. CASE UNCHANGED orderVars
  BY <1>8 DEF orderVars
<1> QED
  BY <1>1, <1>2, <1>3, <1>4, <1>5, <1>6, <1>7, <1>8 DEF RetailNext, OrderStep, retailVars

\* Orders, payments and timers move together.
LEMMA StepControl ==
    ASSUME Inv, TypeOK', ControlInv, [RetailNext]_retailVars
    PROVE  ControlInv'
<1>0. RetailTypeOK'
  BY StepRetailType
<1> SUFFICES ASSUME NEW q \in Order
             PROVE  /\ (machine[q] # "absent" => item[q] \in Item /\ seeded[item[q]] # None)'
                    /\ (status[q] \in Outstanding <=> machine[q] = "payment_pending")'
                    /\ (machine[q] = "confirmed" <=> status[q] = "succeeded")'
                    /\ (machine[q] = "failed" <=> status[q] \in {"failed", "cancelled"})'
                    /\ (machine[q] = "cancelled" => status[q] = "absent" /\ timer[q] = "fired")'
                    /\ (machine[q] = "reserved" <=> timer[q] = "pending")'
  BY <1>0 DEF ControlInv, ItemInv, PendingInv, OrderMatchesPayment
<1> DEFINE Goal == /\ (machine[q] # "absent" => item[q] \in Item /\ seeded[item[q]] # None)'
                   /\ (status[q] \in Outstanding <=> machine[q] = "payment_pending")'
                   /\ (machine[q] = "confirmed" <=> status[q] = "succeeded")'
                   /\ (machine[q] = "failed" <=> status[q] \in {"failed", "cancelled"})'
                   /\ (machine[q] = "cancelled" => status[q] = "absent" /\ timer[q] = "fired")'
                   /\ (machine[q] = "reserved" <=> timer[q] = "pending")'
<1> USE RetailAssumption
    DEF ControlInv, RetailTypeOK, ItemInv, PendingInv, OrderMatchesPayment, Outstanding,
        Order, MachineStates, Enter, Inv
<1>1. ASSUME NEW i \in Item, NEW n \in 0..MaxStock, SeedInventory(i, n)
      PROVE  Goal
  BY <1>1 DEF SeedInventory, vars, intentVars
<1>2. ASSUME NEW o \in Order, NEW i \in Item, NEW n \in 1..MaxQuantity, ReserveInventory(o, i, n)
      PROVE  Goal
  BY <1>2 DEF ReserveInventory, vars, intentVars
<1>3. ASSUME NEW o \in Order, NEW k \in Key, NEW a \in 0..MaxAmount, RequestPayment(o, k, a)
      PROVE  Goal
  <2>1. /\ machine[o] = "reserved"
        /\ machine' = [machine EXCEPT ![o] = "payment_pending"]
        /\ timer' = [timer EXCEPT ![o] = IF @ = "pending" THEN "cancelled" ELSE @]
        /\ UNCHANGED <<seeded, item>>
    BY <1>3 DEF RequestPayment
  <2>2. status' = [status EXCEPT ![o] = "planned"]
    BY <1>3 DEF RequestPayment, RequestEffect
  <2>3. status'[q] = IF q = o THEN "planned" ELSE status[q]
    BY <2>2 DEF TypeOK
  <2>4. /\ machine'[q] = IF q = o THEN "payment_pending" ELSE machine[q]
        /\ timer'[q] = IF q = o /\ timer[q] # "pending" THEN timer[q]
                       ELSE IF q = o THEN "cancelled" ELSE timer[q]
    BY <2>1
  <2>5. timer[o] = "pending"
    BY <2>1
  <2> QED
    BY <2>1, <2>3, <2>4, <2>5
<1>4. ASSUME NEW S \in SUBSET Order, ProcessTimers(S)
      PROVE  Goal
  BY <1>4 DEF ProcessTimers, Expiring, vars, intentVars, TypeOK, Statuses
<1>5. ASSUME NEW o \in Order, Lapse(o)
      PROVE  Goal
  BY <1>5 DEF Lapse, vars, intentVars
<1>6. ASSUME NEW w \in Worker, FinalizePayment(w)
      PROVE  Goal
  <2>1. /\ job[w] \in Effect
        /\ status[job[w]] = "dispatching"
        /\ status' = [status EXCEPT ![job[w]] = NextStatus(w)]
        /\ result[w] = "unknown" => NextStatus(w) \in Outstanding
        /\ result[w] # "unknown" => NextStatus(w) = result[w]
    BY <1>6, FinalizeStatus DEF FinalizePayment
  <2>2. CASE result[w] = "unknown" /\ UNCHANGED orderVars
    <3>1. UNCHANGED <<machine, item, seeded, timer>>
      BY <2>2 DEF orderVars
    <3>2. \/ status'[q] = status[q]
          \/ status[q] \in Outstanding /\ status'[q] \in Outstanding
      <4>1. NextStatus(w) \in Outstanding /\ status[job[w]] \in Outstanding
        BY <2>1, <2>2
      <4>2. status'[q] = IF q = job[w] THEN NextStatus(w) ELSE status[q]
        BY <2>1 DEF TypeOK
      <4> HIDE DEF Outstanding
      <4> QED
        BY <4>1, <4>2
    <3> HIDE DEF Inv
    <3> QED
      BY <3>1, <3>2
  <2>3. CASE result[w] # "unknown" /\ FinishRetailOrder(job[w], result[w])
    <3>1. /\ machine[job[w]] = "payment_pending"
          /\ UNCHANGED <<item, seeded, timer>>
          /\ \/ /\ result[w] = "succeeded"
                /\ machine' = [machine EXCEPT ![job[w]] = "confirmed"]
             \/ /\ result[w] = "failed"
                /\ machine' = [machine EXCEPT ![job[w]] = "failed"]
      BY <2>3 DEF FinishRetailOrder
    <3>2. status[job[w]] = "dispatching" /\ status'[q] = IF q = job[w] THEN result[w] ELSE status[q]
      BY <2>1, <2>3 DEF TypeOK
    <3> HIDE DEF Inv
    <3> QED
      BY <2>1, <3>1, <3>2
  <2> QED
    BY <1>6, <2>2, <2>3 DEF FinalizePayment
<1>7. ASSUME NEW w \in Worker, NEW o \in Order, CancelPayment(w, o)
      PROVE  Goal
  <2>1. status[o] \in Outstanding /\ status' = [status EXCEPT ![o] = "cancelled"]
    BY <1>7, CancelStatus DEF CancelPayment
  <2>2. machine[o] = "payment_pending"
    BY <2>1
  <2>3. /\ machine' = [machine EXCEPT ![o] = "failed"]
        /\ UNCHANGED <<seeded, item, timer>>
    BY <1>7, <2>2 DEF CancelPayment
  <2> QED
    BY <2>1, <2>2, <2>3 DEF TypeOK
<1>8. ASSUME EffectOnlyStep, UNCHANGED orderVars
      PROVE  Goal
  <2>1. \/ status'[q] = status[q]
        \/ status[q] \in Outstanding /\ status'[q] \in Outstanding
    BY <1>8, EffectOnlyKeeps
  <2> QED
    BY <1>8, <2>1 DEF orderVars
<1>9. ASSUME UNCHANGED retailVars
      PROVE  Goal
  BY <1>9 DEF retailVars, orderVars, vars, intentVars
<1> QED
  BY <1>1, <1>2, <1>3, <1>4, <1>5, <1>6, <1>7, <1>8, <1>9 DEF RetailNext, OrderStep

-----------------------------------------------------------------------------
(* The stock *)

\* A part taken out of a set takes its units with it.
LEMMA UnitsMinus ==
    ASSUME NEW m \in Nat, NEW S, NEW T, T \subseteq S, NEW f
    PROVE  /\ Cardinality(UnitsOf(m, S \ T, f))
                = Cardinality(UnitsOf(m, S, f)) - Cardinality(UnitsOf(m, T, f))
           /\ Cardinality(UnitsOf(m, S, f)) >= Cardinality(UnitsOf(m, T, f))
<1>1. UnitsOf(m, S, f) = UnitsOf(m, S \ T, f) \cup UnitsOf(m, T, f)
  BY DEF UnitsOf
<1>2. UnitsOf(m, S \ T, f) \cap UnitsOf(m, T, f) = {}
  BY DEF UnitsOf
<1>3. IsFiniteSet(UnitsOf(m, S \ T, f)) /\ IsFiniteSet(UnitsOf(m, T, f))
  BY UnitsFinite
<1>4. Cardinality(UnitsOf(m, S \ T, f)) \in Nat /\ Cardinality(UnitsOf(m, T, f)) \in Nat
  BY <1>3, FS_CardinalityType
<1>5. Cardinality(UnitsOf(m, S \ T, f) \cup UnitsOf(m, T, f))
        = Cardinality(UnitsOf(m, S \ T, f)) + Cardinality(UnitsOf(m, T, f)) - Cardinality({})
  BY <1>2, <1>3, FS_Union
<1>6. Cardinality({}) = 0
  BY FS_EmptySet
<1> QED
  BY <1>1, <1>4, <1>5, <1>6

\* The invariant in the terms of the lemmas on units.
LEMMA StockIsCounted ==
    InventoryConserved <=> \A i \in Item : StockCounted(i)
<1>1. \A S : Quantity(S) = Cardinality(UnitsOf(MaxQuantity, S, quantity))
  BY DEF Quantity, UnitsOf, Order
<1> QED
  BY <1>1 DEF InventoryConserved, StockCounted

\* An item none of whose orders and quantities change keeps its balance.
LEMMA StockStill ==
    ASSUME NEW i \in Item, StockCounted(i),
           At(i, Holding)' = At(i, Holding),
           At(i, Confirmed)' = At(i, Confirmed),
           UNCHANGED <<quantity, held, onHand, seeded>>
    PROVE  StockCounted(i)'
BY DEF StockCounted, UnitsOf

\* What a live order holds is there to be released or taken.
LEMMA StockSuffices ==
    ASSUME ControlInv, \A i \in Item : StockCounted(i), NotOversold,
           NEW o \in Order, machine[o] \in {"reserved", "payment_pending"}
    PROVE  held[item[o]] >= quantity[o] /\ onHand[item[o]] >= quantity[o]
<1> USE DEF ControlInv, RetailTypeOK
<1>1. item[o] \in Item
  BY DEF ItemInv
<1>2. o \in At(item[o], Holding)
  BY DEF At, Holding
<1>3. MaxQuantity \in Nat /\ quantity \in [Effect -> 0..MaxQuantity] /\ o \in Effect
  BY RetailAssumption DEF Order
<1>4. Cardinality(UnitsOf(MaxQuantity, At(item[o], Holding), quantity)) >= quantity[o]
  <2> HIDE DEF ControlInv
  <2> QED
    BY <1>2, <1>3, UnitsRemove
<1>5. held[item[o]] >= quantity[o]
  BY <1>1, <1>4 DEF StockCounted
<1>6. held[item[o]] <= onHand[item[o]]
  BY <1>1 DEF NotOversold
<1>7. held[item[o]] \in Nat /\ onHand[item[o]] \in Nat /\ quantity[o] \in Nat
  BY <1>1, <1>3
<1> QED
  BY <1>5, <1>6, <1>7

\* An order that ends gives its stock back, or takes it.
LEMMA OrderEndsCounted ==
    ASSUME ControlInv, \A i \in Item : StockCounted(i),
           NEW o \in Order, machine[o] \in {"reserved", "payment_pending"},
           NEW s \in {"confirmed", "failed"},
           machine' = [machine EXCEPT ![o] = s],
           UNCHANGED <<seeded, item, quantity>>,
           held' = [held EXCEPT ![item[o]] = @ - quantity[o]],
           onHand' = IF s = "confirmed"
                     THEN [onHand EXCEPT ![item[o]] = @ - quantity[o]] ELSE onHand
    PROVE  \A i \in Item : StockCounted(i)'
<1> USE DEF ControlInv, RetailTypeOK
<1>1. item[o] \in Item
  BY DEF ItemInv
<1>3. MaxQuantity \in Nat /\ quantity \in [Effect -> 0..MaxQuantity] /\ o \in Effect
  BY RetailAssumption DEF Order
<1>4. quantity[o] \in Nat
  BY <1>3
<1> SUFFICES ASSUME NEW i \in Item PROVE StockCounted(i)'
  OBVIOUS
<1>5. held[i] \in Nat /\ onHand[i] \in Nat
  OBVIOUS
<1>6. CASE i = item[o]
  <2>1. o \in At(i, Holding) /\ o \notin At(i, Confirmed)
    BY <1>6 DEF At, Holding, Confirmed
  <2>2. At(i, Holding)' = At(i, Holding) \ {o}
    BY DEF At, Holding
  <2>3. At(i, Confirmed)' = IF s = "confirmed" THEN At(i, Confirmed) \cup {o}
                                               ELSE At(i, Confirmed)
    BY <1>6 DEF At, Confirmed
  <2>4. /\ held'[i] = held[i] - quantity[o]
        /\ onHand'[i] = IF s = "confirmed" THEN onHand[i] - quantity[o] ELSE onHand[i]
    BY <1>6
  <2>5. Cardinality(UnitsOf(MaxQuantity, At(i, Holding) \ {o}, quantity))
          = Cardinality(UnitsOf(MaxQuantity, At(i, Holding), quantity)) - quantity[o]
    <3> HIDE DEF ControlInv
    <3> QED
      BY <2>1, <1>3, UnitsRemove
  <2>6. Cardinality(UnitsOf(MaxQuantity, At(i, Confirmed) \cup {o}, quantity))
          = Cardinality(UnitsOf(MaxQuantity, At(i, Confirmed), quantity)) + quantity[o]
    <3> HIDE DEF ControlInv
    <3> QED
      BY <2>1, <1>3, UnitsAdd
  <2>7. Cardinality(UnitsOf(MaxQuantity, At(i, Confirmed), quantity)) \in Nat
    BY <1>3, UnitsFinite, FS_CardinalityType
  <2>8. held'[i] = Cardinality(UnitsOf(MaxQuantity, At(i, Holding)', quantity'))
    BY <2>2, <2>4, <2>5 DEF StockCounted
  <2>9. seeded'[i] # None =>
          onHand'[i] + Cardinality(UnitsOf(MaxQuantity, At(i, Confirmed)', quantity')) = seeded'[i]
    <3> HIDE DEF ControlInv
    <3>1. CASE s = "confirmed"
      BY <3>1, <2>3, <2>4, <2>6, <2>7, <1>4, <1>5 DEF StockCounted
    <3>2. CASE s # "confirmed"
      BY <3>2, <2>3, <2>4 DEF StockCounted
    <3> QED
      BY <3>1, <3>2
  <2> QED
    BY <2>8, <2>9 DEF StockCounted, UnitsOf
<1>7. CASE i # item[o]
  <2>1. At(i, Holding)' = At(i, Holding) /\ At(i, Confirmed)' = At(i, Confirmed)
    BY <1>7 DEF At, Holding, Confirmed
  <2>2. held'[i] = held[i] /\ onHand'[i] = onHand[i]
    BY <1>7
  <2> QED
    BY <2>1, <2>2 DEF StockCounted, UnitsOf
<1> QED
  BY <1>6, <1>7

\* A reservation adds the order to what its item holds.
LEMMA ReserveCounted ==
    ASSUME ControlInv, \A i \in Item : StockCounted(i),
           NEW o \in Order, NEW j \in Item, NEW n \in 1..MaxQuantity,
           ReserveInventory(o, j, n)
    PROVE  \A i \in Item : StockCounted(i)'
<1> USE DEF ControlInv, RetailTypeOK, ReserveInventory, Enter
<1>1. MaxQuantity \in Nat /\ quantity' \in [Effect -> 0..MaxQuantity] /\ o \in Effect
  BY RetailAssumption DEF Order
<1>2. quantity'[o] = n
  BY DEF Order
<1> SUFFICES ASSUME NEW i \in Item PROVE StockCounted(i)'
  OBVIOUS
<1>3. o \notin At(i, Holding) /\ o \notin At(i, Confirmed)
  BY DEF At, Holding, Confirmed
<1>4. At(i, Holding)' = IF i = j THEN At(i, Holding) \cup {o} ELSE At(i, Holding)
  BY DEF At, Holding
<1>5. At(i, Confirmed)' = At(i, Confirmed)
  BY DEF At, Confirmed
<1>6. /\ UnitsOf(MaxQuantity, At(i, Holding), quantity')
           = UnitsOf(MaxQuantity, At(i, Holding), quantity)
      /\ UnitsOf(MaxQuantity, At(i, Confirmed), quantity')
           = UnitsOf(MaxQuantity, At(i, Confirmed), quantity)
  BY <1>3 DEF UnitsOf, Order
<1>7. Cardinality(UnitsOf(MaxQuantity, At(i, Holding) \cup {o}, quantity'))
        = Cardinality(UnitsOf(MaxQuantity, At(i, Holding), quantity')) + n
  <2>1. \A S : \A f \in [Effect -> 0..MaxQuantity] : o \notin S =>
          Cardinality(UnitsOf(MaxQuantity, S \cup {o}, f))
            = Cardinality(UnitsOf(MaxQuantity, S, f)) + f[o]
    <3> HIDE DEF ControlInv, ReserveInventory
    <3> QED
      BY <1>1, UnitsAdd
  <2> HIDE DEF ControlInv, ReserveInventory
  <2> QED
    BY <1>1, <1>2, <1>3, <2>1
<1>8. /\ held'[i] = IF i = j THEN held[i] + n ELSE held[i]
      /\ onHand'[i] = onHand[i] /\ seeded'[i] = seeded[i]
  OBVIOUS
<1>9. StockCounted(i)
  OBVIOUS
<1> HIDE DEF ControlInv, ReserveInventory
<1>10. held'[i] = Cardinality(UnitsOf(MaxQuantity, At(i, Holding)', quantity'))
  <2>1. CASE i = j
    BY <2>1, <1>4, <1>6, <1>7, <1>8, <1>9 DEF StockCounted
  <2>2. CASE i # j
    BY <2>2, <1>4, <1>6, <1>8, <1>9 DEF StockCounted
  <2> QED
    BY <2>1, <2>2
<1>11. seeded'[i] # None =>
         onHand'[i] + Cardinality(UnitsOf(MaxQuantity, At(i, Confirmed)', quantity')) = seeded'[i]
  BY <1>5, <1>6, <1>8, <1>9 DEF StockCounted
<1> QED
  BY <1>10, <1>11 DEF StockCounted, UnitsOf

\* A batch of timers releases what its orders held.
LEMMA TimersCounted ==
    ASSUME ControlInv, \A i \in Item : StockCounted(i),
           NEW S \in SUBSET Order, ProcessTimers(S)
    PROVE  \A i \in Item : StockCounted(i)'
<1> USE DEF ProcessTimers
<1> DEFINE E == Expiring(S)
<1>1. MaxQuantity \in Nat
  BY RetailAssumption
<1> SUFFICES ASSUME NEW i \in Item PROVE StockCounted(i)'
  OBVIOUS
<1>2. At(i, Holding)' = At(i, Holding) \ At(i, E)
  BY DEF At, Holding, Expiring
<1>3. At(i, Confirmed)' = At(i, Confirmed)
  BY DEF At, Confirmed, Expiring
<1>4. At(i, E) \subseteq At(i, Holding)
  BY DEF At, Holding, Expiring
<1>5. held'[i] = held[i] - Quantity(At(i, E))
  OBVIOUS
<1>6. Quantity(At(i, E)) = Cardinality(UnitsOf(MaxQuantity, At(i, E), quantity))
  BY DEF Quantity, UnitsOf, Order
<1>9. UNCHANGED <<quantity, onHand, seeded>>
  OBVIOUS
<1> HIDE DEF E, ProcessTimers
<1>7. Cardinality(UnitsOf(MaxQuantity, At(i, Holding) \ At(i, E), quantity))
        = Cardinality(UnitsOf(MaxQuantity, At(i, Holding), quantity))
            - Cardinality(UnitsOf(MaxQuantity, At(i, E), quantity))
  <2>1. \A T : T \subseteq At(i, Holding) =>
          Cardinality(UnitsOf(MaxQuantity, At(i, Holding) \ T, quantity))
            = Cardinality(UnitsOf(MaxQuantity, At(i, Holding), quantity))
                - Cardinality(UnitsOf(MaxQuantity, T, quantity))
    BY <1>1, UnitsMinus
  <2> QED
    BY <1>4, <2>1
<1>8. held'[i] = Cardinality(UnitsOf(MaxQuantity, At(i, Holding)', quantity))
  BY <1>2, <1>5, <1>6, <1>7 DEF StockCounted
<1>10. StockCounted(i)
  OBVIOUS
<1>11. held'[i] = Cardinality(UnitsOf(MaxQuantity, At(i, Holding)', quantity'))
  BY <1>8, <1>9
<1>12. seeded'[i] # None =>
         onHand'[i] + Cardinality(UnitsOf(MaxQuantity, At(i, Confirmed)', quantity')) = seeded'[i]
  BY <1>3, <1>9, <1>10 DEF StockCounted
<1> QED
  BY <1>11, <1>12 DEF StockCounted, UnitsOf

\* Seeding an item, of which there can be no order yet.
LEMMA SeedCounted ==
    ASSUME ControlInv, \A i \in Item : StockCounted(i),
           NEW j \in Item, NEW n \in 0..MaxStock, SeedInventory(j, n)
    PROVE  \A i \in Item : StockCounted(i)'
<1> USE DEF ControlInv, RetailTypeOK, SeedInventory
<1> SUFFICES ASSUME NEW i \in Item PROVE StockCounted(i)'
  OBVIOUS
<1>1. At(i, Holding)' = At(i, Holding) /\ At(i, Confirmed)' = At(i, Confirmed)
  BY DEF At, Holding, Confirmed
<1>2. CASE i # j
  BY <1>1, <1>2 DEF StockCounted, UnitsOf
<1>3. CASE i = j
  <2>1. At(i, Confirmed) = {}
    BY <1>3 DEF At, Confirmed, ItemInv
  <2>2. Cardinality(UnitsOf(MaxQuantity, {}, quantity)) = 0
    BY RetailAssumption, UnitsEmpty
  <2>3. onHand'[i] = n /\ seeded'[i] = n /\ n \in Nat
    BY <1>3, RetailAssumption
  <2>4. held'[i] = Cardinality(UnitsOf(MaxQuantity, At(i, Holding)', quantity'))
    BY <1>1 DEF StockCounted
  <2>5. onHand'[i] + Cardinality(UnitsOf(MaxQuantity, At(i, Confirmed)', quantity')) = seeded'[i]
    BY <1>1, <2>1, <2>2, <2>3
  <2> QED
    BY <2>4, <2>5 DEF StockCounted, UnitsOf
<1> QED
  BY <1>2, <1>3

\* Every step keeps the balance of every item.
LEMMA StepStock ==
    ASSUME Inv, ControlInv, \A i \in Item : StockCounted(i), [RetailNext]_retailVars
    PROVE  \A i \in Item : StockCounted(i)'
<1>1. ASSUME UNCHANGED <<quantity, item, held, onHand, seeded>>,
             \A o \in Order : /\ o \in Holding <=> o \in Holding'
                              /\ o \in Confirmed <=> o \in Confirmed'
      PROVE  \A i \in Item : StockCounted(i)'
  BY <1>1, StockStill DEF At, Holding, Confirmed
<1>2. ASSUME UNCHANGED orderVars
      PROVE  \A i \in Item : StockCounted(i)'
  BY <1>1, <1>2 DEF orderVars, Holding, Confirmed
<1>3. ASSUME NEW o \in Order, NEW k \in Key, NEW a \in 0..MaxAmount, RequestPayment(o, k, a)
      PROVE  \A i \in Item : StockCounted(i)'
  BY <1>1, <1>3 DEF RequestPayment, Enter, Holding, Confirmed, ControlInv, RetailTypeOK
<1>4. ASSUME NEW o \in Order, Lapse(o)
      PROVE  \A i \in Item : StockCounted(i)'
  BY <1>1, <1>4 DEF Lapse, Holding, Confirmed
<1>5. ASSUME NEW w \in Worker, FinalizePayment(w)
      PROVE  \A i \in Item : StockCounted(i)'
  <2>1. CASE FinishRetailOrder(job[w], "succeeded")
    <3>1. job[w] \in Order
      BY <1>5, FinalizeStatus DEF FinalizePayment, Inv, Order
    <3> QED
      BY <2>1, <3>1, OrderEndsCounted DEF FinishRetailOrder, Commit, Enter
  <2>2. CASE FinishRetailOrder(job[w], "failed")
    <3>1. job[w] \in Order
      BY <1>5, FinalizeStatus DEF FinalizePayment, Inv, Order
    <3> QED
      BY <2>2, <3>1, OrderEndsCounted DEF FinishRetailOrder, Release, Enter
  <2>3. \/ UNCHANGED orderVars
        \/ FinishRetailOrder(job[w], "succeeded")
        \/ FinishRetailOrder(job[w], "failed")
    BY <1>5, FinalizeStatus DEF FinalizePayment, Inv
  <2> QED
    BY <1>2, <2>1, <2>2, <2>3
<1>6. ASSUME NEW w \in Worker, NEW o \in Order, CancelPayment(w, o)
      PROVE  \A i \in Item : StockCounted(i)'
  <2>1. CASE machine[o] = "payment_pending"
    BY <1>6, <2>1, OrderEndsCounted DEF CancelPayment, Release, Enter
  <2> QED
    BY <1>2, <1>6, <2>1 DEF CancelPayment
<1> QED
  BY <1>2, <1>3, <1>4, <1>5, <1>6, SeedCounted, ReserveCounted, TimersCounted
  DEF RetailNext, OrderStep, retailVars

\* No step promises more than there is.
LEMMA StepNotOversold ==
    ASSUME Inv, ControlInv, \A i \in Item : StockCounted(i), NotOversold,
           [RetailNext]_retailVars
    PROVE  NotOversold'
<1> USE DEF ControlInv, RetailTypeOK
<1> SUFFICES ASSUME NEW i \in Item PROVE held'[i] <= onHand'[i]
  BY DEF NotOversold
<1>0. held[i] <= onHand[i] /\ held[i] \in Nat /\ onHand[i] \in Nat
  BY DEF NotOversold
<1>1. ASSUME UNCHANGED <<held, onHand>>
      PROVE  held'[i] <= onHand'[i]
  BY <1>0, <1>1
<1>2. ASSUME NEW j \in Item, NEW n \in 0..MaxStock, SeedInventory(j, n)
      PROVE  held'[i] <= onHand'[i]
  <2>1. CASE i # j
    BY <1>0, <1>2, <2>1 DEF SeedInventory
  <2>2. CASE i = j
    <3>1. At(i, Holding) = {}
      BY <1>2, <2>2 DEF At, Holding, ItemInv, SeedInventory
    <3>2. Cardinality(UnitsOf(MaxQuantity, {}, quantity)) = 0
      BY RetailAssumption, UnitsEmpty
    <3>3. held[i] = 0
      BY <3>1, <3>2 DEF StockCounted
    <3>4. held'[i] = 0 /\ onHand'[i] = n /\ n \in Nat
      BY <1>2, <2>2, <3>3, RetailAssumption DEF SeedInventory
    <3> QED
      BY <3>4
  <2> QED
    BY <2>1, <2>2
<1>3. ASSUME NEW o \in Order, NEW j \in Item, NEW n \in 1..MaxQuantity, ReserveInventory(o, j, n)
      PROVE  held'[i] <= onHand'[i]
  <2>1. n \in Nat /\ onHand[j] - held[j] >= n /\ held[j] \in Nat /\ onHand[j] \in Nat
    BY <1>3, RetailAssumption DEF ReserveInventory
  <2>2. onHand' = onHand /\ held'[i] = IF i = j THEN held[j] + n ELSE held[i]
    BY <1>3 DEF ReserveInventory
  <2> QED
    BY <1>0, <2>1, <2>2
<1>4. ASSUME NEW S \in SUBSET Order, ProcessTimers(S)
      PROVE  held'[i] <= onHand'[i]
  <2>1. Quantity(At(i, Expiring(S))) \in Nat
    <3>1. \A T : Quantity(T) = Cardinality(UnitsOf(MaxQuantity, T, quantity))
      BY DEF Quantity, UnitsOf, Order
    <3>2. \A T : Cardinality(UnitsOf(MaxQuantity, T, quantity)) \in Nat
      BY RetailAssumption, UnitsFinite, FS_CardinalityType
    <3> QED
      BY <3>1, <3>2
  <2>2. held'[i] = held[i] - Quantity(At(i, Expiring(S))) /\ onHand'[i] = onHand[i]
    BY <1>4 DEF ProcessTimers
  <2> QED
    BY <1>0, <2>1, <2>2
<1>5. ASSUME NEW o \in Order, item[o] \in Item, Release(o) \/ Commit(o)
      PROVE  held'[i] <= onHand'[i]
  <2>1. quantity[o] \in Nat
    BY <1>5, RetailAssumption
  <2>2. /\ held'[i] = IF i = item[o] THEN held[i] - quantity[o] ELSE held[i]
        /\ \/ onHand'[i] = onHand[i]
           \/ onHand'[i] = IF i = item[o] THEN onHand[i] - quantity[o] ELSE onHand[i]
    BY <1>5 DEF Release, Commit
  <2> QED
    BY <1>0, <2>1, <2>2
<1>6. ASSUME NEW w \in Worker, FinalizePayment(w)
      PROVE  held'[i] <= onHand'[i]
  <2>1. job[w] \in Order
    BY <1>6, FinalizeStatus DEF FinalizePayment, Inv, Order
  <2>2. CASE FinishRetailOrder(job[w], result[w])
    <3>1. item[job[w]] \in Item
      BY <2>1, <2>2 DEF FinishRetailOrder, ItemInv
    <3> QED
      BY <1>5, <2>1, <2>2, <3>1 DEF FinishRetailOrder
  <2> QED
    BY <1>1, <1>6, <2>2 DEF FinalizePayment, orderVars
<1>7. ASSUME NEW w \in Worker, NEW o \in Order, CancelPayment(w, o)
      PROVE  held'[i] <= onHand'[i]
  <2>1. CASE machine[o] = "payment_pending"
    <3>1. item[o] \in Item
      BY <2>1 DEF ItemInv
    <3> QED
      BY <1>5, <1>7, <2>1, <3>1 DEF CancelPayment
  <2> QED
    BY <1>1, <1>7, <2>1 DEF CancelPayment, orderVars
<1>8. ASSUME \/ \E o \in Order, k \in Key, a \in 0..MaxAmount : RequestPayment(o, k, a)
             \/ \E o \in Order : Lapse(o)
             \/ UNCHANGED orderVars
      PROVE  held'[i] <= onHand'[i]
  <2>1. UNCHANGED <<held, onHand>>
    BY <1>8 DEF RequestPayment, Lapse, orderVars
  <2> QED
    BY <1>1, <2>1
<1> QED
  BY <1>2, <1>3, <1>4, <1>6, <1>7, <1>8 DEF RetailNext, OrderStep, retailVars

-----------------------------------------------------------------------------
(* The theorems *)

RetailInv ==
    /\ IInv
    /\ ControlInv
    /\ InventoryConserved
    /\ NotOversold

\* The inductive invariant holds in every reachable state.
THEOREM RetailInvariance == RetailSpec => []RetailInv
<1>1. RetailInit => ControlInv /\ InventoryConserved /\ NotOversold
  <2> SUFFICES ASSUME RetailInit PROVE ControlInv /\ InventoryConserved /\ NotOversold
    OBVIOUS
  <2>1. ControlInv
    <3>1. TypeOK
      BY ConstantsAssumption DEF RetailInit, Init, TypeOK, Statuses
    <3>2. RetailTypeOK
      BY <3>1, RetailAssumption DEF RetailInit, RetailTypeOK, MachineStates
    <3> QED
      BY <3>2 DEF RetailInit, Init, ControlInv, ItemInv, PendingInv, OrderMatchesPayment,
                  Outstanding, Order
  <2>2. \A i \in Item : StockCounted(i)
    <3>1. Cardinality(UnitsOf(MaxQuantity, {}, quantity)) = 0
      BY RetailAssumption, UnitsEmpty
    <3>2. \A i \in Item : At(i, Holding) = {}
      BY DEF RetailInit, At, Holding
    <3> QED
      BY <3>1, <3>2 DEF RetailInit, StockCounted
  <2>3. NotOversold
    BY DEF RetailInit, NotOversold
  <2> QED
    BY <2>1, <2>2, <2>3, StockIsCounted
<1>2. IInv /\ IInv' /\ ControlInv /\ InventoryConserved /\ NotOversold /\ [RetailNext]_retailVars
        => (ControlInv /\ InventoryConserved /\ NotOversold)'
  <2> SUFFICES ASSUME IInv, IInv', ControlInv, InventoryConserved, NotOversold,
                      [RetailNext]_retailVars
               PROVE  ControlInv' /\ InventoryConserved' /\ NotOversold'
    OBVIOUS
  <2>1. Inv /\ TypeOK'
    BY DEF IInv, Inv
  <2>2. \A i \in Item : StockCounted(i)
    BY StockIsCounted
  <2>3. ControlInv'
    BY <2>1, StepControl
  <2>4. \A i \in Item : StockCounted(i)'
    BY <2>1, <2>2, StepStock
  <2>5. NotOversold'
    BY <2>1, <2>2, StepNotOversold
  <2>6. InventoryConserved'
    <3>1. (\A S : Quantity(S) = Cardinality(UnitsOf(MaxQuantity, S, quantity)))'
      BY DEF Quantity, UnitsOf, Order
    <3> QED
      BY <2>4, <3>1 DEF InventoryConserved, StockCounted
  <2> QED
    BY <2>3, <2>5, <2>6
<1>3. RetailSpec => []IInv
  BY EffectsUnderOrders, Invariance, PTL
<1> QED
  BY <1>1, <1>2, <1>3, PTL DEF RetailSpec, RetailInv

\* Type correctness.
THEOREM RetailTypeCorrect == RetailSpec => []RetailTypeOK
<1>1. RetailInv => RetailTypeOK
  BY DEF RetailInv, ControlInv
<1> QED
  BY <1>1, RetailInvariance, PTL

\* Stock is neither leaked, nor released twice, nor promised twice.
THEOREM StockSafety == RetailSpec => [](InventoryConserved /\ NotOversold)
<1>1. RetailInv => InventoryConserved /\ NotOversold
  BY DEF RetailInv
<1> QED
  BY <1>1, RetailInvariance, PTL

\* A payment that settles finds its order waiting and the stock held.
THEOREM SettlementSafety == RetailSpec => []OutstandingIsPending
<1>1. RetailInv => OutstandingIsPending
  <2> SUFFICES ASSUME RetailInv PROVE OutstandingIsPending
    OBVIOUS
  <2>1. \A i \in Item : StockCounted(i)
    BY StockIsCounted DEF RetailInv
  <2>2. \A o \in Order : machine[o] = "payment_pending" =>
          held[item[o]] >= quantity[o] /\ onHand[item[o]] >= quantity[o]
    BY <2>1, StockSuffices DEF RetailInv
  <2> QED
    BY <2>2 DEF RetailInv, ControlInv, PendingInv, OutstandingIsPending
<1> QED
  BY <1>1, RetailInvariance, PTL

\* An order ends as its payment did, and only a reserved order's timer can fire.
THEOREM PaymentSafety == RetailSpec => []OrderMatchesPayment
<1>1. RetailInv => OrderMatchesPayment
  BY DEF RetailInv, ControlInv
<1> QED
  BY <1>1, RetailInvariance, PTL

-----------------------------------------------------------------------------
(* The contract of both kernels *)


PhaseOf == [o \in Order |-> Phase(o)]
FreeOf  == [i \in Item |-> onHand[i] - held[i]]

\* What the contract counts of a set of orders.
LEMMA ContractUnits ==
    ASSUME NEW S, NEW i
    PROVE  Contract!Units(S, i) = Quantity(At(i, S))
<1>1. Contract!Units(S, i) = Cardinality({u \in Order \X (1..MaxQuantity) :
                                u[1] \in S /\ item[u[1]] = i /\ u[2] <= quantity[u[1]]})
  BY DEF Contract!Units, Contract!Cardinality, Cardinality
<1>2. {u \in Order \X (1..MaxQuantity) : u[1] \in S /\ item[u[1]] = i /\ u[2] <= quantity[u[1]]}
        = {u \in Order \X (1..MaxQuantity) : u[1] \in At(i, S) /\ u[2] <= quantity[u[1]]}
  BY DEF At
<1> QED
  BY <1>1, <1>2 DEF Quantity

\* And of one order.
LEMMA ContractUnitsOfOne ==
    ASSUME RetailTypeOK, NEW o \in Order, NEW i \in Item
    PROVE  Contract!Units({o}, i) = IF item[o] = i THEN quantity[o] ELSE 0
<1>1. MaxQuantity \in Nat /\ quantity \in [Effect -> 0..MaxQuantity] /\ o \in Effect
  BY RetailAssumption DEF RetailTypeOK, Order
<1>2. \A S : Quantity(S) = Cardinality(UnitsOf(MaxQuantity, S, quantity))
  BY DEF Quantity, UnitsOf, Order
<1>3. Cardinality(UnitsOf(MaxQuantity, {}, quantity)) = 0
  BY <1>1, UnitsEmpty
<1>4. CASE item[o] = i
  <2>1. At(i, {o}) = {} \cup {o}
    BY <1>4 DEF At
  <2>2. Cardinality(UnitsOf(MaxQuantity, {} \cup {o}, quantity))
          = Cardinality(UnitsOf(MaxQuantity, {}, quantity)) + quantity[o]
    BY <1>1, UnitsAdd
  <2>3. Cardinality(UnitsOf(MaxQuantity, {} \cup {o}, quantity)) = quantity[o]
    BY <1>1, <1>3, <2>2
  <2> QED
    BY <1>2, <1>4, <2>1, <2>3, ContractUnits
<1>5. CASE item[o] # i
  <2>1. At(i, {o}) = {}
    BY <1>5 DEF At
  <2> QED
    BY <1>2, <1>3, <1>5, <2>1, ContractUnits
<1> QED
  BY <1>4, <1>5

\* What the contract says of a release of one order.
LEMMA ReleaseOne ==
    ASSUME RetailTypeOK, ItemInv,
           NEW o \in Order, machine[o] = "payment_pending",
           machine' = [machine EXCEPT ![o] = "failed"],
           held' = [held EXCEPT ![item[o]] = @ - quantity[o]],
           UNCHANGED <<onHand, item, quantity, seeded>>
    PROVE  Contract!Release({o})
<1> USE DEF RetailTypeOK
<1>1. item[o] \in Item /\ quantity[o] \in Nat
  BY RetailAssumption DEF ItemInv
<1>2. PhaseOf[o] = "paying"
  BY DEF PhaseOf, Phase
<1>3. PhaseOf' = [p \in Order |-> IF p \in {o} THEN "released" ELSE PhaseOf[p]]
  <2>1. \A p \in Order : machine'[p] = IF p = o THEN "failed" ELSE machine[p]
    OBVIOUS
  <2> QED
    BY <2>1 DEF PhaseOf, Phase
<1>4. FreeOf' = [i \in Item |-> FreeOf[i] + Contract!Units({o}, i)]
  <2>1. \A i \in Item : onHand'[i] - held'[i] = (onHand[i] - held[i]) + Contract!Units({o}, i)
    <3> SUFFICES ASSUME NEW i \in Item
                 PROVE  onHand'[i] - held'[i] = (onHand[i] - held[i]) + Contract!Units({o}, i)
      OBVIOUS
    <3>1. Contract!Units({o}, i) = IF item[o] = i THEN quantity[o] ELSE 0
      BY ContractUnitsOfOne
    <3>2. /\ held'[i] = IF i = item[o] THEN held[i] - quantity[o] ELSE held[i]
          /\ onHand'[i] = onHand[i] /\ onHand[i] \in Nat /\ held[i] \in Nat
      OBVIOUS
    <3> HIDE DEF RetailTypeOK
    <3> QED
      BY <1>1, <3>1, <3>2
  <2> HIDE DEF RetailTypeOK
  <2> QED
    BY <2>1 DEF FreeOf
<1>5. UNCHANGED {i \in Item : seeded[i] # None}
  OBVIOUS
<1> HIDE DEF RetailTypeOK
<1> QED
  BY <1>2, <1>3, <1>4, <1>5 DEF Contract!Release, PhaseOf, FreeOf

\* Every step is one of the contract, or none.
LEMMA OrderStepRefines ==
    ASSUME RetailInv, [RetailNext]_retailVars
    PROVE  [Contract!Next]_(Contract!contractVars)
<1>0. IInv /\ Inv /\ ControlInv /\ RetailTypeOK /\ ItemInv /\ PendingInv
  BY DEF RetailInv, ControlInv, IInv, Inv
<1> USE <1>0
<1> DEFINE Stutter == UNCHANGED <<PhaseOf, item, quantity, {i \in Item : seeded[i] # None},
                                  onHand, FreeOf>>
<1>00. Stutter => UNCHANGED Contract!contractVars
  BY DEF Contract!contractVars, PhaseOf, FreeOf
<1>1. ASSUME NEW i \in Item, NEW n \in 0..MaxStock, SeedInventory(i, n)
      PROVE  Contract!Seed(i, n)
  <2>1. At(i, Holding) = {}
    BY <1>1 DEF At, Holding, ItemInv, SeedInventory
  <2>2. Cardinality(UnitsOf(MaxQuantity, {}, quantity)) = 0
    BY RetailAssumption, UnitsEmpty
  <2>3. StockCounted(i)
    BY StockIsCounted DEF RetailInv
  <2>4. held[i] = 0
    BY <2>1, <2>2, <2>3 DEF StockCounted
  <2>5. n \in Nat /\ n # None
    BY RetailAssumption, <1>1 DEF SeedInventory
  <2>6. FreeOf' = [FreeOf EXCEPT ![i] = n]
    <3>1. held' = held /\ onHand' = [onHand EXCEPT ![i] = n]
      BY <1>1 DEF SeedInventory
    <3>2. \A j \in Item : onHand'[j] - held'[j] = IF j = i THEN n ELSE onHand[j] - held[j]
      BY <2>4, <2>5, <3>1 DEF RetailTypeOK
    <3> QED
      BY <3>2 DEF FreeOf
  <2>7. {j \in Item : seeded'[j] # None} = {j \in Item : seeded[j] # None} \cup {i}
    BY <1>1, <2>5 DEF SeedInventory, RetailTypeOK
  <2>8. UNCHANGED PhaseOf
    BY <1>1 DEF SeedInventory, PhaseOf, Phase
  <2> QED
    BY <1>1, <2>6, <2>7, <2>8 DEF SeedInventory, Contract!Seed, PhaseOf, FreeOf
<1>2. ASSUME NEW o \in Order, NEW i \in Item, NEW n \in 1..MaxQuantity, ReserveInventory(o, i, n)
      PROVE  Contract!Hold(o, i, n)
  <2>1. PhaseOf[o] = "new" /\ i \in {j \in Item : seeded[j] # None}
    BY <1>2 DEF ReserveInventory, PhaseOf, Phase
  <2>2. n <= FreeOf[i]
    BY <1>2, RetailAssumption DEF ReserveInventory, FreeOf, RetailTypeOK
  <2>3. PhaseOf' = [PhaseOf EXCEPT ![o] = "held"]
    <3>1. \A p \in Order : machine'[p] = IF p = o THEN "reserved" ELSE machine[p]
      BY <1>2 DEF ReserveInventory, Enter, RetailTypeOK
    <3> QED
      BY <3>1 DEF PhaseOf, Phase
  <2>4. FreeOf' = [FreeOf EXCEPT ![i] = @ - n]
    <3>1. onHand' = onHand /\ held' = [held EXCEPT ![i] = @ + n] /\ n \in Nat
      BY <1>2, RetailAssumption DEF ReserveInventory
    <3>2. \A j \in Item : onHand'[j] - held'[j] = IF j = i THEN (onHand[j] - held[j]) - n
                                                        ELSE onHand[j] - held[j]
      BY <3>1 DEF RetailTypeOK
    <3> QED
      BY <3>2 DEF FreeOf
  <2> QED
    BY <1>2, <2>1, <2>2, <2>3, <2>4 DEF ReserveInventory, Contract!Hold, PhaseOf, FreeOf
<1>3. ASSUME NEW o \in Order, NEW k \in Key, NEW a \in 0..MaxAmount, RequestPayment(o, k, a)
      PROVE  Contract!Pay(o)
  <2>1. PhaseOf[o] = "held"
    BY <1>3 DEF RequestPayment, PhaseOf, Phase
  <2>2. PhaseOf' = [PhaseOf EXCEPT ![o] = "paying"]
    <3>1. \A p \in Order : machine'[p] = IF p = o THEN "payment_pending" ELSE machine[p]
      BY <1>3 DEF RequestPayment, Enter, RetailTypeOK
    <3> QED
      BY <3>1 DEF PhaseOf, Phase
  <2>3. UNCHANGED FreeOf
    BY <1>3 DEF RequestPayment, FreeOf
  <2> QED
    BY <1>3, <2>1, <2>2, <2>3 DEF RequestPayment, Contract!Pay, PhaseOf, FreeOf
<1>4. ASSUME NEW S \in SUBSET Order, ProcessTimers(S)
      PROVE  Stutter \/ \E E \in SUBSET Order : Contract!Release(E)
  <2>0. PICK E \in SUBSET Order : E = Expiring(S)
    BY DEF Expiring
  <2>1. \A o \in E : PhaseOf[o] = "held"
    BY <2>0 DEF Expiring, PhaseOf, Phase
  <2>2. PhaseOf' = [o \in Order |-> IF o \in E THEN "released" ELSE PhaseOf[o]]
    <3>1. \A o \in Order : machine'[o] = IF o \in E THEN "cancelled" ELSE machine[o]
      BY <1>4, <2>0 DEF ProcessTimers
    <3> QED
      BY <3>1 DEF PhaseOf, Phase
  <2>3. /\ held' = [i \in Item |-> held[i] - Quantity(At(i, E))]
        /\ UNCHANGED <<item, quantity, seeded, onHand>>
    BY <1>4, <2>0 DEF ProcessTimers
  <2>4. \A i \in Item : Quantity(At(i, E)) \in Nat
    <3>1. \A T : Quantity(T) = Cardinality(UnitsOf(MaxQuantity, T, quantity))
      BY DEF Quantity, UnitsOf, Order
    <3>2. \A T : Cardinality(UnitsOf(MaxQuantity, T, quantity)) \in Nat
      BY RetailAssumption, UnitsFinite, FS_CardinalityType
    <3> QED
      BY <3>1, <3>2
  <2>5. FreeOf' = [i \in Item |-> FreeOf[i] + Contract!Units(E, i)]
    <3>1. \A i \in Item : onHand'[i] - held'[i] = (onHand[i] - held[i]) + Quantity(At(i, E))
      BY <2>3, <2>4 DEF RetailTypeOK
    <3>2. \A i \in Item : Contract!Units(E, i) = Quantity(At(i, E))
      BY ContractUnits
    <3> QED
      BY <3>1, <3>2 DEF FreeOf
  <2>6. CASE E # {}
    <3>1. Contract!Release(E)
      BY <2>1, <2>2, <2>3, <2>5, <2>6 DEF Contract!Release, PhaseOf, FreeOf
    <3> HIDE DEF Stutter
    <3> QED
      BY <3>1
  <2>7. CASE E = {}
    <3>1. \A i \in Item : Quantity(At(i, E)) = 0
      <4>1. \A i \in Item : At(i, E) = {}
        BY <2>7 DEF At
      <4>2. Cardinality(UnitsOf(MaxQuantity, {}, quantity)) = 0
        BY RetailAssumption, UnitsEmpty
      <4>3. Quantity({}) = Cardinality(UnitsOf(MaxQuantity, {}, quantity))
        BY DEF Quantity, UnitsOf, Order
      <4> QED
        BY <4>1, <4>2, <4>3
    <3>2. held' = held
      BY <2>3, <3>1 DEF RetailTypeOK
    <3>3. PhaseOf' = PhaseOf
      BY <2>2, <2>7 DEF PhaseOf
    <3> QED
      BY <2>3, <3>2, <3>3 DEF FreeOf
  <2> QED
    BY <2>6, <2>7
<1>5. ASSUME NEW o \in Order, Lapse(o)
      PROVE  Stutter
  BY <1>5 DEF Lapse, PhaseOf, Phase, FreeOf
<1>6. ASSUME UNCHANGED orderVars
      PROVE  Stutter
  BY <1>6 DEF orderVars, PhaseOf, Phase, FreeOf
<1>7. ASSUME NEW w \in Worker, FinalizePayment(w)
      PROVE  Stutter \/ \E o \in Order : Contract!Sell(o) \/ Contract!Release({o})
  <2>1. job[w] \in Order
    BY <1>7, FinalizeStatus DEF FinalizePayment, Inv, Order
  <2>2. CASE FinishRetailOrder(job[w], "succeeded")
    <3> DEFINE o == job[w]
    <3>1. /\ machine[o] = "payment_pending"
          /\ machine' = [machine EXCEPT ![o] = "confirmed"]
          /\ onHand' = [onHand EXCEPT ![item[o]] = @ - quantity[o]]
          /\ held' = [held EXCEPT ![item[o]] = @ - quantity[o]]
          /\ UNCHANGED <<item, quantity, seeded>>
      BY <2>2 DEF FinishRetailOrder, Commit, Enter
    <3>2. item[o] \in Item /\ quantity[o] \in Nat
      BY <2>1, <3>1, RetailAssumption DEF ItemInv, RetailTypeOK
    <3>3. PhaseOf[o] = "paying" /\ PhaseOf' = [PhaseOf EXCEPT ![o] = "sold"]
      <4>1. \A p \in Order : machine'[p] = IF p = o THEN "confirmed" ELSE machine[p]
        BY <3>1 DEF RetailTypeOK
      <4> HIDE DEF o
      <4> QED
        BY <2>1, <3>1, <4>1 DEF PhaseOf, Phase, o
    <3>4. FreeOf' = FreeOf
      <4>1. \A i \in Item : onHand'[i] - held'[i] = onHand[i] - held[i]
        <5> SUFFICES ASSUME NEW i \in Item PROVE onHand'[i] - held'[i] = onHand[i] - held[i]
          OBVIOUS
        <5>1. /\ held'[i] = IF i = item[o] THEN held[i] - quantity[o] ELSE held[i]
              /\ onHand'[i] = IF i = item[o] THEN onHand[i] - quantity[o] ELSE onHand[i]
              /\ held[i] \in Nat /\ onHand[i] \in Nat
          BY <3>1 DEF RetailTypeOK
        <5> QED
          BY <3>2, <5>1
      <4> QED
        BY <4>1 DEF FreeOf
    <3>5. Contract!Sell(o)
      BY <3>1, <3>3, <3>4 DEF Contract!Sell, PhaseOf, FreeOf
    <3> QED
      BY <2>1, <3>5
  <2>3. CASE FinishRetailOrder(job[w], "failed")
    <3>1. PICK o \in Order : o = job[w]
      BY <2>1
    <3>2. /\ machine[o] = "payment_pending"
          /\ machine' = [machine EXCEPT ![o] = "failed"]
          /\ held' = [held EXCEPT ![item[o]] = @ - quantity[o]]
          /\ UNCHANGED <<onHand, item, quantity, seeded>>
      BY <2>3, <3>1 DEF FinishRetailOrder, Release, Enter
    <3>3. Contract!Release({o})
      BY <3>2, ReleaseOne
    <3> HIDE DEF Stutter
    <3> QED
      BY <3>3
  <2>4. \/ UNCHANGED orderVars
        \/ FinishRetailOrder(job[w], "succeeded")
        \/ FinishRetailOrder(job[w], "failed")
    BY <1>7, FinalizeStatus DEF FinalizePayment, Inv
  <2>5. CASE UNCHANGED orderVars
    BY <1>6, <2>5
  <2> HIDE DEF Stutter
  <2> QED
    BY <2>2, <2>3, <2>4, <2>5
<1>8. ASSUME NEW w \in Worker, NEW o \in Order, CancelPayment(w, o)
      PROVE  Stutter \/ Contract!Release({o})
  <2>1. CASE machine[o] = "payment_pending"
    <3>1. Contract!Release({o})
      BY <1>8, <2>1, ReleaseOne DEF CancelPayment, Release, Enter
    <3> QED
      BY <3>1
  <2>2. CASE UNCHANGED orderVars
    BY <1>6, <2>2
  <2> QED
    BY <1>8, <2>1, <2>2 DEF CancelPayment
<1>9. CASE UNCHANGED orderVars
  <2> HIDE DEF Stutter
  <2> QED
    BY <1>00, <1>6, <1>9
<1>10. CASE OrderStep
  <2> SUFFICES Stutter \/ Contract!Next
    BY <1>00
  <2> USE DEF Contract!Next
  <2>1. CASE \E i \in Item, n \in 0..MaxStock : SeedInventory(i, n)
    BY <1>1, <2>1
  <2>2. CASE \E o \in Order, i \in Item, n \in 1..MaxQuantity : ReserveInventory(o, i, n)
    BY <1>2, <2>2
  <2>3. CASE \E o \in Order, k \in Key, a \in 0..MaxAmount : RequestPayment(o, k, a)
    BY <1>3, <2>3
  <2>4. CASE \E S \in SUBSET Order : ProcessTimers(S)
    <3>1. PICK S \in SUBSET Order : ProcessTimers(S)
      BY <2>4
    <3>2. Stutter \/ \E E \in SUBSET Order : Contract!Release(E)
      BY <1>4, <3>1
    <3> HIDE DEF Stutter
    <3> QED
      BY <3>2
  <2>5. CASE \E o \in Order : Lapse(o)
    BY <1>5, <2>5
  <2>6. CASE \E w \in Worker : FinalizePayment(w)
    <3>1. \A o \in Order : {o} \in SUBSET Order
      OBVIOUS
    <3> HIDE DEF Stutter
    <3> QED
      BY <1>7, <2>6, <3>1
  <2>7. CASE \E w \in Worker, o \in Order : CancelPayment(w, o)
    <3>1. \A o \in Order : {o} \in SUBSET Order
      OBVIOUS
    <3> HIDE DEF Stutter
    <3> QED
      BY <1>8, <2>7, <3>1
  <2> HIDE DEF Stutter, Contract!Next
  <2> QED
    BY <1>10, <2>1, <2>2, <2>3, <2>4, <2>5, <2>6, <2>7 DEF OrderStep
<1> QED
  BY <1>9, <1>10 DEF RetailNext, retailVars

\* The orders of the PostgreSQL profile keep the contract that both kernels share.
THEOREM RetailImplementsOrders == RetailSpec => ImplementsOrders
<1>1. RetailInit => Contract!Init
  <2> SUFFICES ASSUME RetailInit PROVE Contract!Init
    OBVIOUS
  <2>1. [o \in Order |-> Phase(o)] = [o \in Order |-> "new"]
    BY DEF RetailInit, Phase
  <2>2. {i \in Item : seeded[i] # None} = {}
    BY DEF RetailInit
  <2>3. [i \in Item |-> onHand[i] - held[i]] = [i \in Item |-> 0]
    BY DEF RetailInit
  <2> QED
    BY <2>1, <2>2, <2>3 DEF RetailInit, Contract!Init
<1>2. RetailInv /\ [RetailNext]_retailVars => [Contract!Next]_(Contract!contractVars)
  BY OrderStepRefines
<1> QED
  BY <1>1, <1>2, RetailInvariance, PTL DEF RetailSpec, ImplementsOrders, Contract!Spec

=============================================================================
