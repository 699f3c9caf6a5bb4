--------------------------- MODULE EffectLifecycle ---------------------------
(***************************************************************************)
(* External effects of the PostgreSQL profile: an intent is written by     *)
(* request_effect with its budget reserved on the authorizing API key,     *)
(* leased and fenced by an effect worker, delivered to (or reconciled      *)
(* with) an external receiver, and finalized, which settles the budget.    *)
(*                                                                         *)
(* Every database transaction is one action; everything the worker does    *)
(* outside a transaction (the HTTP exchange) is a step of its own, so      *)
(* that other workers, revocations, lease expiry, crashes and delayed      *)
(* requests interleave with it.                                            *)
(*                                                                         *)
(* Time is abstracted to two flags: whether a lease has run out            *)
(* (lease_expires_at < now) and whether a retry is still in the future     *)
(* (next_attempt_at > now).  A lease token is the worker that holds the    *)
(* lease: a worker remembers at most one lease and forgets it when it      *)
(* crashes, so the token in the row equals the one in memory exactly when  *)
(* the row names the worker and the worker remembers the effect.           *)
(***************************************************************************)
EXTENDS Naturals, FiniteSets

CONSTANTS
    Effect,              \* the effect intents that may be requested
    Key,                 \* API keys
    Worker,              \* worker processes
    None,                \* no key, no worker, no effect
    EffectMaxAttempts,   \* EFFECT_MAX_ATTEMPTS
    MaxAmount,           \* budget amounts are 0..MaxAmount
    Limit,               \* effect_budget_limit of every key
    UninformedFailures   \* the effects that may fail without the receiver's word

ASSUME ConstantsAssumption ==
    /\ IsFiniteSet(Effect)
    /\ None \notin Effect \cup Key \cup Worker
    /\ EffectMaxAttempts \in Nat \ {0}
    /\ MaxAmount \in Nat
    /\ Limit \in [Key -> Nat]
    /\ UninformedFailures \subseteq Effect

VARIABLES
    status,      \* effect_intents.status, "absent" before the row exists
    owner,       \* effect_intents.authorizing_key_id
    amount,      \* effect_intents.budget_amount
    fenced,      \* authorized_at and authorization_fence are set
    lease,       \* lease_token
    expired,     \* lease_expires_at has passed
    waiting,     \* next_attempt_at lies in the future
    attempts,    \* attempt_count
    active,      \* the key is unrevoked, unexpired and scoped
    reserved,    \* effect_budget_reserved
    spent,       \* effect_budget_spent
    pc,          \* where each worker is in runOnce
    job,         \* the effect it leased
    mode,        \* reconciliation_mode of that lease
    result,      \* the DeliveryResult it holds
    provider,    \* the receiver's record under the effect's idempotency key
    wire,        \* effects with a delivery request on its way to the receiver
    posts        \* history: delivery requests sent so far

intentVars   == <<status, owner, amount, fenced, lease, expired, waiting, attempts>>
keyVars      == <<active, reserved, spent>>
workerVars   == <<pc, job, mode, result>>
providerVars == <<provider, wire, posts>>
vars         == <<intentVars, keyVars, workerVars, providerVars>>

Statuses == {"absent", "planned", "dispatching", "unknown", "reconciling",
             "succeeded", "failed", "cancelled"}

\* The statuses leaseNext selects; budget is held for exactly these.
Outstanding == {"planned", "dispatching", "unknown", "reconciling"}
Terminal    == {"succeeded", "failed", "cancelled"}

Init ==
    /\ status   = [e \in Effect |-> "absent"]
    /\ owner    = [e \in Effect |-> None]
    /\ amount   = [e \in Effect |-> 0]
    /\ fenced   = [e \in Effect |-> FALSE]
    /\ lease    = [e \in Effect |-> None]
    /\ expired  = [e \in Effect |-> FALSE]
    /\ waiting  = [e \in Effect |-> FALSE]
    /\ attempts = [e \in Effect |-> 0]
    /\ active   = [k \in Key |-> TRUE]
    /\ reserved = [k \in Key |-> 0]
    /\ spent    = [k \in Key |-> 0]
    /\ pc       = [w \in Worker |-> "idle"]
    /\ job      = [w \in Worker |-> None]
    /\ mode     = [w \in Worker |-> "deliver"]
    /\ result   = [w \in Worker |-> "unknown"]
    /\ provider = [e \in Effect |-> "none"]
    /\ wire     = {}
    /\ posts    = [e \in Effect |-> 0]

-----------------------------------------------------------------------------
(* The API process *)

\* request_effect: the guarded budget UPDATE and the INSERT of the intent, in
\* one transaction.  A request whose intent exists already replays it and
\* changes nothing.
RequestEffect(e, k, a) ==
    /\ status[e] = "absent"
    /\ active[k]
    /\ spent[k] + reserved[k] + a <= Limit[k]
    /\ reserved' = [reserved EXCEPT ![k] = @ + a]
    /\ status'   = [status EXCEPT ![e] = "planned"]
    /\ owner'    = [owner EXCEPT ![e] = k]
    /\ amount'   = [amount EXCEPT ![e] = a]
    /\ UNCHANGED <<fenced, lease, expired, waiting, attempts, active, spent,
                   workerVars, providerVars>>

\* revokeApiKey, and the passing of expires_at: no key becomes active again.
RevokeApiKey(k) ==
    /\ active[k]
    /\ active' = [active EXCEPT ![k] = FALSE]
    /\ UNCHANGED <<intentVars, reserved, spent, workerVars, providerVars>>

-----------------------------------------------------------------------------
(* The worker's transactions *)

\* Mutants: an expired lease is never taken over; the join drops revoked keys.
CandidateWithoutTakeover(e) ==
    status[e] \in Outstanding \ {"dispatching"} /\ ~waiting[e]
CandidateOfActiveKey(e) ==
    /\ status[e] \in Outstanding
    /\ ~waiting[e]
    /\ status[e] = "dispatching" => expired[e]
    /\ \E k \in Key : owner[e] = k /\ active[k]

\* The WHERE clause of leaseNext.  ORDER BY created_at is a preference only:
\* SKIP LOCKED passes over an older row that another transaction holds.
Candidate(e) ==
    /\ status[e] \in Outstanding
    /\ ~waiting[e]
    /\ status[e] = "dispatching" => expired[e]

\* Mutant: an effect whose lease ran out is delivered again.
ReconciliationModeOnExhaustion(e) ==
    \/ status[e] = "reconciling"
    \/ attempts[e] >= EffectMaxAttempts

ReconciliationMode(e) ==
    \/ status[e] \in {"reconciling", "dispatching"}
    \/ attempts[e] >= EffectMaxAttempts

\* GREATEST(0, effect_budget_reserved - amount)
Released(e) == IF reserved[owner[e]] >= amount[e]
               THEN reserved[owner[e]] - amount[e] ELSE 0

\* Mutant: the key is not looked at when the fence is set.
LeaseNextUnchecked(w, e) ==
    /\ pc[w] = "idle"
    /\ Candidate(e)
    /\ status'  = [status EXCEPT ![e] = "dispatching"]
    /\ fenced'  = [fenced EXCEPT ![e] = TRUE]
    /\ lease'   = [lease EXCEPT ![e] = w]
    /\ expired' = [expired EXCEPT ![e] = FALSE]
    /\ pc'      = [pc EXCEPT ![w] = "leased"]
    /\ job'     = [job EXCEPT ![w] = e]
    /\ mode'    = [mode EXCEPT ![w] = IF ReconciliationMode(e)
                                      THEN "reconcile" ELSE "deliver"]
    /\ UNCHANGED <<owner, amount, waiting, attempts, keyVars, result, providerVars>>

\* leaseNext, authorized: the row and the key are locked together, so the
\* key cannot be revoked between the check and the fence.
LeaseNext(w, e) ==
    /\ pc[w] = "idle"
    /\ Candidate(e)
    /\ fenced[e] \/ active[owner[e]]
    /\ status'  = [status EXCEPT ![e] = "dispatching"]
    /\ fenced'  = [fenced EXCEPT ![e] = TRUE]
    /\ lease'   = [lease EXCEPT ![e] = w]
    /\ expired' = [expired EXCEPT ![e] = FALSE]
    /\ pc'      = [pc EXCEPT ![w] = "leased"]
    /\ job'     = [job EXCEPT ![w] = e]
    /\ mode'    = [mode EXCEPT ![w] = IF ReconciliationMode(e)
                                      THEN "reconcile" ELSE "deliver"]
    /\ UNCHANGED <<owner, amount, waiting, attempts, keyVars, result, providerVars>>

\* Mutant: the reservation is not given back.
CancelWithoutRelease(w, e) ==
    /\ pc[w] = "idle"
    /\ Candidate(e)
    /\ ~fenced[e]
    /\ ~active[owner[e]]
    /\ status' = [status EXCEPT ![e] = "cancelled"]
    /\ UNCHANGED <<owner, amount, fenced, lease, expired, waiting, attempts,
                   keyVars, workerVars, providerVars>>

\* leaseNext, unauthorized: cancelUnauthorized, and the worker stays idle.
CancelUnauthorized(w, e) ==
    /\ pc[w] = "idle"
    /\ Candidate(e)
    /\ ~fenced[e]
    /\ ~active[owner[e]]
    /\ status'   = [status EXCEPT ![e] = "cancelled"]
    /\ reserved' = [reserved EXCEPT ![owner[e]] = Released(e)]
    /\ UNCHANGED <<owner, amount, fenced, lease, expired, waiting, attempts,
                   active, spent, workerVars, providerVars>>

\* Mutant: finalize updates the row it leased without looking again.
HoldsLeaseUnchecked(w) == TRUE

\* The row finalize looks for: still dispatching under this worker's lease.
HoldsLease(w) ==
    /\ status[job[w]] = "dispatching"
    /\ lease[job[w]] = w

NextAttempts(w) == attempts[job[w]] + (IF mode[w] = "deliver" THEN 1 ELSE 0)

\* Mutant: an effect whose attempts are exhausted is given up as failed.
NextStatusGivingUp(w) ==
    IF result[w] # "unknown" THEN result[w]
    ELSE IF mode[w] = "reconcile" \/ NextAttempts(w) >= EffectMaxAttempts
         THEN "failed" ELSE "unknown"

NextStatus(w) ==
    IF result[w] # "unknown" THEN result[w]
    ELSE IF mode[w] = "reconcile" \/ NextAttempts(w) >= EffectMaxAttempts
         THEN "reconciling" ELSE "unknown"

\* settleEffectBudget
SettleBudget(w) ==
    LET e == job[w] IN
    \/ /\ result[w] = "unknown"
       /\ UNCHANGED <<reserved, spent>>
    \/ /\ result[w] = "succeeded"
       /\ reserved' = [reserved EXCEPT ![owner[e]] = Released(e)]
       /\ spent'    = [spent EXCEPT ![owner[e]] = @ + amount[e]]
    \/ /\ result[w] = "failed"
       /\ reserved' = [reserved EXCEPT ![owner[e]] = Released(e)]
       /\ UNCHANGED spent

Forget(w) ==
    /\ job'    = [job EXCEPT ![w] = None]
    /\ mode'   = [mode EXCEPT ![w] = "deliver"]
    /\ result' = [result EXCEPT ![w] = "unknown"]

Finalize(w) ==
    LET e == job[w] IN
    /\ pc[w] = "answered"
    /\ HoldsLease(w)
    /\ status'   = [status EXCEPT ![e] = NextStatus(w)]
    /\ attempts' = [attempts EXCEPT ![e] = NextAttempts(w)]
    /\ lease'    = [lease EXCEPT ![e] = None]
    /\ expired'  = [expired EXCEPT ![e] = FALSE]
    /\ waiting'  = [waiting EXCEPT ![e] = result[w] = "unknown"]
    /\ SettleBudget(w)
    /\ pc'       = [pc EXCEPT ![w] = "idle"]
    /\ Forget(w)
    /\ UNCHANGED <<owner, amount, fenced, active, providerVars>>

\* "Effect lease was lost before finalization": the outcome is dropped.
LoseLease(w) ==
    /\ pc[w] = "answered"
    /\ ~HoldsLease(w)
    /\ pc' = [pc EXCEPT ![w] = "idle"]
    /\ Forget(w)
    /\ UNCHANGED <<intentVars, keyVars, providerVars>>

-----------------------------------------------------------------------------
(* The worker's HTTP exchange *)

\* SecureHttpEffectTransport.deliver puts the POST on the wire.
Post(w) ==
    /\ pc[w] = "leased"
    /\ mode[w] = "deliver"
    /\ wire'  = wire \cup {job[w]}
    /\ posts' = [posts EXCEPT ![job[w]] = @ + 1]
    /\ pc'    = [pc EXCEPT ![w] = "calling"]
    /\ UNCHANGED <<intentVars, keyVars, job, mode, result, provider>>

\* What the receiver's answer about e may amount to.  A timeout, a broken
\* connection, a 5xx or a missing reference is always possible: "unknown".
Answers(e) ==
    {"unknown"}
        \cup (IF provider[e] = "applied" THEN {"succeeded"} ELSE {})
        \cup (IF provider[e] = "refused" THEN {"failed"} ELSE {})

\* The exchange ends with the DeliveryResult r: the answer to a POST or to a
\* status query, or what is made of a request that never reached the receiver.
\* The uninformed failures are an OutboundSecurityError (the URL or its DNS
\* result is rejected locally) and a 4xx that is not about the effect.
Conclude(w, r) ==
    /\ \/ pc[w] = "calling" /\ r \in Answers(job[w])
       \/ /\ pc[w] = "leased"
          /\ \/ mode[w] = "reconcile" /\ r \in Answers(job[w])
             \/ r = "unknown"
             \/ r = "failed" /\ job[w] \in UninformedFailures
    /\ result' = [result EXCEPT ![w] = r]
    /\ pc'     = [pc EXCEPT ![w] = "answered"]
    /\ UNCHANGED <<intentVars, keyVars, job, mode, providerVars>>

\* The process dies anywhere in runOnce, losing what it remembers.
Crash(w) ==
    /\ pc[w] # "down"
    /\ pc' = [pc EXCEPT ![w] = "down"]
    /\ Forget(w)
    /\ UNCHANGED <<intentVars, keyVars, providerVars>>

Restart(w) ==
    /\ pc[w] = "down"
    /\ pc' = [pc EXCEPT ![w] = "idle"]
    /\ UNCHANGED <<intentVars, keyVars, job, mode, result, providerVars>>

-----------------------------------------------------------------------------
(* Time *)

ExpireLease(e) ==
    /\ status[e] = "dispatching"
    /\ ~expired[e]
    /\ expired' = [expired EXCEPT ![e] = TRUE]
    /\ UNCHANGED <<status, owner, amount, fenced, lease, waiting, attempts,
                   keyVars, workerVars, providerVars>>

RetryDue(e) ==
    /\ waiting[e]
    /\ waiting' = [waiting EXCEPT ![e] = FALSE]
    /\ UNCHANGED <<status, owner, amount, fenced, lease, expired, attempts,
                   keyVars, workerVars, providerVars>>

-----------------------------------------------------------------------------
(* The receiver, which honours idempotency keys: one record per effect, and  *)
(* a later request under the same key changes nothing.                       *)

Receive(e) ==
    /\ e \in wire
    /\ wire' = wire \ {e}
    /\ provider' = [provider EXCEPT ![e] = IF @ = "none" THEN "pending" ELSE @]
    /\ UNCHANGED <<intentVars, keyVars, workerVars, posts>>

LoseRequest(e) ==
    /\ e \in wire
    /\ wire' = wire \ {e}
    /\ UNCHANGED <<intentVars, keyVars, workerVars, provider, posts>>

Resolve(e) ==
    /\ provider[e] = "pending"
    /\ \E p \in {"applied", "refused"} : provider' = [provider EXCEPT ![e] = p]
    /\ UNCHANGED <<intentVars, keyVars, workerVars, wire, posts>>

-----------------------------------------------------------------------------
KernelStep ==
    \/ \E e \in Effect, k \in Key, a \in 0..MaxAmount : RequestEffect(e, k, a)
    \/ \E k \in Key : RevokeApiKey(k)

WorkerStep(w) ==
    \/ \E e \in Effect : LeaseNext(w, e)
    \/ \E e \in Effect : CancelUnauthorized(w, e)
    \/ Post(w)
    \/ \E r \in {"succeeded", "failed", "unknown"} : Conclude(w, r)
    \/ Finalize(w)
    \/ LoseLease(w)
    \/ Crash(w)
    \/ Restart(w)

EnvironmentStep(e) ==
    \/ ExpireLease(e)
    \/ RetryDue(e)
    \/ Receive(e)
    \/ LoseRequest(e)
    \/ Resolve(e)

Next ==
    \/ KernelStep
    \/ \E w \in Worker : WorkerStep(w)
    \/ \E e \in Effect : EnvironmentStep(e)

Spec == Init /\ [][Next]_vars

(***************************************************************************)
(* Fairness.  Workers poll forever and are restarted; leases and retry     *)
(* delays run out; the receiver deals with what reaches it.  Crashes,      *)
(* revocations and requests are never forced.  Strong fairness is needed   *)
(* where rivals keep disabling a step: a due effect is leased in the end   *)
(* (oldest first, and each failed try moves an effect behind a growing     *)
(* delay), a receiver that knows the outcome tells it in the end to a      *)
(* worker whose lease still runs (the configuration forces the lease to    *)
(* outlast the request timeout by 5 s), and in the end such a worker       *)
(* finalizes before another one takes the lease over.                      *)
(***************************************************************************)
LearnOutcome(e) ==
    \E w \in Worker, r \in {"succeeded", "failed"} : job[w] = e /\ HoldsLease(w) /\ Conclude(w, r)

RecordOutcome(e) ==
    \E w \in Worker : job[w] = e /\ result[w] # "unknown" /\ Finalize(w)

Fairness ==
    /\ \A w \in Worker :
        /\ WF_vars(Restart(w))
        /\ WF_vars(Post(w))
        /\ WF_vars(Conclude(w, "unknown"))
        /\ WF_vars(Finalize(w) \/ LoseLease(w))
    /\ \A e \in Effect :
        /\ SF_vars(\E w \in Worker : LeaseNext(w, e))
        /\ SF_vars(\E w \in Worker : CancelUnauthorized(w, e))
        /\ SF_vars(LearnOutcome(e))
        /\ SF_vars(RecordOutcome(e))
        /\ WF_vars(ExpireLease(e))
        /\ WF_vars(RetryDue(e))
        /\ WF_vars(Receive(e) \/ LoseRequest(e))
        /\ WF_vars(Resolve(e))

FairSpec == Spec /\ Fairness

-----------------------------------------------------------------------------
(* Correctness *)

TypeOK ==
    /\ status   \in [Effect -> Statuses]
    /\ owner    \in [Effect -> Key \cup {None}]
    /\ amount   \in [Effect -> 0..MaxAmount]
    /\ fenced   \in [Effect -> BOOLEAN]
    /\ lease    \in [Effect -> Worker \cup {None}]
    /\ expired  \in [Effect -> BOOLEAN]
    /\ waiting  \in [Effect -> BOOLEAN]
    /\ attempts \in [Effect -> Nat]
    /\ active   \in [Key -> BOOLEAN]
    /\ reserved \in [Key -> Nat]
    /\ spent    \in [Key -> Nat]
    /\ pc       \in [Worker -> {"idle", "leased", "calling", "answered", "down"}]
    /\ job      \in [Worker -> Effect \cup {None}]
    /\ mode     \in [Worker -> {"deliver", "reconcile"}]
    /\ result   \in [Worker -> {"unknown", "succeeded", "failed"}]
    /\ provider \in [Effect -> {"none", "pending", "applied", "refused"}]
    /\ wire     \subseteq Effect
    /\ posts    \in [Effect -> Nat]

\* The budget units of a set of effects: as many pairs <<e, i>> as the
\* amounts of the set add up to.
Units(S) == {u \in Effect \X (1..MaxAmount) : u[1] \in S /\ u[2] <= amount[u[1]]}

Held(k)    == {e \in Effect : owner[e] = k /\ status[e] \in Outstanding}
Charged(k) == {e \in Effect : owner[e] = k /\ status[e] = "succeeded"}

\* The counters on the key are exactly the amounts of its outstanding and of
\* its succeeded intents: no crash, lost lease, stale answer or cancellation
\* leaks a reservation, releases one twice or hides behind GREATEST(0, ...).
BudgetConserved ==
    \A k \in Key :
        /\ reserved[k] = Cardinality(Units(Held(k)))
        /\ spent[k] = Cardinality(Units(Charged(k)))

\* What a key has spent and still holds never passes its limit, however many
\* requests, settlements and cancellations interleave (no CHECK constraint of
\* api_keys says so).
BudgetWithinLimit == \A k \in Key : spent[k] + reserved[k] <= Limit[k]

\* Two workers never have the same effect in hand for delivery: a lease that
\* ran out is taken over for reconciliation only, so a paused worker and its
\* successor never POST concurrently.
NoOverlappingDelivery ==
    \A v, w \in Worker :
        /\ job[v] # None /\ job[v] = job[w]
        /\ mode[v] = "deliver" /\ mode[w] = "deliver"
        => v = w

\* An effect is POSTed at most EFFECT_MAX_ATTEMPTS times, counting the posts
\* of crashed and superseded workers that attempt_count never saw.
PostsBounded == \A e \in Effect : posts[e] <= EffectMaxAttempts

\* Nothing was ever sent for a cancelled effect: its budget went back and the
\* receiver has no record of it, now or later.
CancelledNeverSent ==
    \A e \in Effect :
        status[e] = "cancelled" =>
            posts[e] = 0 /\ e \notin wire /\ provider[e] = "none"

\* A settled outcome is the receiver's: success means it applied the effect
\* and, where failures are informed, failure means it refused and will never
\* apply it, whatever delayed or duplicate requests are still on the wire.
OutcomeMatchesReceiver ==
    \A e \in Effect :
        /\ status[e] = "succeeded" => provider[e] = "applied"
        /\ status[e] = "failed" /\ e \notin UninformedFailures => provider[e] = "refused"

\* A terminal intent keeps its status: no stale worker finalizes it again,
\* which would settle its budget twice.
TerminalIsFinal ==
    [][\A e \in Effect : status[e] \in Terminal => status'[e] = status[e]]_vars

\* A requested intent without a fence whose key has become inactive.
Barred(e) ==
    /\ status[e] # "absent"
    /\ ~fenced[e]
    /\ \A k \in Key : owner[e] = k => ~active[k]

\* Revocation that commits before the fence wins for good: the effect is never
\* sent, at that time or later.
RevocationBeforeFence == \A e \in Effect : [](Barred(e) => [](posts[e] = 0))

\* Once the receiver has a record of an effect, the effect is settled in the
\* end, whatever crashes, timeouts and lost leases come between.
AcceptedSettles ==
    \A e \in Effect : provider[e] # "none" ~> status[e] \in {"succeeded", "failed"}

\* An intent whose key is revoked before its fence does not keep its budget: a
\* worker cancels it in the end.
RevokedIsCancelled ==
    \A e \in Effect : (status[e] = "planned" /\ Barred(e)) ~> status[e] = "cancelled"

=============================================================================
