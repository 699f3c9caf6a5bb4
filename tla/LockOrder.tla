------------------------------ MODULE LockOrder ------------------------------
(***************************************************************************)
(* The row locks that the PostgreSQL transactions of effects and orders    *)
(* take, in the order in which they take them.  next_system_time() locks   *)
(* the single row of system_clock and holds it to the end, so that every   *)
(* pair of writers meets there.                                            *)
(*                                                                         *)
(* The other modules treat a transaction as one step.  Here it is one step *)
(* per lock, and what it means to the order is reduced to a phase that     *)
(* decides which transactions can be under way.  Foreign keys count: an    *)
(* INSERT locks the rows it refers to (FOR KEY SHARE), which waits for     *)
(* whoever has them FOR UPDATE.  Whoever refers has the clock by then, so  *)
(* that no two ever share a row and every lock can be an exclusive one.    *)
(* Left out are locks that only a holder of the clock takes (assertions,   *)
(* histories, entities), for which nobody can wait, and the advisory locks *)
(* of idempotency keys and of artifacts: two requests that share one share *)
(* nothing before it.                                                      *)
(***************************************************************************)
EXTENDS Naturals, FiniteSets, Sequences

CONSTANTS
    Txn,        \* database sessions
    Order,      \* orders, and workflows with a generic effect
    Generic,    \* the orders that are really workflows: no stock, no timer
    Key,        \* API keys
    Item,       \* inventory rows
    KeyOf,      \* the key that authorizes an order's effect
    ItemOf,     \* the item of an order
    None,       \* the clock's identity
    Ops,        \* the transactions that are run
    Detector    \* does PostgreSQL break deadlocks?

\* What clients of the API and administrators cause, and what the worker does.
RequestOps == {"reserve", "advance", "pay", "replay", "misdirect", "put", "assert", "link",
               "revoke"}
WorkerOps  == {"lease", "cancel", "retry", "settle"}
AllOps     == RequestOps \cup WorkerOps \cup {"expire"}

ASSUME LockAssumption ==
    /\ Generic \subseteq Order
    /\ KeyOf \in [Order -> Key]
    /\ ItemOf \in [Order -> Item]
    /\ Ops \subseteq AllOps
    /\ Detector \in BOOLEAN

VARIABLES
    op,       \* the transaction a session is in, "none" between transactions
    batch,    \* the orders it is about
    wants,    \* the locks it will still ask for, in order
    holds,    \* the locks it has
    phase     \* how far each order has come, by committed transactions

lockVars == <<op, batch, wants, holds, phase>>

Phases == {"new", "reserved", "requested", "leased", "done"}

clock        == <<"clock", None>>
key(o)       == <<"key", KeyOf[o]>>
machine(o)   == <<"machine", o>>
timer(o)     == <<"timer", o>>
effect(o)    == <<"effect", o>>
provider(o)  == <<"provider", o>>    \* advisory: the provider key of o's effect
artifact(o)  == <<"artifact", o>>    \* the evidence for o's decision
inventory(o) == <<"inventory", ItemOf[o]>>

\* Locks taken with SKIP LOCKED: at once, or the transaction finds no row.
Taken(p, s) ==
    CASE p \in {"lease", "cancel"} -> {effect(s[1]), key(s[1])}
      [] p = "expire"              -> {timer(s[i]) : i \in DOMAIN s}
      [] OTHER                     -> {}

\* What process_timers does to one order of its batch.
Expiry(o) == <<machine(o), clock, inventory(o)>>

\* Mutant: request_payment looks at the stock again.
PaymentRecheckingStock(o) ==
    IF o \in Generic THEN <<provider(o), machine(o), clock, key(o)>>
                     ELSE <<machine(o), provider(o), clock, inventory(o), key(o), timer(o)>>

\* request_effect and request_payment; then recordReceipt, the clock again.
Payment(o) ==
    IF o \in Generic THEN <<provider(o), machine(o), clock, key(o)>>
                     ELSE <<machine(o), provider(o), clock, key(o), timer(o)>>

\* The same about o with the provider key of q.  For another one it is a conflict.
Replay(o, q) ==
    IF o \in Generic
    THEN IF o = q THEN <<provider(q), effect(q), clock>> ELSE <<provider(q), effect(q)>>
    ELSE IF o = q THEN <<machine(o), provider(q), effect(q), clock>>
                  ELSE <<machine(o), provider(q), effect(q)>>

\* What finalize and cancelUnauthorized do to the order.
Outcome(o) == IF o \in Generic THEN <<>> ELSE <<machine(o), inventory(o)>>

\* What the transaction p about the orders s asks for and waits for.
Wants(p, s) ==
    LET o == s[1] IN
    CASE p = "reserve"   -> <<inventory(o), clock>>
      [] p = "advance"   -> <<machine(o), clock>>
      [] p = "pay"       -> Payment(o)
      [] p = "replay"    -> Replay(o, s[2])
      [] p = "misdirect" -> <<provider(s[2]), machine(o)>>   \* request_effect for an order
      [] p = "put"       -> <<artifact(o), clock>>           \* stored before
      [] p = "assert"    -> <<clock, artifact(o)>>           \* or a link to it
      [] p = "link"      -> <<clock, effect(o)>>
      [] p = "revoke"    -> <<key(o)>>
      [] p = "expire"    -> IF Len(s) = 1 THEN Expiry(s[1]) ELSE Expiry(s[1]) \o Expiry(s[2])
      [] p = "lease"     -> <<clock>>
      [] p = "cancel"    -> <<clock>> \o Outcome(o)
      [] p = "retry"     -> <<effect(o), clock>>
      [] p = "settle"    -> <<effect(o), clock>> \o Outcome(o) \o <<key(o)>>

\* The phases in which the transaction finds the row it is looking for, and the
\* phase it leaves.  Whether the key is revoked is left open.
From(p, o) ==
    CASE p = "reserve"              -> IF o \in Generic THEN {} ELSE {"new"}
      [] p = "advance"              -> IF o \in Generic THEN Phases ELSE {}
      [] p = "pay"                  -> IF o \in Generic THEN {"new"} ELSE {"reserved"}
      [] p = "expire"               -> {"reserved"}
      [] p \in {"revoke", "put", "assert"} -> Phases
      [] p = "replay"               -> IF o \in Generic THEN Phases ELSE Phases \ {"new"}
      [] p = "misdirect"            -> IF o \in Generic THEN {} ELSE Phases \ {"new"}
      [] p = "link"                 -> {"requested", "leased", "done"}
      [] p \in {"lease", "cancel"}  -> {"requested"}
      [] p \in {"retry", "settle"}  -> {"leased"}

To(p, o) ==
    CASE p = "reserve"                         -> "reserved"
      [] p \in {"pay", "retry"}                -> "requested"
      [] p = "lease"                           -> "leased"
      [] p \in {"expire", "cancel", "settle"}  -> "done"
      [] OTHER                                 -> phase[o]

Init ==
    /\ op    = [t \in Txn |-> "none"]
    /\ batch = [t \in Txn |-> <<>>]
    /\ wants = [t \in Txn |-> <<>>]
    /\ holds = [t \in Txn |-> {}]
    /\ phase = [o \in Order |-> "new"]

-----------------------------------------------------------------------------
Free(l) == \A t \in Txn : l \notin holds[t]

Batches(p) ==
    CASE p \in {"replay", "misdirect"} -> {<<o, q>> : o \in Order, q \in Order}
      [] p = "expire" -> {<<o>> : o \in Order}
                             \cup {<<o, q>> : o \in Order, q \in Order}
      [] OTHER        -> {<<o>> : o \in Order}

\* The rows that the transaction reads are in the state it needs.
Finds(p, s) ==
    /\ phase[s[1]] \in From(p, s[1])
    /\ p = "expire" /\ Len(s) = 2 => s[1] # s[2] /\ phase[s[2]] \in From(p, s[2])
    /\ p = "replay" /\ s[1] = s[2] => phase[s[1]] \in {"requested", "leased", "done"}

Begin(t, p, s) ==
    /\ op[t] = "none"
    /\ Finds(p, s)
    /\ \A l \in Taken(p, s) : Free(l)
    /\ op'    = [op EXCEPT ![t] = p]
    /\ batch' = [batch EXCEPT ![t] = s]
    /\ wants' = [wants EXCEPT ![t] = Wants(p, s)]
    /\ holds' = [holds EXCEPT ![t] = Taken(p, s)]
    /\ UNCHANGED phase

\* ... and are so still, when a lock is granted.
Current(t) == Finds(op[t], batch[t])

\* A lock is granted, to its holder at once.
Acquire(t) ==
    /\ wants[t] # <<>>
    /\ Current(t)
    /\ \A u \in Txn \ {t} : Head(wants[t]) \notin holds[u]
    /\ holds' = [holds EXCEPT ![t] = @ \cup {Head(wants[t])}]
    /\ wants' = [wants EXCEPT ![t] = Tail(@)]
    /\ UNCHANGED <<op, batch, phase>>

\* Mutant: the connection goes back to the pool inside its transaction.
EndWithoutRollback(t) ==
    /\ op'    = [op EXCEPT ![t] = "none"]
    /\ batch' = [batch EXCEPT ![t] = <<>>]
    /\ wants' = [wants EXCEPT ![t] = <<>>]
    /\ UNCHANGED holds

\* COMMIT or ROLLBACK.
End(t) ==
    /\ op'    = [op EXCEPT ![t] = "none"]
    /\ batch' = [batch EXCEPT ![t] = <<>>]
    /\ wants' = [wants EXCEPT ![t] = <<>>]
    /\ holds' = [holds EXCEPT ![t] = {}]

\* The lock is granted but the row has moved on: a conflict, or nothing to do.
Refuse(t) ==
    /\ wants[t] # <<>>
    /\ ~Current(t)
    /\ \A u \in Txn \ {t} : Head(wants[t]) \notin holds[u]
    /\ End(t)
    /\ UNCHANGED phase

Commit(t) ==
    /\ op[t] # "none"
    /\ wants[t] = <<>>
    /\ phase' = [o \in Order |-> IF \E i \in DOMAIN batch[t] : batch[t][i] = o
                                 THEN To(op[t], o) ELSE phase[o]]
    /\ End(t)

Waits(t, u) ==
    /\ t # u
    /\ wants[t] # <<>>
    /\ Head(wants[t]) \in holds[u]

\* Every member of T waits for another one.
Deadlocked(T) == T # {} /\ \A t \in T : \E u \in T : Waits(t, u)

\* deadlock_timeout passes and PostgreSQL rolls one of them back.
Abort(t) ==
    /\ Detector
    /\ \E T \in SUBSET Txn : t \in T /\ Deadlocked(T)
    /\ End(t)
    /\ UNCHANGED phase

Next ==
    \E t \in Txn :
        \/ \E p \in Ops : \E s \in Batches(p) : Begin(t, p, s)
        \/ Acquire(t)
        \/ Refuse(t)
        \/ Commit(t)
        \/ Abort(t)

Spec == Init /\ [][Next]_lockVars

\* PostgreSQL grants a row lock in the order of the requests for it.
FairSpec ==
    /\ Spec
    /\ \A t \in Txn :
        /\ SF_lockVars(Acquire(t) \/ Refuse(t))
        /\ WF_lockVars(Commit(t) \/ Abort(t))

-----------------------------------------------------------------------------
(* Correctness *)

TypeOK ==
    /\ op    \in [Txn -> AllOps \cup {"none"}]
    /\ phase \in [Order -> Phases]
    /\ \A t \in Txn : /\ batch[t] = <<>> <=> op[t] = "none"
                      /\ op[t] = "none" => wants[t] = <<>> /\ holds[t] = {}
    /\ \A t \in Txn, u \in Txn : t # u => holds[t] \cap holds[u] = {}

\* A request that has the clock and refers to a row, and one that has locked the
\* row again before it asks for the clock.  Or: request_effect for an order, whose
\* machine row it asks for after the provider key, and a payment, the other way round.
CrossedLocks(t, u) ==
    /\ Waits(t, u)
    /\ \/ op[t] \in {"assert", "link"} /\ op[u] \in {"put", "replay"}
       \/ op[t] = "misdirect" /\ op[u] \in {"pay", "replay"}

\* The requests of API clients wait in a circle only around a row that one of them
\* stores again while another refers to it, or around an order that one of them
\* takes for a workflow: every other deadlock has a worker or the timers in it.
RequestsRarelyDeadlock ==
    \A T \in SUBSET {t \in Txn : op[t] \in RequestOps} :
        Deadlocked(T) => \E t \in T, u \in T : CrossedLocks(t, u)

\* docs/PRODUCTION.md:378: "Multiple replicas can run concurrently because
\* leases use SKIP LOCKED".  No two workers' transactions block each other.
ReplicasRunConcurrently ==
    \A T \in SUBSET {t \in Txn : op[t] \in WorkerOps} : ~Deadlocked(T)

\* With the detector every transaction ends, whatever it runs into.
TransactionsEnd == \A t \in Txn : op[t] # "none" ~> op[t] = "none"

=============================================================================
