----------------------------- MODULE RetailOrder -----------------------------
(***************************************************************************)
(* Retail orders of the PostgreSQL profile: stock is seeded, reserved for  *)
(* an order with an expiry timer, paid through an external effect, and     *)
(* committed or released by the effect worker, by process_timers or by the *)
(* cancellation of an unauthorized payment.                                *)
(*                                                                         *)
(* The module composes with EffectLifecycle: the payment of order o is the *)
(* effect o (its id is derived from the order's instance and revision),    *)
(* and the transactions that touch both the effect and the order are       *)
(* conjunctions of the effect's action and what it does to the order.      *)
(***************************************************************************)
EXTENDS EffectLifecycle, Sequences

CONSTANTS
    Item,           \* (sku, location) pairs
    MaxStock,       \* stock is seeded with 0..MaxStock
    MaxQuantity,    \* orders are for 1..MaxQuantity
    TimerBatch      \* LIMIT of process_timers

ASSUME RetailAssumption ==
    /\ IsFiniteSet(Item)
    /\ MaxStock \in Nat
    /\ MaxQuantity \in Nat
    /\ TimerBatch \in Nat \ {0}
    /\ None \notin Item
    /\ None \notin 0..MaxStock

Order == Effect

VARIABLES
    seeded,      \* history: the quantity an item was seeded with, or None
    onHand,      \* inventory.quantity_on_hand
    held,        \* inventory.quantity_reserved
    machine,     \* machine_instances.state, "absent" before the row exists
    item,        \* the order's item
    quantity,    \* and quantity
    lapsed,      \* reservationExpiresAt has passed
    timer,       \* timers.status of the reservation_expiry timer
    history      \* machine_history: the states entered, one per revision

orderVars == <<seeded, onHand, held, machine, item, quantity, lapsed, timer, history>>
retailVars == <<vars, orderVars>>

MachineStates ==
    {"absent", "reserved", "payment_pending", "confirmed", "failed", "cancelled"}

\* What a set of orders amounts to.
Quantity(S) == Cardinality({u \in Order \X (1..MaxQuantity) :
                                u[1] \in S /\ u[2] <= quantity[u[1]]})
At(i, S) == {o \in S : item[o] = i}

RetailInit ==
    /\ Init
    /\ seeded   = [i \in Item |-> None]
    /\ onHand   = [i \in Item |-> 0]
    /\ held     = [i \in Item |-> 0]
    /\ machine  = [o \in Order |-> "absent"]
    /\ item     = [o \in Order |-> None]
    /\ quantity = [o \in Order |-> 0]
    /\ lapsed   = [o \in Order |-> FALSE]
    /\ timer    = [o \in Order |-> "absent"]
    /\ history  = [o \in Order |-> <<>>]

-----------------------------------------------------------------------------
(* The API process *)

\* A second seed of the same item is a replay or a conflict.
SeedInventory(i, n) ==
    /\ seeded[i] = None
    /\ seeded' = [seeded EXCEPT ![i] = n]
    /\ onHand' = [onHand EXCEPT ![i] = n]
    /\ UNCHANGED <<vars, held, machine, item, quantity, lapsed, timer, history>>

\* The UPDATE of the machine row and the INSERT of its next history row.
Enter(o, state) ==
    /\ machine' = [machine EXCEPT ![o] = state]
    /\ history' = [history EXCEPT ![o] = Append(@, state)]

\* Mutant: stock already reserved for others is promised again.
ReserveFromOnHand(o, i, n) ==
    /\ seeded[i] # None
    /\ onHand[i] >= n
    /\ machine[o] = "absent"
    /\ held'     = [held EXCEPT ![i] = @ + n]
    /\ item'     = [item EXCEPT ![o] = i]
    /\ quantity' = [quantity EXCEPT ![o] = n]
    /\ timer'    = [timer EXCEPT ![o] = "pending"]
    /\ Enter(o, "reserved")
    /\ UNCHANGED <<vars, seeded, onHand, lapsed>>

\* reserve_inventory, under the lock of the inventory row.
ReserveInventory(o, i, n) ==
    /\ seeded[i] # None
    /\ onHand[i] - held[i] >= n
    /\ machine[o] = "absent"
    /\ held'     = [held EXCEPT ![i] = @ + n]
    /\ item'     = [item EXCEPT ![o] = i]
    /\ quantity' = [quantity EXCEPT ![o] = n]
    /\ timer'    = [timer EXCEPT ![o] = "pending"]
    /\ Enter(o, "reserved")
    /\ UNCHANGED <<vars, seeded, onHand, lapsed>>

\* Mutant: the timer is left pending.
RequestPaymentKeepingTimer(o, k, a) ==
    /\ machine[o] = "reserved"
    /\ ~lapsed[o]
    /\ RequestEffect(o, k, a)
    /\ Enter(o, "payment_pending")
    /\ UNCHANGED <<seeded, onHand, held, item, quantity, lapsed, timer>>

\* request_payment, under the lock of the machine row: refused once the hold
\* has run out, even if no timer has fired yet.
RequestPayment(o, k, a) ==
    /\ machine[o] = "reserved"
    /\ ~lapsed[o]
    /\ RequestEffect(o, k, a)
    /\ Enter(o, "payment_pending")
    /\ timer' = [timer EXCEPT ![o] = IF @ = "pending" THEN "cancelled" ELSE @]
    /\ UNCHANGED <<seeded, onHand, held, item, quantity, lapsed>>

\* Mutant: the wrong state is tested.
ExpiringPaid(S) == {o \in S : machine[o] = "payment_pending"}

\* The orders of S whose hold is released; the timers of the others are
\* cancelled.
Expiring(S) == {o \in S : machine[o] = "reserved"}

\* One call of process_timers: one transaction over a batch of due timers, less
\* the rows that other transactions have locked.
ProcessTimers(S) ==
    LET E == Expiring(S) IN
    /\ S # {}
    /\ Cardinality(S) <= TimerBatch
    /\ \A o \in S : timer[o] = "pending" /\ lapsed[o]
    /\ \A i \in Item : held[i] >= Quantity(At(i, E))
    /\ held'    = [i \in Item |-> held[i] - Quantity(At(i, E))]
    /\ machine' = [o \in Order |-> IF o \in E THEN "cancelled" ELSE machine[o]]
    /\ history' = [o \in Order |-> IF o \in E THEN Append(history[o], "cancelled")
                                              ELSE history[o]]
    /\ timer'   = [o \in Order |-> IF o \in E THEN "fired"
                                   ELSE IF o \in S THEN "cancelled" ELSE timer[o]]
    /\ UNCHANGED <<vars, seeded, onHand, item, quantity, lapsed>>

\* The hold runs out: reservationExpiresAt and the timer's due_at are the same.
Lapse(o) ==
    /\ machine[o] # "absent"
    /\ ~lapsed[o]
    /\ lapsed' = [lapsed EXCEPT ![o] = TRUE]
    /\ UNCHANGED <<vars, seeded, onHand, held, machine, item, quantity, timer, history>>

-----------------------------------------------------------------------------
(* The worker's transactions *)

\* releaseOrderInventory
Release(o) ==
    /\ held[item[o]] >= quantity[o]
    /\ held' = [held EXCEPT ![item[o]] = @ - quantity[o]]
    /\ UNCHANGED onHand

\* The stock leaves.
Commit(o) ==
    /\ onHand[item[o]] >= quantity[o]
    /\ held[item[o]] >= quantity[o]
    /\ onHand' = [onHand EXCEPT ![item[o]] = @ - quantity[o]]
    /\ held'   = [held EXCEPT ![item[o]] = @ - quantity[o]]

\* Mutant: a failed payment leaves the stock reserved.
FinishRetailOrderKeepingStock(o, outcome) ==
    /\ machine[o] = "payment_pending"
    /\ \/ outcome = "succeeded" /\ Commit(o) /\ Enter(o, "confirmed")
       \/ outcome = "failed" /\ UNCHANGED <<onHand, held>> /\ Enter(o, "failed")
    /\ UNCHANGED <<seeded, item, quantity, lapsed, timer>>

\* finishRetailOrder
FinishRetailOrder(o, outcome) ==
    /\ machine[o] = "payment_pending"
    /\ \/ outcome = "succeeded" /\ Commit(o) /\ Enter(o, "confirmed")
       \/ outcome = "failed" /\ Release(o) /\ Enter(o, "failed")
    /\ UNCHANGED <<seeded, item, quantity, lapsed, timer>>

\* finalize of a payment: with a definitive result the effect, the order, the
\* stock and the budget are settled in one transaction.
FinalizePayment(w) ==
    /\ Finalize(w)
    /\ \/ result[w] = "unknown" /\ UNCHANGED orderVars
       \/ result[w] # "unknown" /\ FinishRetailOrder(job[w], result[w])

\* Mutant: the budget returns but the order is forgotten.
CancelPaymentOnly(w, o) ==
    /\ CancelUnauthorized(w, o)
    /\ UNCHANGED orderVars

\* cancelUnauthorized of a payment.
CancelPayment(w, o) ==
    /\ CancelUnauthorized(w, o)
    /\ IF machine[o] = "payment_pending"
       THEN /\ Release(o)
            /\ Enter(o, "failed")
            /\ UNCHANGED <<seeded, item, quantity, lapsed, timer>>
       ELSE UNCHANGED orderVars

-----------------------------------------------------------------------------
OrderStep ==
    \/ \E i \in Item, n \in 0..MaxStock : SeedInventory(i, n)
    \/ \E o \in Order, i \in Item, n \in 1..MaxQuantity : ReserveInventory(o, i, n)
    \/ \E o \in Order, k \in Key, a \in 0..MaxAmount : RequestPayment(o, k, a)
    \/ \E S \in SUBSET Order : ProcessTimers(S)
    \/ \E o \in Order : Lapse(o)
    \/ \E w \in Worker : FinalizePayment(w)
    \/ \E w \in Worker, o \in Order : CancelPayment(w, o)

\* The steps of EffectLifecycle that do not touch orders.
EffectOnlyStep ==
    \/ \E k \in Key : RevokeApiKey(k)
    \/ \E w \in Worker :
        \/ \E e \in Effect : LeaseNext(w, e)
        \/ Post(w)
        \/ \E r \in {"succeeded", "failed", "unknown"} : Conclude(w, r)
        \/ LoseLease(w)
        \/ Crash(w)
        \/ Restart(w)
    \/ \E e \in Effect : EnvironmentStep(e)

RetailNext ==
    \/ OrderStep
    \/ EffectOnlyStep /\ UNCHANGED orderVars

RetailSpec == RetailInit /\ [][RetailNext]_retailVars

\* The operator's scheduler calls process_timers again and again.
RetailFairSpec ==
    /\ RetailSpec
    /\ \A o \in Order :
        /\ WF_retailVars(Lapse(o))
        /\ WF_retailVars(\E S \in SUBSET Order : o \in S /\ ProcessTimers(S))

-----------------------------------------------------------------------------
(* Correctness *)

RetailTypeOK ==
    /\ TypeOK
    /\ seeded   \in [Item -> 0..MaxStock \cup {None}]
    /\ onHand   \in [Item -> Nat]
    /\ held     \in [Item -> Nat]
    /\ machine  \in [Order -> MachineStates]
    /\ item     \in [Order -> Item \cup {None}]
    /\ quantity \in [Order -> 0..MaxQuantity]
    /\ lapsed   \in [Order -> BOOLEAN]
    /\ timer    \in [Order -> {"absent", "pending", "fired", "cancelled"}]
    /\ history  \in [Order -> Seq(MachineStates)]

Holding   == {o \in Order : machine[o] \in {"reserved", "payment_pending"}}
Confirmed == {o \in Order : machine[o] = "confirmed"}

\* Reserved stock is exactly what live orders hold, and what is gone is exactly
\* what confirmed orders took: timers, payments, cancellations and settlements
\* in any order neither leak nor double-release a unit.
InventoryConserved ==
    \A i \in Item :
        /\ held[i] = Quantity(At(i, Holding))
        /\ seeded[i] # None => onHand[i] + Quantity(At(i, Confirmed)) = seeded[i]

\* No unit is promised twice (the CHECK of the inventory table never fires).
NotOversold == \A i \in Item : held[i] <= onHand[i]

\* While a payment is outstanding its order waits for it with the stock held,
\* so that none of finishRetailOrder's exceptions can be thrown: one would roll
\* the definitive outcome back and end the worker process.
OutstandingIsPending ==
    \A o \in Order :
        /\ status[o] \in Outstanding <=> machine[o] = "payment_pending"
        /\ status[o] \in Outstanding =>
               held[item[o]] >= quantity[o] /\ onHand[item[o]] >= quantity[o]

\* An order ends as its payment did, one that expired was never paid, and only
\* a reserved order has a timer that can still fire.
OrderMatchesPayment ==
    \A o \in Order :
        /\ machine[o] = "confirmed" <=> status[o] = "succeeded"
        /\ machine[o] = "failed" <=> status[o] \in {"failed", "cancelled"}
        /\ machine[o] = "cancelled" => status[o] = "absent" /\ timer[o] = "fired"
        /\ machine[o] = "reserved" <=> timer[o] = "pending"

\* A reservation does not hold its stock for ever: it is paid for or released.
ReservationEnds == \A o \in Order : machine[o] = "reserved" ~> machine[o] # "reserved"

\* Seen from its contract, an order holds units that were free, and sells them or
\* gives all of them back, whatever timers, payments, workers and revocations do.
Phase(o) ==
    CASE machine[o] = "absent" -> "new"
      [] machine[o] = "reserved" -> "held"
      [] machine[o] = "payment_pending" -> "paying"
      [] machine[o] = "confirmed" -> "sold"
      [] OTHER -> "released"

Contract == INSTANCE OrderContract WITH
    phase   <- [o \in Order |-> Phase(o)],
    stocked <- {i \in Item : seeded[i] # None},
    stock   <- onHand,
    free    <- [i \in Item |-> onHand[i] - held[i]]

ImplementsOrders == Contract!Spec

=============================================================================
