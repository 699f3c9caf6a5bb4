---------------------------- MODULE EmbeddedOrders ----------------------------
(***************************************************************************)
(* Retail orders of the embedded profile: one SQLite file, opened by one   *)
(* or several processes, transactions that begin IMMEDIATE (one writer at  *)
(* a time, so a transaction is one action), a logical clock in the file    *)
(* that never repeats or goes back, and payments whose outcome the caller  *)
(* reports. Timers are read outside the transactions that handle them.     *)
(*                                                                         *)
(* The milliseconds that one transaction allocates are one instant here:   *)
(* nothing else can be written between them.                               *)
(***************************************************************************)
EXTENDS Integers, FiniteSets, Sequences

CONSTANTS
    Order, Item, Key,   \* order ids, (sku, location) pairs, idempotency keys
    Process,            \* processes that run processDueTimers on the file
    MaxStock,           \* stock is seeded with 0..MaxStock
    MaxQuantity,        \* orders are for 1..MaxQuantity
    MaxHold,            \* a reservation holds for 1..MaxHold
    MaxTime,            \* bound: the last time at which agents still write
    None

ASSUME EmbeddedAssumption ==
    /\ IsFiniteSet(Order) /\ IsFiniteSet(Key)
    /\ MaxStock \in Nat /\ MaxQuantity \in Nat /\ MaxHold \in Nat /\ MaxTime \in Nat
    /\ None \notin Item

VARIABLES
    clock,      \* logical_clock.last_millis
    seeded,     \* the items with an inventory row
    onHand,     \* inventory.quantity_on_hand
    held,       \* inventory.quantity_reserved
    machine,    \* machine_instances.state, "absent" before the row exists
    item,       \* data_json of the order: its item,
    quantity,   \* quantity
    expiresAt,  \* and reservationExpiresAt, which is also the timer's due_at
    history,    \* machine_history: state and time, one row per revision
    timer,      \* timers.status of the reservation_expiry timer
    effect,     \* effect_intents.status of the payment
    attempts,   \* effect_intents.attempt_count
    stored,     \* idempotency_results: the requests behind the operation keys
    due         \* the timers a process has read and not handled yet

stockVars == <<seeded, onHand, held>>
orderVars == <<item, quantity, expiresAt>>
vars == <<clock, stockVars, machine, orderVars, history, timer, effect, attempts, stored, due>>

PaymentStatus == {"succeeded", "failed", "unknown"}

Init ==
    /\ clock     = 0
    /\ seeded    = {}
    /\ onHand    = [i \in Item |-> 0]
    /\ held      = [i \in Item |-> 0]
    /\ machine   = [o \in Order |-> "absent"]
    /\ item      = [o \in Order |-> None]
    /\ quantity  = [o \in Order |-> 0]
    /\ expiresAt = [o \in Order |-> 0]
    /\ history   = [o \in Order |-> <<>>]
    /\ timer     = [o \in Order |-> "absent"]
    /\ effect    = [o \in Order |-> "absent"]
    /\ attempts  = [o \in Order |-> 0]
    /\ stored    = {}
    /\ due       = [p \in Process |-> {}]

-----------------------------------------------------------------------------
(* The file *)

\* Mutant: the wall clock is trusted.
WallTime(c) == c

\* allocateTimestamp under a wall clock that shows c. What a transaction that
\* rolls back has allocated rolls back with it.
WriteTime(c) == IF c > clock THEN c ELSE clock + 1

\* getIdempotency finds nothing: another request under the key is a conflict,
\* the same one is answered from the table and changes nothing.
Fresh(key, request) == \A s \in stored : s.key # key

\* putIdempotency
Store(key, request) == stored' = stored \cup {[key |-> key, request |-> request]}

\* The UPDATE of the machine row and the INSERT of its next history row.
Enter(o, state, t) ==
    /\ machine' = [machine EXCEPT ![o] = state]
    /\ history' = [history EXCEPT ![o] = Append(@, [state |-> state, at |-> t])]

\* releaseReservedInventory
Release(o) ==
    /\ held[item[o]] >= quantity[o]
    /\ held' = [held EXCEPT ![item[o]] = @ - quantity[o]]
    /\ UNCHANGED <<seeded, onHand>>

\* commitReservedInventory
Commit(o) ==
    /\ onHand[item[o]] >= quantity[o]
    /\ held[item[o]] >= quantity[o]
    /\ onHand' = [onHand EXCEPT ![item[o]] = @ - quantity[o]]
    /\ held'   = [held EXCEPT ![item[o]] = @ - quantity[o]]
    /\ UNCHANGED seeded

-----------------------------------------------------------------------------
(* Agents *)

\* seedInventory: a second seed is answered with the row or refused.
SeedInventory(i, n, c) ==
    /\ i \notin seeded
    /\ seeded' = seeded \cup {i}
    /\ onHand' = [onHand EXCEPT ![i] = n]
    /\ clock' = WriteTime(c)
    /\ UNCHANGED <<held, machine, orderVars, history, timer, effect, attempts, stored, due>>

\* Mutant: units that are already promised are counted.
ReserveFromOnHand(k, o, i, n, h, c) ==
    LET t == WriteTime(c) IN
    /\ Fresh(<<"reserve", k>>, <<o, i, n, h>>)
    /\ i \in seeded
    /\ onHand[i] >= n
    /\ machine[o] = "absent"
    /\ held'      = [held EXCEPT ![i] = @ + n]
    /\ item'      = [item EXCEPT ![o] = i]
    /\ quantity'  = [quantity EXCEPT ![o] = n]
    /\ expiresAt' = [expiresAt EXCEPT ![o] = t + h]
    /\ Enter(o, "reserved", t)
    /\ timer' = [timer EXCEPT ![o] = "pending"]
    /\ Store(<<"reserve", k>>, <<o, i, n, h>>)
    /\ clock' = t
    /\ UNCHANGED <<seeded, onHand, effect, attempts, due>>

ReserveInventory(k, o, i, n, h, c) ==
    LET t == WriteTime(c) IN
    /\ Fresh(<<"reserve", k>>, <<o, i, n, h>>)
    /\ i \in seeded
    /\ onHand[i] - held[i] >= n
    /\ machine[o] = "absent"
    /\ held'      = [held EXCEPT ![i] = @ + n]
    /\ item'      = [item EXCEPT ![o] = i]
    /\ quantity'  = [quantity EXCEPT ![o] = n]
    /\ expiresAt' = [expiresAt EXCEPT ![o] = t + h]
    /\ Enter(o, "reserved", t)
    /\ timer' = [timer EXCEPT ![o] = "pending"]
    /\ Store(<<"reserve", k>>, <<o, i, n, h>>)
    /\ clock' = t
    /\ UNCHANGED <<seeded, onHand, effect, attempts, due>>

\* Refused when the hold has run out by the logical clock, whether or not the
\* timer has fired.
RequestPayment(k, o, c) ==
    LET t == WriteTime(c) IN
    /\ Fresh(<<"payment", k>>, <<o>>)
    /\ machine[o] = "reserved"
    /\ t < expiresAt[o]
    /\ Enter(o, "payment_pending", t)
    /\ timer'  = [timer EXCEPT ![o] = IF @ = "pending" THEN "cancelled" ELSE @]
    /\ effect' = [effect EXCEPT ![o] = "planned"]
    /\ Store(<<"payment", k>>, <<o>>)
    /\ clock' = t
    /\ UNCHANGED <<stockVars, orderVars, attempts, due>>

\* What an outcome does to the order and its stock.
Settle(o, s, t) ==
    \/ s = "succeeded" /\ Commit(o) /\ Enter(o, "confirmed", t)
    \/ s = "failed" /\ Release(o) /\ Enter(o, "failed", t)
    \/ s = "unknown" /\ UNCHANGED stockVars /\ Enter(o, "payment_pending", t)

\* recordPaymentOutcome of an open payment: one attempt more, and a history row
\* even if the outcome stays unknown.
RecordPaymentOutcome(k, o, s, c) ==
    LET t == WriteTime(c) IN
    /\ Fresh(<<"outcome", o, k>>, <<s>>)
    /\ effect[o] \in {"planned", "unknown"}
    /\ machine[o] = "payment_pending"
    /\ Settle(o, s, t)
    /\ effect'   = [effect EXCEPT ![o] = s]
    /\ attempts' = [attempts EXCEPT ![o] = @ + 1]
    /\ Store(<<"outcome", o, k>>, <<s>>)
    /\ clock' = t
    /\ UNCHANGED <<orderVars, timer, due>>

\* A terminal outcome comes again under another key: the answer is stored, and
\* nothing is applied. Another terminal outcome is a conflict.
RepeatPaymentOutcome(k, o, s, c) ==
    /\ Fresh(<<"outcome", o, k>>, <<s>>)
    /\ effect[o] \in {"succeeded", "failed"}
    /\ effect[o] = s
    /\ Store(<<"outcome", o, k>>, <<s>>)
    /\ clock' = WriteTime(c)
    /\ UNCHANGED <<stockVars, machine, orderVars, history, timer, effect, attempts, due>>

-----------------------------------------------------------------------------
(* Timers *)

\* processDueTimers reads the pending timers due at asOf, which its caller may
\* choose. Through the intent process_timers one transaction holds all of it.
ReadDueTimers(p, asOf) ==
    /\ due[p] = {}
    /\ due' = [due EXCEPT ![p] =
                  {o \in Order : timer[o] = "pending" /\ expiresAt[o] <= asOf}]
    /\ UNCHANGED <<clock, stockVars, machine, orderVars, history, timer, effect, attempts, stored>>

\* Mutant: the order is taken to be as it was when the timer was read.
ProcessTimerUnchecked(p, o, c) ==
    LET t == WriteTime(c) IN
    /\ o \in due[p]
    /\ \A q \in due[p] : expiresAt[o] <= expiresAt[q]
    /\ Release(o)
    /\ Enter(o, "cancelled", t)
    /\ timer' = [timer EXCEPT ![o] = "fired"]
    /\ due' = [due EXCEPT ![p] = @ \ {o}]
    /\ clock' = t
    /\ UNCHANGED <<orderVars, effect, attempts, stored>>

\* One transaction for each timer read, in the order of due_at. The timer is not
\* looked at again, the order is.
ProcessTimer(p, o, c) ==
    LET t == WriteTime(c) IN
    /\ o \in due[p]
    /\ \A q \in due[p] : expiresAt[o] <= expiresAt[q]
    /\ \/ /\ machine[o] = "reserved"
          /\ Release(o)
          /\ Enter(o, "cancelled", t)
          /\ timer' = [timer EXCEPT ![o] = "fired"]
       \/ /\ machine[o] # "reserved"
          /\ timer' = [timer EXCEPT ![o] = "cancelled"]
          /\ UNCHANGED <<stockVars, machine, history>>
    /\ due' = [due EXCEPT ![p] = @ \ {o}]
    /\ clock' = t
    /\ UNCHANGED <<orderVars, effect, attempts, stored>>

\* The process ends between two of these transactions.
Crash(p) ==
    /\ due[p] # {}
    /\ due' = [due EXCEPT ![p] = {}]
    /\ UNCHANGED <<clock, stockVars, machine, orderVars, history, timer, effect, attempts, stored>>

-----------------------------------------------------------------------------
AgentStep(c) ==
    \/ \E i \in Item, n \in 0..MaxStock : SeedInventory(i, n, c)
    \/ \E k \in Key, o \in Order :
        \/ \E i \in Item, n \in 1..MaxQuantity, h \in 1..MaxHold : ReserveInventory(k, o, i, n, h, c)
        \/ RequestPayment(k, o, c)
        \/ \E s \in PaymentStatus : RecordPaymentOutcome(k, o, s, c) \/ RepeatPaymentOutcome(k, o, s, c)

TimerStep(p) ==
    \/ \E asOf \in 0..(MaxTime + MaxHold) : ReadDueTimers(p, asOf)
    \/ \E o \in Order, c \in 0..MaxTime : ProcessTimer(p, o, c)
    \/ Crash(p)

Next ==
    \/ \E c \in 0..MaxTime : WriteTime(c) <= MaxTime /\ AgentStep(c)
    \/ \E p \in Process : TimerStep(p)

Spec == Init /\ [][Next]_vars

-----------------------------------------------------------------------------
(* Correctness *)

MachineStates ==
    {"absent", "reserved", "payment_pending", "confirmed", "failed", "cancelled"}

TypeOK ==
    /\ clock \in Nat
    /\ seeded \subseteq Item
    /\ onHand    \in [Item -> Nat]
    /\ held      \in [Item -> Nat]
    /\ machine   \in [Order -> MachineStates]
    /\ item      \in [Order -> Item \cup {None}]
    /\ quantity  \in [Order -> 0..MaxQuantity]
    /\ expiresAt \in [Order -> Nat]
    /\ history   \in [Order -> Seq([state : MachineStates, at : Nat])]
    /\ timer     \in [Order -> {"absent", "pending", "fired", "cancelled"}]
    /\ effect    \in [Order -> {"absent", "planned"} \cup PaymentStatus]
    /\ attempts  \in [Order -> Nat]
    /\ due       \in [Process -> SUBSET Order]

\* The four tables that know about an order agree, whichever of payment, outcome
\* and the timers of two processes came first: only a reserved order has a
\* pending timer, only one that was reserved to the end has let its timer fire,
\* and the order is settled exactly when, and as, its payment is.
TablesAgree ==
    \A o \in Order :
        /\ machine[o] = "reserved" <=> timer[o] = "pending"
        /\ timer[o] = "fired" => machine[o] = "cancelled"
        /\ effect[o] = "absent" <=> machine[o] \in {"absent", "reserved", "cancelled"}
        /\ effect[o] \in {"planned", "unknown"} <=> machine[o] = "payment_pending"
        /\ effect[o] = "succeeded" <=> machine[o] = "confirmed"

\* The history of an order is a path through its machine with one row for each
\* revision, at times that rise whatever wall clocks do, none later than the
\* file's clock. No answer counts twice: an order has an attempt for each row
\* after the request for payment, and each attempt has an answer key of its own.
HistoryTellsAll ==
    \A o \in Order :
        LET h == history[o]
            answers == {s \in stored : s.key[1] = "outcome" /\ s.key[2] = o}
        IN
        /\ machine[o] = IF h = <<>> THEN "absent" ELSE h[Len(h)].state
        /\ \A n \in DOMAIN h : h[n].at <= clock
        /\ \A n \in 1..(Len(h) - 1) :
              /\ h[n].at < h[n + 1].at
              /\ <<h[n].state, h[n + 1].state>> \in
                    ({"reserved"} \X {"payment_pending", "cancelled"}) \cup
                    ({"payment_pending"} \X {"payment_pending", "confirmed", "failed"})
        /\ effect[o] # "absent" => Len(h) = 2 + attempts[o]
        /\ attempts[o] <= Cardinality(answers)
        /\ effect[o] \in {"planned", "unknown"} => attempts[o] = Cardinality(answers)

\* Stock and orders are as both kernels promise.
Phase(o) ==
    CASE machine[o] = "absent" -> "new"
      [] machine[o] = "reserved" -> "held"
      [] machine[o] = "payment_pending" -> "paying"
      [] machine[o] = "confirmed" -> "sold"
      [] OTHER -> "released"

Contract == INSTANCE OrderContract WITH
    phase   <- [o \in Order |-> Phase(o)],
    stocked <- seeded,
    stock   <- onHand,
    free    <- [i \in Item |-> onHand[i] - held[i]]

ImplementsOrders == Contract!Spec

=============================================================================
