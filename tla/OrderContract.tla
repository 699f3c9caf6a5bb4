---------------------------- MODULE OrderContract ----------------------------
(***************************************************************************)
(* What both kernels promise about stock and orders, with nothing of how:  *)
(* no timers, effects, budgets, keys, clocks or workers. An order holds    *)
(* units that were free, and either sells them or gives all of them back,  *)
(* once. PostgreSQL (RetailOrder) and SQLite (EmbeddedOrders) implement it. *)
(***************************************************************************)
EXTENDS Integers, FiniteSets

CONSTANTS Order, Item, None, MaxStock, MaxQuantity

VARIABLES
    phase,      \* "new", "held", "paying", "sold", "released"
    item,       \* what an order is for
    quantity,
    stocked,    \* the items that have been seeded
    stock,      \* the units of an item that are there
    free        \* those of them that no order holds

contractVars == <<phase, item, quantity, stocked, stock, free>>

Init ==
    /\ phase    = [o \in Order |-> "new"]
    /\ item     = [o \in Order |-> None]
    /\ quantity = [o \in Order |-> 0]
    /\ stocked  = {}
    /\ stock    = [i \in Item |-> 0]
    /\ free     = [i \in Item |-> 0]

Seed(i, n) ==
    /\ i \notin stocked
    /\ stocked' = stocked \cup {i}
    /\ stock' = [stock EXCEPT ![i] = n]
    /\ free'  = [free EXCEPT ![i] = n]
    /\ UNCHANGED <<phase, item, quantity>>

Hold(o, i, n) ==
    /\ phase[o] = "new"
    /\ i \in stocked
    /\ n <= free[i]
    /\ phase'    = [phase EXCEPT ![o] = "held"]
    /\ item'     = [item EXCEPT ![o] = i]
    /\ quantity' = [quantity EXCEPT ![o] = n]
    /\ free'     = [free EXCEPT ![i] = @ - n]
    /\ UNCHANGED <<stocked, stock>>

Pay(o) ==
    /\ phase[o] = "held"
    /\ phase' = [phase EXCEPT ![o] = "paying"]
    /\ UNCHANGED <<item, quantity, stocked, stock, free>>

Sell(o) ==
    /\ phase[o] = "paying"
    /\ phase' = [phase EXCEPT ![o] = "sold"]
    /\ stock' = [stock EXCEPT ![item[o]] = @ - quantity[o]]
    /\ UNCHANGED <<item, quantity, stocked, free>>

\* The units of the orders of S that are for item i.
Units(S, i) == Cardinality({u \in Order \X (1..MaxQuantity) :
                    u[1] \in S /\ item[u[1]] = i /\ u[2] <= quantity[u[1]]})

\* One transaction may let go of several orders.
Release(S) ==
    /\ S # {}
    /\ \A o \in S : phase[o] \in {"held", "paying"}
    /\ phase' = [o \in Order |-> IF o \in S THEN "released" ELSE phase[o]]
    /\ free'  = [i \in Item |-> free[i] + Units(S, i)]
    /\ UNCHANGED <<item, quantity, stocked, stock>>

Next ==
    \/ \E i \in Item, n \in 0..MaxStock : Seed(i, n)
    \/ \E o \in Order :
        \/ \E i \in Item, n \in 1..MaxQuantity : Hold(o, i, n)
        \/ Pay(o)
        \/ Sell(o)
    \/ \E S \in SUBSET Order : Release(S)

Spec == Init /\ [][Next]_contractVars
=============================================================================
