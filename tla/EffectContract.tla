---------------------------- MODULE EffectContract ----------------------------
(***************************************************************************)
(* What the effect subsystem promises its callers, without workers,        *)
(* leases, retries, counters or messages: an effect is requested within    *)
(* the key's budget, authorized once while the key is active, acted on     *)
(* outside at most once and only when authorized, and settled once with    *)
(* what happened outside; one whose key was revoked first is cancelled.    *)
(* Success is always what happened. So is failure, unless it may be        *)
(* concluded without the receiver's word: then the budget is given back    *)
(* although the effect has happened, or will.                              *)
(***************************************************************************)
EXTENDS Naturals, FiniteSets

CONSTANTS
    Effect, Key, None, MaxAmount, Limit,
    UninformedFailures      \* the effects that may fail without the receiver's word

VARIABLES
    phase,    \* of each effect
    payer,    \* the key whose budget it uses
    price,    \* the amount it uses
    live,     \* the keys not revoked
    acted     \* the effects that happened outside

contractVars == <<phase, payer, price, live, acted>>

Init ==
    /\ phase = [e \in Effect |-> "absent"]
    /\ payer = [e \in Effect |-> None]
    /\ price = [e \in Effect |-> 0]
    /\ live  = Key
    /\ acted = {}

Cost(S) == Cardinality({u \in Effect \X (1..MaxAmount) :
                            u[1] \in S /\ u[2] <= price[u[1]]})

\* The effects that use up the budget of k: all but the failed and cancelled.
Committed(k) ==
    {e \in Effect : payer[e] = k /\ phase[e] \in {"requested", "authorized", "succeeded"}}

Request(e, k, a) ==
    /\ phase[e] = "absent"
    /\ k \in live
    /\ Cost(Committed(k)) + a <= Limit[k]
    /\ phase' = [phase EXCEPT ![e] = "requested"]
    /\ payer' = [payer EXCEPT ![e] = k]
    /\ price' = [price EXCEPT ![e] = a]
    /\ UNCHANGED <<live, acted>>

Revoke(k) ==
    /\ k \in live
    /\ live' = live \ {k}
    /\ UNCHANGED <<phase, payer, price, acted>>

Authorize(e) ==
    /\ phase[e] = "requested"
    /\ payer[e] \in live
    /\ phase' = [phase EXCEPT ![e] = "authorized"]
    /\ UNCHANGED <<payer, price, live, acted>>

Cancel(e) ==
    /\ phase[e] = "requested"
    /\ payer[e] \notin live
    /\ phase' = [phase EXCEPT ![e] = "cancelled"]
    /\ UNCHANGED <<payer, price, live, acted>>

Act(e) ==
    /\ phase[e] = "authorized" \/ (phase[e] = "failed" /\ e \in UninformedFailures)
    /\ e \notin acted
    /\ acted' = acted \cup {e}
    /\ UNCHANGED <<phase, payer, price, live>>

Settle(e) ==
    /\ phase[e] = "authorized"
    /\ \/ e \in acted /\ phase' = [phase EXCEPT ![e] = "succeeded"]
       \/ (e \notin acted \/ e \in UninformedFailures) /\ phase' = [phase EXCEPT ![e] = "failed"]
    /\ UNCHANGED <<payer, price, live, acted>>

Next ==
    \/ \E e \in Effect, k \in Key, a \in 0..MaxAmount : Request(e, k, a)
    \/ \E k \in Key : Revoke(k)
    \/ \E e \in Effect : Authorize(e) \/ Cancel(e) \/ Act(e) \/ Settle(e)

Spec == Init /\ [][Next]_contractVars
=============================================================================
