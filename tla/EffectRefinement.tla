--------------------------- MODULE EffectRefinement ---------------------------
(***************************************************************************)
(* EffectLifecycle implements EffectContract, with informed failures or    *)
(* not: an effect counts as authorized from its fence to its settlement,   *)
(* the live keys are the active ones, and an effect has been acted on when *)
(* the receiver applied it.  The budget counters of the keys have no       *)
(* image; the contract adds up the committed amounts instead.              *)
(***************************************************************************)
EXTENDS EffectLifecycle

PromisePhase(s) ==
    CASE s = "planned" -> "requested"
      [] s \in {"dispatching", "unknown", "reconciling"} -> "authorized"
      [] OTHER -> s

Promise == INSTANCE EffectContract WITH
    phase <- [e \in Effect |-> PromisePhase(status[e])],
    payer <- owner,
    price <- amount,
    live  <- {k \in Key : active[k]},
    acted <- {e \in Effect : provider[e] = "applied"}

\* Every behaviour of the workers, crashes, lost messages and retries included,
\* looks to callers and receivers like one of the contract.
ImplementsContract == Promise!Spec
=============================================================================
