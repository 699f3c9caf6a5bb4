--------------------------- MODULE MCEffectDelivery ---------------------------
(* One effect under contention of several workers. *)
EXTENDS EffectRefinement

CONSTANTS e1, w1, w2, k1

MCEffect == {e1}
MCWorker == {w1, w2}
MCKey    == {k1}
MCLimit  == [k \in MCKey |-> 1]
=============================================================================
