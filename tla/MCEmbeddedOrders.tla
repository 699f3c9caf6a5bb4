--------------------------- MODULE MCEmbeddedOrders ---------------------------
(* Two orders over one item, two keys, two processes that run timers. *)
EXTENDS EmbeddedOrders, TLC

CONSTANTS o1, o2, i1, k1, k2, p1, p2

MCOrder   == {o1, o2}
MCItem    == {i1}
MCKey     == {k1, k2}
MCProcess == {p1, p2}
Symmetry  == Permutations(MCOrder) \cup Permutations(MCKey) \cup Permutations(MCProcess)
=============================================================================
