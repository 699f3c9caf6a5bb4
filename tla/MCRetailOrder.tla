---------------------------- MODULE MCRetailOrder ----------------------------
(* Two orders over one item. *)
EXTENDS RetailOrder, TLC

CONSTANTS o1, o2, w1, k1, i1

MCOrder  == {o1, o2}
MCWorker == {w1}
MCKey    == {k1}
MCItem   == {i1}
MCLimit  == [k \in MCKey |-> 1]
Symmetry == Permutations(MCOrder)
=============================================================================
