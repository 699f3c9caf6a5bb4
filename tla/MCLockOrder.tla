----------------------------- MODULE MCLockOrder -----------------------------
(* Two orders for one item and a workflow, all authorized by one key. *)
EXTENDS LockOrder, TLC

CONSTANTS t1, t2, t3, o1, o2, f1, k1, i1

MCTxn      == {t1, t2, t3}
MCTxnPair  == {t1, t2}
MCOrder    == {o1, o2, f1}
MCGeneric  == {f1}
MCKey      == {k1}
MCItem     == {i1}
MCKeyOf    == [o \in MCOrder |-> k1]
MCItemOf   == [o \in MCOrder |-> i1]
Symmetry   == Permutations(MCTxn) \cup Permutations({o1, o2})
=============================================================================
