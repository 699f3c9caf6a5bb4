--------------------------- MODULE MCIntentExecution ---------------------------
(* Two contents for one artifact, and an explanation. *)
EXTENDS IntentExecution, TLC

CONSTANTS c1, c2, c3, k1, k2, p1, f1, x, y, e

MCCall     == {c1, c2, c3}
MCPair     == {c1, c2}
MCOpKey    == {k1, k2}
MCApiKey   == {p1}
MCContent  == {x, y, e}
MCExplains == {e}
MCArtifact == {f1}
MCArtifactOf == [z \in MCContent |-> IF z = e THEN None ELSE f1]
Symmetry   == Permutations(MCCall) \cup Permutations(MCOpKey) \cup Permutations({x, y})
=============================================================================
