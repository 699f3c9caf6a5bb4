-------------------------- MODULE MCBitemporalStore --------------------------
(* Up to three versions of one fact, or assertions of two sources that contradict *)
(* each other and of one that outranks them for a time.                           *)
EXTENDS Resolution

CONSTANTS a1, a2, a3, w1, w2, r1

MCAssertion == {a1, a2, a3}
MCWriter    == {w1, w2}
MCReader    == {r1}
MCSlotOf    == [a \in MCAssertion |-> "s"]

Claim(object, authority, validFrom, validTo) ==
    [object |-> object, authority |-> authority, status |-> "active",
     validFrom |-> validFrom, validTo |-> validTo]

MCContent == [a \in MCAssertion |->
    IF a = a1 THEN Claim("x", 2, 1, 2)
    ELSE Claim(IF a = a2 THEN "x" ELSE "y", 1, 0, None)]

Symmetry == Permutations(MCWriter)
=============================================================================
