---------------------------- MODULE MCGenericAgency ----------------------------
(* One workflow, two provider keys, a decision that may be superseded. *)
EXTENDS GenericAgency

CONSTANTS c1, c2, c3, c4, c5, t1, t2, w1, p1, p2, d1, d2, g1, v1

MCCall        == {c1, c2, c3, c4, c5}
MCTx          == {t1, t2}
MCWorkflow    == {w1}
MCProviderKey == {p1, p2}
MCAssertion   == {d1, d2, g1, v1}
MCGiven       == {d1, g1, v1}
MCKind        == [a \in MCAssertion |-> CASE a \in {d1, d2} -> "decision" [] a = g1 -> "directive"
                                      [] a = v1 -> "observation"]

Advance(r, last) == [op |-> "advance_workflow", workflow |-> w1, expected |-> r, terminal |-> last]
Request(r, p, n) == [op |-> "request_effect", workflow |-> w1, expected |-> r, provider |-> p,
                     decision |-> d1, policy |-> g1, amount |-> n]

MCOperation ==
    {[op |-> "create_workflow", workflow |-> w1],
     Advance(1, FALSE), Advance(2, TRUE), Advance(3, FALSE), Request(1, p1, 1), Request(2, p1, 1), Request(2, p2, 2),
     [op |-> "assert", assertion |-> d2, supersedes |-> d1, source |-> None],
     [op |-> "add_lineage", relation |-> "governs", from |-> AssertionNode(g1), to |-> AssertionNode(d1)],
     [op |-> "add_lineage", relation |-> "verifies", from |-> <<"effect", w1, 1>>, to |-> AssertionNode(v1)],
     [op |-> "put_artifact", artifact |-> "a1", content |-> "x"],
     [op |-> "put_artifact", artifact |-> "a1", content |-> "y"],
     [op |-> "add_lineage", relation |-> "evidence_for", from |-> ArtifactNode("a1"), to |-> AssertionNode(v1)],
     [op |-> "record_effect_outcome", workflow |-> w1, revision |-> 1, status |-> "failed"],
     [op |-> "record_effect_outcome", workflow |-> w1, revision |-> 1, status |-> "succeeded"]}

MCProfiles == {"production", "embedded"}
Symmetry   == Permutations(MCCall) \cup Permutations(MCTx)
=============================================================================
