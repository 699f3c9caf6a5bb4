---------------------------- MODULE MCAgentSession ----------------------------
(* Two runs: one responds to an incident, the other gets in its way. Or one *)
(* alone goes through the incident scenario.                               *)
EXTENDS IncidentScenario

CONSTANTS r1, r2, t1, t2, p1, p2, d1, d2, g1, v1

MCRun         == {r1, r2}
MCTx          == {t1, t2}
MCWorkflow    == {incident}
MCProviderKey == {rollback, p1, p2}
MCGiven       == {d1, g1, v1}
MCAssertion   == {d1, d2, g1, v1, errorRate, verification, causeV1, causeV2, policy, decision}
MCKind        ==
    [a \in MCAssertion |-> CASE a \in {d1, d2, decision} -> "decision"
                             [] a \in {g1, policy} -> "directive"
                             [] a \in {v1, errorRate, verification} -> "observation"
                             [] a \in {causeV1, causeV2} -> "hypothesis"]

Create           == [op |-> "create_workflow", workflow |-> incident]
Advance(n, last) == [op |-> "advance_workflow", workflow |-> incident, expected |-> n, terminal |-> last]
Request(n, p, a) == [op |-> "request_effect", workflow |-> incident, expected |-> n, provider |-> p,
                     decision |-> d1, policy |-> g1, amount |-> a]
DeliverIt        == [op |-> "run_worker", workflow |-> incident, revision |-> 1]
Outcome(s)       == [op |-> "record_effect_outcome", workflow |-> incident, revision |-> 1, status |-> s]
Verify           == [op |-> "add_lineage", relation |-> "verifies",
                     from |-> <<"effect", incident, 1>>, to |-> AssertionNode(v1)]
Govern           == [op |-> "add_lineage", relation |-> "governs",
                     from |-> AssertionNode(g1), to |-> AssertionNode(d1)]
Revise           == [op |-> "assert", assertion |-> d2, supersedes |-> d1, source |-> None]

Incident == <<InvokeTool(1, Create), InvokeTool(2, Request(1, p1, 1)), InvokeTool(3, DeliverIt),
              InvokeTool(4, Verify), InvokeTool(5, Advance(1, TRUE))>>
Others   == {<<InvokeTool(1, Advance(1, FALSE)), InvokeTool(2, Request(2, p2, 2)),
               InvokeTool(3, Advance(2, TRUE))>>,
             <<InvokeTool(1, Request(1, p1, 1)), RecordTurn(r2, 1, "x"),
               InvokeTool(2, Advance(2, FALSE))>>,
             <<InvokeTool(1, Revise), InvokeTool(2, Govern)>>,
             <<Execute(1, Outcome("succeeded")), Execute(2, Outcome("failed")), Execute(3, Verify)>>}

\* In the embedded profile it stops where it runs a worker.
Alone == [r \in MCRun |-> IF r = r1 THEN Scenario ELSE <<>>]

MCScripts  == {[r \in MCRun |-> IF r = r1 THEN Incident ELSE s] : s \in Others} \cup {Alone}
MCOperation == UNION {{s[r][n].op : n \in DOMAIN s[r]} : <<s, r>> \in MCScripts \X MCRun}
MCProfiles == {"production", "embedded"}
MCCall     == (MCRun \X {"tool-call", "host-operation", "turn-record"} \X (1..5))
                  \cup {<<r1, "step", Scenario[n].name>> : n \in DOMAIN Scenario}
Symmetry   == Permutations(MCTx)
=============================================================================
