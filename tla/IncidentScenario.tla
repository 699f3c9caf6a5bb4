--------------------------- MODULE IncidentScenario ---------------------------
(***************************************************************************)
(* The incident-response scenario as a script of AgentSession: what its    *)
(* three runtimes ask of the kernel, in order, each step under the run id  *)
(* and a name of its own, so that a scenario that is begun again under the *)
(* same run id repeats its requests.                                       *)
(*                                                                         *)
(* Steps of one shape that only differ in their data stand for each other: *)
(* one observation for three, one hypothesis for two, one edge for each    *)
(* relation and revision. The entity and the reads are left out.           *)
(***************************************************************************)
EXTENDS AgentSession

CONSTANTS
    incident,                   \* the workflow
    rollback,                   \* the provider key of the rollback
    alert, check,               \* artifacts: what monitoring shows, before and after
    errorRate, verification,    \* what is observed in them
    causeV1, causeV2,           \* the hypothesis about the cause, and its revision
    policy, decision            \* what allows the rollback, and what it carries out

\* execute: the step's name, of one word or of a word and an id, is its key within
\* the run.
Named(name, o) == [domain |-> "step", name |-> name, op |-> o]

Claim(a, prior, artifact) ==
    [op |-> "assert", assertion |-> a, supersedes |-> prior, source |-> artifact]

\* putArtifactAndObservation
Observed(artifact, a, prior) ==
    <<Named(<<"artifact", a>>, [op |-> "put_artifact", artifact |-> artifact, content |-> a]),
      Named(<<"observation", a>>, Claim(a, prior, artifact))>>

\* assertHypothesis
Supposed(a, prior) == <<Named(<<"hypothesis", a>>, Claim(a, prior, None))>>

\* addLineage
Related(name, relation, from, to) ==
    <<Named(name, [op |-> "add_lineage", relation |-> relation, from |-> from, to |-> to])>>

\* rollbackOperation
RollbackOperation ==
    [op |-> "request_effect", workflow |-> incident, expected |-> 3, provider |-> rollback,
     decision |-> decision, policy |-> policy, amount |-> 0]

RolledBack == <<"effect", incident, 3>>

Advanced(name, expected, last) ==
    <<Named(name, [op |-> "advance_workflow", workflow |-> incident,
                   expected |-> expected, terminal |-> last])>>

\* The alert is looked into and a cause supposed.
Investigation ==
    <<Named(<<"workflow">>, [op |-> "create_workflow", workflow |-> incident])>>
    \o Observed(alert, errorRate, None)
    \o Advanced(<<"investigate">>, 1, FALSE)
    \o Supposed(causeV1, None)
    \o Related(<<"error-support">>, "supports", AssertionNode(errorRate), AssertionNode(causeV1))

\* The cause is revised, and a rollback decided on, authorized and asked for.
Remediation ==
    Supposed(causeV2, causeV1)
    \o Related(<<"error-support-revised">>, "supports", AssertionNode(errorRate), AssertionNode(causeV2))
    \o <<Named(<<"policy">>, Claim(policy, None, None)), Named(<<"decision">>, Claim(decision, None, None))>>
    \o Related(<<"decision-support">>, "supports", AssertionNode(causeV2), AssertionNode(decision))
    \o Related(<<"decision-policy">>, "governs", AssertionNode(policy), AssertionNode(decision))
    \o Advanced(<<"authorize">>, 2, FALSE)
    \o <<Named(<<"request-rollback">>, RollbackOperation)>>

\* A worker of the scenario's own delivers the rollback, or finds out what came of it.
Worked(name) == <<Named(name, [op |-> "run_worker", workflow |-> incident, revision |-> 3])>>

\* continueAfterFirstRestart: the rollback is delivered, in a third runtime asked for again
\* under another name and reconciled; then its effect is verified and the incident closed.
Verification ==
    Worked(<<"delivered">>)
    \o <<Named(<<"request-rollback-after-restart">>, RollbackOperation)>>
    \o Worked(<<"reconciled">>)
    \o Advanced(<<"verify-state">>, 3, FALSE)
    \o Observed(check, verification, errorRate)
    \o Related(<<"effect-verification">>, "verifies", RolledBack, AssertionNode(verification))
    \o Advanced(<<"resolve">>, 4, TRUE)

Scenario == Investigation \o Remediation \o Verification
=============================================================================
