----------------------------- MODULE GenericAgency -----------------------------
(***************************************************************************)
(* Generic workflows, the effects their revisions produce, and the lineage *)
(* that explains both, as agents use them through the middleware: a call   *)
(* is named by the agent, sent again when its answer was lost, and served  *)
(* by transactions that may overlap.                                       *)
(*                                                                         *)
(* In the production profile a transaction takes the lock of the call's    *)
(* key, then that of a provider key or of the workflow row, then the clock *)
(* row until it commits. In the embedded profile it has the file to        *)
(* itself, and is one step.                                                *)
(***************************************************************************)
EXTENDS Explain

CONSTANTS
    Call,           \* (run, call id): what a call's idempotency key is derived from
    Tx,             \* database sessions of the API processes
    Workflow,       \* instance ids
    ProviderKey,    \* (provider namespace, idempotency key)
    Assertion,
    Given,          \* the assertions that are there from the start
    Kind,           \* assertion -> "decision", "directive", "observation", "hypothesis"
    Operation,      \* what agents may ask for, see below
    Limit,          \* effect_budget_limit of the one API key
    MaxTime,        \* bound: the last time of the system clock
    Profiles,       \* the profiles to look at
    None

(***************************************************************************)
(* Operations are records with a field op:                                 *)
(*   [op |-> "create_workflow", workflow]                                  *)
(*   [op |-> "advance_workflow", workflow, expected, terminal]             *)
(*   [op |-> "request_effect", workflow, expected, provider, decision,     *)
(*       policy, amount]                                                   *)
(*   [op |-> "put_artifact", artifact, content]                            *)
(*   [op |-> "assert", assertion, supersedes, source]                      *)
(*   [op |-> "add_lineage", relation, from, to]                            *)
(*   [op |-> "record_effect_outcome", workflow, revision, status],         *)
(*       of the embedded profile only                                      *)
(* The state that advance_workflow expects is determined by the revision it *)
(* expects; an effect has the one name that its revision has effects for.  *)
(***************************************************************************)
Operations(op) == {o \in Operation : o.op = op}

ASSUME AgencyAssumption ==
    /\ Profiles \subseteq {"production", "embedded"}
    /\ Limit \in Nat /\ MaxTime \in Nat
    /\ Given \subseteq Assertion
    /\ None \notin Assertion \cup Nat
    /\ \A o \in Operations("create_workflow") : o.workflow \in Workflow
    /\ \A o \in Operations("advance_workflow") :
          o.workflow \in Workflow /\ o.expected \in Nat \ {0} /\ o.terminal \in BOOLEAN
    /\ \A o \in Operations("request_effect") :
          /\ o.workflow \in Workflow /\ o.expected \in Nat \ {0}
          /\ o.provider \in ProviderKey /\ o.amount \in Nat
          /\ o.decision \in Assertion /\ o.policy \in Assertion
    /\ \A o \in Operations("assert") :
          o.assertion \in Assertion /\ o.supersedes \in Assertion \cup {None}

VARIABLES
    profile,    \* which kernel this is
    revision,   \* machine_instances.revision, 0 before the row exists
    terminal,   \* machine_instances.terminal
    history,    \* machine_history: the time and the call of each revision
    effects,    \* effect_intents
    outcome,    \* the status of those of them that are settled
    reserved,   \* effect_budget_reserved
    spent,      \* effect_budget_spent
    artifacts,  \* artifacts: the content of each that is there
    opened,     \* assertions.system_from
    closed,     \* assertions.system_to
    lineage,    \* lineage_edges in the order of created_at
    clock,      \* system_clock.last_time
    intents,    \* idempotency_results of execute: the calls and their operations
    serving,    \* the call that a session executes
    pc,         \* and how far it is
    stamp       \* the time it took from the clock row

machineRows   == <<revision, terminal, history>>
effectRows    == <<effects, outcome, reserved, spent>>
knowledgeRows == <<artifacts, opened, closed, lineage>>
rows == <<machineRows, effectRows, knowledgeRows, clock, intents>>
vars == <<profile, rows, serving, pc, stamp>>

Init ==
    /\ profile \in Profiles
    /\ revision = [w \in Workflow |-> 0]
    /\ terminal = [w \in Workflow |-> FALSE]
    /\ history  = [w \in Workflow |-> <<>>]
    /\ effects  = {}
    /\ outcome  = <<>>
    /\ reserved = 0
    /\ spent    = 0
    /\ artifacts = <<>>
    /\ opened   = [a \in Assertion |-> IF a \in Given THEN 0 ELSE None]
    /\ closed   = [a \in Assertion |-> None]
    /\ lineage  = <<>>
    /\ clock    = 0
    /\ intents  = <<>>
    /\ serving  = [t \in Tx |-> None]
    /\ pc       = [t \in Tx |-> "idle"]
    /\ stamp    = [t \in Tx |-> 0]

-----------------------------------------------------------------------------
(* What operations check and do *)

\* A table with a row for x.
With(f, x, v) == [y \in DOMAIN f \cup {x} |-> IF y = x THEN v ELSE f[y]]

\* Endpoints of lineage.
AssertionNode(a)   == <<"assertion", a>>
ArtifactNode(a)    == <<"artifact", a>>
RevisionNode(w, r) == <<"revision", w, r>>
EffectNode(e)      == <<"effect", e.workflow, e.revision>>

Current(a, kind, t) ==
    /\ Kind[a] = kind
    /\ opened[a] # None /\ opened[a] <= t
    /\ closed[a] # None => closed[a] > t

\* Mutant: a workflow that has ended moves on.
EvenTerminal(w, r) == revision[w] = r

\* The workflow stands where the request expects it to.
AtRevision(w, r) == ~terminal[w] /\ revision[w] = r

\* The records there are: what an edge can lead to, and explain be asked about.
Records ==
    {AssertionNode(a) : a \in {b \in Assertion : opened[b] # None}}
    \cup {ArtifactNode(a) : a \in DOMAIN artifacts}
    \cup (UNION {{RevisionNode(w, r) : r \in DOMAIN history[w]} : w \in Workflow})
    \cup {EffectNode(e) : e \in effects}

\* validateLineage: ends that exist, the types of the relation, and a source or
\* result that is current.
ValidLink(l, t) ==
    /\ l.from # l.to
    /\ {l.from, l.to} \subseteq Records
    /\ CASE l.relation = "evidence_for" -> l.from[1] = "artifact" /\ l.to[1] = "assertion"
         [] l.relation \in {"supports", "contradicts"} ->
               l.from[1] = "assertion" /\ l.to[1] = "assertion"
         [] l.relation = "governs" ->
               /\ l.from[1] = "assertion" /\ l.to[1] \in {"assertion", "effect"}
               /\ Current(l.from[2], "directive", t)
         [] l.relation = "authorizes" ->
               /\ l.from[1] = "assertion" /\ l.to[1] = "effect"
               /\ Current(l.from[2], "decision", t)
         [] l.relation = "produces" -> l.from[1] = "revision" /\ l.to[1] = "effect"
         [] l.relation = "verifies" ->
               /\ l.from[1] = "effect" /\ l.to[1] = "assertion"
               /\ Current(l.to[2], "observation", t)

\* insertLineage: an edge that is there already stays as it is.
InsertLink(edges, l) == IF l \in ToSet(edges) THEN edges ELSE Append(edges, l)

Link(relation, from, to) == [relation |-> relation, from |-> from, to |-> to]

\* appendHistory, with the machine row; the table has one row for a revision.
EnterRevision(w, r, t, call, final) ==
    /\ r \notin DOMAIN history[w]
    /\ revision' = [revision EXCEPT ![w] = r]
    /\ terminal' = [terminal EXCEPT ![w] = final]
    /\ history'  = [history EXCEPT ![w] = Append(@, [at |-> t, call |-> call, final |-> final])]

CreateWorkflow(o, t, call) ==
    /\ revision[o.workflow] = 0
    /\ EnterRevision(o.workflow, 1, t, call, FALSE)
    /\ UNCHANGED <<effectRows, knowledgeRows>>

AdvanceWorkflow(o, t, call) ==
    /\ AtRevision(o.workflow, o.expected)
    /\ EnterRevision(o.workflow, o.expected + 1, t, call, o.terminal)
    /\ UNCHANGED <<effectRows, knowledgeRows>>

\* The effect that a provider key stands for.
Under(provider) == {e \in effects : e.provider = provider}

Asks(e, o) ==
    /\ e.workflow = o.workflow /\ e.revision = o.expected /\ e.amount = o.amount
    /\ e.decision = o.decision /\ e.policy = o.policy

\* Mutant: the key's budget is charged again when a request is repeated.
ReplayCharging(o) ==
    /\ \E e \in Under(o.provider) : Asks(e, o)
    /\ reserved' = reserved + o.amount
    /\ UNCHANGED <<machineRows, effects, outcome, spent, knowledgeRows>>

\* The request is known under its provider key: it is answered with the effect,
\* whatever has become of it and of its workflow.
ReplayEffect(o) ==
    /\ \E e \in Under(o.provider) : Asks(e, o)
    /\ UNCHANGED <<machineRows, effectRows, knowledgeRows>>

\* The embedded profile has no budgets.
Charge(amount) ==
    IF profile = "embedded" THEN UNCHANGED reserved
    ELSE /\ spent + reserved + amount <= Limit
         /\ reserved' = reserved + amount

\* A new effect: bound to the revision that Checked found to be the current one,
\* under a decision and a policy that are current, within the budget, and with the
\* lineage that says so.
RequestEffect(o, t, call) ==
    LET e == [workflow |-> o.workflow, revision |-> o.expected, provider |-> o.provider,
              decision |-> o.decision, policy |-> o.policy, amount |-> o.amount,
              at |-> t, call |-> call]
    IN
    /\ Under(o.provider) = {}
    /\ Current(o.decision, "decision", t)
    /\ Current(o.policy, "directive", t)
    /\ \A d \in effects : EffectNode(d) # EffectNode(e)
    /\ Charge(o.amount)
    /\ effects' = effects \cup {e}
    /\ lineage' =
          LET authorized == InsertLink(lineage,
                                Link("authorizes", AssertionNode(o.decision), EffectNode(e)))
              governed   == InsertLink(authorized,
                                Link("governs", AssertionNode(o.policy), EffectNode(e)))
          IN InsertLink(governed,
                        Link("produces", RevisionNode(o.workflow, o.expected), EffectNode(e)))
    /\ UNCHANGED <<machineRows, outcome, spent, artifacts, opened, closed>>

\* An artifact is immutable; the same one may be put again.
PutArtifact(o) ==
    /\ o.artifact \in DOMAIN artifacts => artifacts[o.artifact] = o.content
    /\ artifacts' = With(artifacts, o.artifact, o.content)
    /\ UNCHANGED <<machineRows, effectRows, opened, closed, lineage>>

\* assert; an assertion that supersedes another closes it, and one that was drawn
\* from an artifact is linked to it.
PutAssertion(o, t) ==
    /\ opened[o.assertion] = None
    /\ o.supersedes # None => opened[o.supersedes] # None /\ closed[o.supersedes] = None
    /\ o.source # None => o.source \in DOMAIN artifacts
    /\ opened' = [opened EXCEPT ![o.assertion] = t]
    /\ closed' = [a \in Assertion |-> IF a = o.supersedes THEN t ELSE closed[a]]
    /\ lineage' = IF o.source = None THEN lineage
                  ELSE InsertLink(lineage, Link("evidence_for", ArtifactNode(o.source),
                                                AssertionNode(o.assertion)))
    /\ UNCHANGED <<machineRows, effectRows, artifacts>>

AddLineage(o, t) ==
    /\ ValidLink(o, t)
    /\ lineage' = InsertLink(lineage, Link(o.relation, o.from, o.to))
    /\ UNCHANGED <<machineRows, effectRows, artifacts, opened, closed>>

\* Mutant: the last outcome reported wins.
RecordLastOutcome(o) ==
    /\ profile = "embedded"
    /\ \E e \in effects :
        /\ e.workflow = o.workflow /\ e.revision = o.revision
        /\ outcome' = With(outcome, e, o.status)
    /\ UNCHANGED <<machineRows, effects, reserved, spent, knowledgeRows>>

\* recordEffectOutcome of the embedded profile: a terminal status stays, and comes
\* again only as itself. Status "unknown" leaves the effect open and is left out.
RecordEffectOutcome(o) ==
    /\ profile = "embedded"
    /\ \E e \in effects :
        /\ e.workflow = o.workflow /\ e.revision = o.revision
        /\ e \in DOMAIN outcome => outcome[e] = o.status
        /\ outcome' = With(outcome, e, o.status)
    /\ UNCHANGED <<machineRows, effects, reserved, spent, knowledgeRows>>

\* What is checked before the clock is read, and in the production profile under
\* the locks of the provider key and of the workflow.
Checked(o) ==
    CASE o.op = "advance_workflow" -> AtRevision(o.workflow, o.expected)
      [] o.op = "request_effect" ->
            IF Under(o.provider) = {} THEN AtRevision(o.workflow, o.expected)
            ELSE \E e \in Under(o.provider) : Asks(e, o)
      [] OTHER -> TRUE

Perform(o, t, call) ==
    \/ o.op = "create_workflow" /\ CreateWorkflow(o, t, call)
    \/ o.op = "advance_workflow" /\ AdvanceWorkflow(o, t, call)
    \/ o.op = "request_effect" /\ (ReplayEffect(o) \/ RequestEffect(o, t, call))
    \/ o.op = "put_artifact" /\ PutArtifact(o)
    \/ o.op = "assert" /\ PutAssertion(o, t)
    \/ o.op = "add_lineage" /\ AddLineage(o, t)
    \/ o.op = "record_effect_outcome" /\ RecordEffectOutcome(o)

\* Settlement by the effect worker of the production profile: what was reserved is
\* spent or comes back.
Settle(e, status) ==
    /\ profile = "production"
    /\ e \in effects \ DOMAIN outcome
    /\ outcome'  = With(outcome, e, status)
    /\ reserved' = reserved - e.amount
    /\ spent'    = IF status = "succeeded" THEN spent + e.amount ELSE spent
    /\ UNCHANGED <<profile, machineRows, effects, knowledgeRows, clock, intents, serving, pc, stamp>>

-----------------------------------------------------------------------------
(* Requests, in the production profile *)

Known(call) == call \in DOMAIN intents

\* putIdempotency
Remember(call, o) == intents' = With(intents, call, o)

\* lockIdempotency: no other transaction has the call's key.
CallFree(call) == \A t \in Tx : serving[t] # None => serving[t].call # call

Leave(t) ==
    /\ pc' = [pc EXCEPT ![t] = "idle"]
    /\ serving' = [serving EXCEPT ![t] = None]
    /\ stamp' = [stamp EXCEPT ![t] = 0]

\* A request arrives, for the first time or because its answer was lost; it takes
\* the lock of its key and finds no result.
Begin(t, call, o) ==
    /\ profile = "production"
    /\ pc[t] = "idle"
    /\ CallFree(call)
    /\ ~Known(call)
    /\ serving' = [serving EXCEPT ![t] = [call |-> call, op |-> o]]
    /\ pc' = [pc EXCEPT ![t] = "keyed"]
    /\ UNCHANGED <<profile, rows, stamp>>

\* Mutant: a request for an effect reads the workflow without locking its row.
LocksOfReader(o) ==
    IF o.op = "request_effect" THEN {<<"provider", o.provider>>}
    ELSE IF o.op = "advance_workflow" THEN {<<"workflow", o.workflow>>} ELSE {}

\* The advisory lock of a provider key, and the row lock of a workflow, which a
\* request that is already known does not come to.
Locks(o) ==
    {<<"provider", p>> : p \in {q \in ProviderKey : o.op = "request_effect" /\ q = o.provider}} \cup
    {<<"workflow", w>> : w \in {v \in Workflow :
        /\ o.op \in {"advance_workflow", "request_effect"}
        /\ v = o.workflow
        /\ o.op = "request_effect" => Under(o.provider) = {}}}

LockRows(t) ==
    /\ pc[t] = "keyed"
    /\ \A u \in Tx : pc[u] \in {"locked", "timed"} =>
            Locks(serving[t].op) \cap Locks(serving[u].op) = {}
    /\ Checked(serving[t].op)
    /\ pc' = [pc EXCEPT ![t] = "locked"]
    /\ UNCHANGED <<profile, rows, serving, stamp>>

\* nextSystemTime: the clock row is locked until the transaction ends.
TakeTime(t) ==
    /\ pc[t] = "locked"
    /\ \A u \in Tx : pc[u] # "timed"
    /\ clock < MaxTime
    /\ stamp' = [stamp EXCEPT ![t] = clock + 1]
    /\ pc' = [pc EXCEPT ![t] = "timed"]
    /\ UNCHANGED <<profile, rows, serving>>

Commit(t) ==
    LET s == serving[t] IN
    /\ pc[t] = "timed"
    /\ ~Known(s.call)      \* the primary key of idempotency_results
    /\ Perform(s.op, stamp[t], s.call)
    /\ clock' = stamp[t]
    /\ Remember(s.call, s.op)
    /\ Leave(t)
    /\ UNCHANGED profile

\* A check fails, or the process or its connection ends: the transaction rolls back
\* with all it did.
Abort(t) ==
    /\ pc[t] # "idle"
    /\ Leave(t)
    /\ UNCHANGED <<profile, rows>>

-----------------------------------------------------------------------------
(* Requests, in the embedded profile *)

\* executeIntent: one transaction, one step.
ExecuteIntent(call, o) ==
    /\ profile = "embedded"
    /\ ~Known(call)
    /\ clock < MaxTime
    /\ Checked(o)
    /\ Perform(o, clock + 1, call)
    /\ clock' = clock + 1
    /\ Remember(call, o)
    /\ UNCHANGED <<profile, serving, pc, stamp>>

\* In both: a call that is sent again, because its answer was lost or its agent
\* asks twice, is answered from the table.
Replay(call) == Known(call) /\ UNCHANGED vars

-----------------------------------------------------------------------------
Next ==
    \/ \E c \in Call : Replay(c)
    \/ \E c \in Call, o \in Operation : (\E t \in Tx : Begin(t, c, o)) \/ ExecuteIntent(c, o)
    \/ \E t \in Tx : LockRows(t) \/ TakeTime(t) \/ Commit(t) \/ Abort(t)
    \/ \E e \in effects, s \in {"succeeded", "failed"} : Settle(e, s)

Spec == Init /\ [][Next]_vars

-----------------------------------------------------------------------------
(* Correctness *)

\* Of two agents that advance a workflow from one revision, one does: revisions
\* have one history row each, without gap, in the order of their times, and none
\* after a terminal one. A call acts once, however often it was sent.
HistoryFollowsRevisions ==
    /\ \A w \in Workflow :
        /\ Len(history[w]) = revision[w]
        /\ \A r \in 2..revision[w] :
              history[w][r - 1].at < history[w][r].at /\ ~history[w][r - 1].final
        /\ revision[w] > 0 => terminal[w] = history[w][revision[w]].final
    /\ \A v, w \in Workflow : \A q \in DOMAIN history[v], r \in DOMAIN history[w] :
          history[v][q].call = history[w][r].call => v = w /\ q = r
    /\ \A d, e \in effects : d.call = e.call => d = e
    /\ \A w \in Workflow, e \in effects : \A r \in DOMAIN history[w] : history[w][r].call # e.call

\* An effect was requested while its revision was the current one, under a decision
\* and a policy that were current then, and its lineage names all three; every
\* edge has both its ends.
EffectsAreBound ==
    /\ \A e \in effects :
        LET entered == history[e.workflow] IN
        /\ e.revision \in DOMAIN entered
        /\ entered[e.revision].at < e.at /\ ~entered[e.revision].final
        /\ e.revision < Len(entered) => e.at < entered[e.revision + 1].at
        /\ Current(e.decision, "decision", e.at) /\ Current(e.policy, "directive", e.at)
        /\ {Link("authorizes", AssertionNode(e.decision), EffectNode(e)),
            Link("governs", AssertionNode(e.policy), EffectNode(e)),
            Link("produces", RevisionNode(e.workflow, e.revision), EffectNode(e))}
           \subseteq ToSet(lineage)
    /\ \A l \in ToSet(lineage) : {l.from, l.to} \subseteq Records

Cost(S) == Cardinality({u \in S \X (1..Limit) : u[2] <= u[1].amount})

\* Repeated requests, under new calls and after settlement too, cost nothing: the
\* counters are those of the effects there are, one for each provider key.
BudgetFollowsEffects ==
    /\ \A d, e \in effects : d.provider = e.provider => d = e
    /\ profile = "production" =>
        /\ reserved = Cost(effects \ DOMAIN outcome)
        /\ spent = Cost({e \in DOMAIN outcome : outcome[e] = "succeeded"})
        /\ reserved + spent <= Limit

Entered(w, r, call) == r \in DOMAIN history[w] /\ history[w][r].call = call

Done(o, call) ==
    \/ o.op = "create_workflow" /\ Entered(o.workflow, 1, call)
    \/ o.op = "advance_workflow" /\ Entered(o.workflow, o.expected + 1, call)
    \/ o.op = "request_effect" /\ \E e \in Under(o.provider) : Asks(e, o)
    \/ o.op = "put_artifact" /\ o.artifact \in DOMAIN artifacts /\ artifacts[o.artifact] = o.content
    \/ o.op = "assert" /\ opened[o.assertion] # None
          /\ (o.supersedes # None => closed[o.supersedes] = opened[o.assertion])
    \/ o.op = "add_lineage" /\ Link(o.relation, o.from, o.to) \in ToSet(lineage)
    \/ o.op = "record_effect_outcome"
          /\ \E e \in DOMAIN outcome : e.workflow = o.workflow /\ e.revision = o.revision
                                      /\ outcome[e] = o.status

\* Whatever a call is answered, now or when it is sent again, stays true: it was
\* done, by this call, whichever requests overlapped and whatever came later.
AnswersAreTrue == \A c \in DOMAIN intents : Done(intents[c], c)

Explanation(root, depth) ==
    IF profile = "production" THEN ExplainTrace(Records, lineage, root, depth)
                              ELSE EmbeddedExplain(Records, lineage, root, depth)

\* explain, of any record there is and to any depth, gives its neighborhood, or says
\* that it is truncated, and misses no record; the embedded kernel keeps to the
\* limit of nodes as well. It reads what is committed: where no transaction is under
\* way every such state is met.
ExplanationsTell ==
    (\A t \in Tx : pc[t] = "idle") =>
        \A root \in Records, depth \in 0..3 :
            LET told == Explanation(root, depth) IN
            /\ Tells(told, lineage, root, depth)
            /\ profile = "embedded" => Cardinality(told.nodes) <= MaxNodes

\* docs/EXPLAIN.md of both kernels: "Maximum returned nodes: 500".
NodesWithinLimit ==
    \A root \in Records, depth \in 0..3 : Cardinality(Explanation(root, depth).nodes) <= MaxNodes

=============================================================================
