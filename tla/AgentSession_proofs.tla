-------------------------- MODULE AgentSession_proofs --------------------------
(***************************************************************************)
(* Proofs about GenericAgency, and about the agents of AgentSession that   *)
(* use it, for any number of calls, sessions, workflows and runs.          *)
(***************************************************************************)
EXTENDS AgentSession, Explain_proofs

-----------------------------------------------------------------------------
(* The kernel's invariant *)

Entry  == [at : Nat, call : Call, final : BOOLEAN]
Effect == [workflow : Workflow, revision : Nat \ {0}, provider : ProviderKey,
           decision : Assertion, policy : Assertion, amount : Nat, at : Nat, call : Call]

\* f is a function.
IsTable(f) == f = [x \in DOMAIN f |-> f[x]]

RowType ==
    /\ profile \in Profiles
    /\ revision \in [Workflow -> Nat]
    /\ terminal \in [Workflow -> BOOLEAN]
    /\ history \in [Workflow -> Seq(Entry)]
    /\ effects \in SUBSET Effect /\ IsFiniteSet(effects)
    /\ IsTable(outcome) /\ DOMAIN outcome \subseteq effects
    /\ IsTable(artifacts)
    /\ opened \in [Assertion -> Nat \cup {None}]
    /\ closed \in [Assertion -> Nat \cup {None}]
    /\ lineage \in Seq(ToSet(lineage))
    /\ clock \in Nat
    /\ IsTable(intents) /\ \A c \in DOMAIN intents : c \in Call /\ intents[c] \in Operation

TxType ==
    /\ pc \in [Tx -> {"idle", "keyed", "locked", "timed"}]
    /\ stamp \in [Tx -> Nat]
    /\ serving \in [Tx -> [call : Call, op : Operation] \cup {None}]

Holds(t) == pc[t] \in {"locked", "timed"}

\* What a transaction has locked is its own, what it has checked stays so, and
\* the time it has taken is the next one.
TxInv ==
    /\ profile = "embedded" => \A t \in Tx : pc[t] = "idle"
    /\ \A t \in Tx :
        /\ pc[t] # "idle" => serving[t] \in [call : Call, op : Operation]
        /\ pc[t] = "timed" => stamp[t] = clock + 1 /\ \A u \in Tx : pc[u] = "timed" => u = t
        /\ Holds(t) => /\ Checked(serving[t].op)
                       /\ \A u \in Tx \ {t} : Holds(u) =>
                              Locks(serving[t].op) \cap Locks(serving[u].op) = {}

\* A workflow's history, its row and the clock.
HistoryInv ==
    \A w \in Workflow :
        /\ Len(history[w]) = revision[w]
        /\ \A r \in DOMAIN history[w] : history[w][r].at <= clock
        /\ \A r \in 2..revision[w] :
              history[w][r - 1].at < history[w][r].at /\ ~history[w][r - 1].final
        /\ revision[w] > 0 => terminal[w] = history[w][revision[w]].final
        /\ revision[w] = 0 => ~terminal[w]

\* What a call has entered or requested, it alone has, and it is known.
OnceInv ==
    /\ \A v, w \in Workflow : \A q \in DOMAIN history[v], r \in DOMAIN history[w] :
          history[v][q].call = history[w][r].call => v = w /\ q = r
    /\ \A d, e \in effects : d.call = e.call => d = e
    /\ \A w \in Workflow, e \in effects : \A r \in DOMAIN history[w] : history[w][r].call # e.call
    /\ \A w \in Workflow : \A r \in DOMAIN history[w] : Known(history[w][r].call)
    /\ \A e \in effects : Known(e.call)

BoundInv == EffectsAreBound /\ \A e \in effects : e.at <= clock

BudgetInv ==
    /\ BudgetFollowsEffects
    /\ profile = "production" => /\ reserved \in Nat /\ spent \in Nat
                                 /\ \A e \in effects : e.amount <= Limit

RowInv    == HistoryInv /\ OnceInv /\ BoundInv /\ BudgetInv /\ AnswersAreTrue
AgencyInv == RowType /\ TxType /\ TxInv /\ RowInv

-----------------------------------------------------------------------------
(* The session's invariant *)

\* An exchange is for a step of its run that no earlier one is missing before.
\* If it is the one the run waits for, it is for the step at which the run is.
Proper(x) ==
    /\ x.run \in Run
    /\ x.number \in 1..sent[x.run]
    /\ \E n \in DOMAIN script[x.run] :
        /\ x.key = Key(x.run, n) /\ x.op = script[x.run][n].op
        /\ x.op.op # "run_worker"
        /\ x.number = awaited[x.run] => at[x.run] = n
        /\ \A m \in 1..(n - 1) : StepDone(x.run, m)

\* A run has done the steps it has passed; it waits only for the step at which it
\* is; an answer it has is to what it asked or is not taken for it.
RunInv(r) ==
    /\ awaited[r] <= sent[r]
    /\ awaited[r] # 0 => Working(r) /\ ~OnWorker(r)
    /\ \A n \in 1..(at[r] - 1) : n \in DOMAIN script[r] => StepDone(r, n)
    /\ answer[r] # None =>
          /\ awaited[r] # 0
          /\ answer[r].verdict # "conflict"
          /\ Correlates(r) /\ answer[r].verdict = "ok" => StepDone(r, at[r])

\* What the hosts do is one of the scripts, and what they know is so.
HostInv ==
    /\ script \in Scripts
    /\ at \in [Run -> Nat] /\ awaited \in [Run -> Nat] /\ sent \in [Run -> Nat]
    /\ DOMAIN answer = Run
    /\ \A r \in Run : RunInv(r)

\* Exchanges under way are proper, a session serves the exchange it was given, and the
\* kernel knows only calls that are steps of a script whose earlier steps are done.
ExchangeInv ==
    /\ \A x \in pending : Proper(x)
    /\ DOMAIN peer = Tx
    /\ \A t \in Tx : pc[t] # "idle" => /\ Proper(peer[t])
                                       /\ serving[t] = [call |-> peer[t].key, op |-> peer[t].op]
    /\ \A c \in DOMAIN intents :
        \E r \in Run : \E n \in DOMAIN script[r] :
            /\ c = Key(r, n) /\ intents[c] = script[r][n].op
            /\ \A m \in 1..(n - 1) : StepDone(r, m)

-----------------------------------------------------------------------------
(* Tables, edges, histories *)

\* Adding a row to a table.
LEMMA WithFacts ==
    ASSUME NEW f, NEW x, NEW v
    PROVE  /\ IsTable(With(f, x, v))
           /\ DOMAIN With(f, x, v) = DOMAIN f \cup {x}
           /\ With(f, x, v)[x] = v
           /\ \A y \in DOMAIN f : y # x => With(f, x, v)[y] = f[y]
BY DEF With, IsTable

\* Inserting an edge.
LEMMA Inserted ==
    ASSUME NEW s, s \in Seq(ToSet(s)), NEW l
    PROVE  /\ InsertLink(s, l) \in Seq(ToSet(InsertLink(s, l)))
           /\ ToSet(InsertLink(s, l)) = ToSet(s) \cup {l}
<1>1. CASE l \in ToSet(s)
  BY <1>1 DEF InsertLink
<1>2. CASE l \notin ToSet(s)
  <2> DEFINE T == ToSet(s) \cup {l}
  <2>1. s \in Seq(T) /\ l \in T
    <3>1. ToSet(s) \subseteq T
      OBVIOUS
    <3> QED
      BY <3>1
  <2> HIDE DEF T
  <2>2. /\ Append(s, l) \in Seq(T) /\ DOMAIN s = 1..Len(s) /\ Len(s) \in Nat
        /\ DOMAIN Append(s, l) = 1..(Len(s) + 1)
        /\ Append(s, l)[Len(s) + 1] = l
        /\ \A i \in 1..Len(s) : Append(s, l)[i] = s[i]
    BY <2>1
  <2>3. ToSet(Append(s, l)) = ToSet(s) \cup {l}
    BY <2>2 DEF ToSet
  <2>4. InsertLink(s, l) = Append(s, l)
    BY <1>2 DEF InsertLink
  <2> QED
    BY <2>2, <2>3, <2>4 DEF T
<1> QED
  BY <1>1, <1>2

\* Entering the next revision.
LEMMA EnterFacts ==
    ASSUME RowType, HistoryInv, NEW w \in Workflow, NEW t \in Nat, NEW call \in Call,
           NEW final \in BOOLEAN, EnterRevision(w, revision[w] + 1, t, call, final)
    PROVE  LET new == [at |-> t, call |-> call, final |-> final]
               r   == revision[w] + 1
           IN
           /\ revision' \in [Workflow -> Nat]
           /\ terminal' \in [Workflow -> BOOLEAN]
           /\ history' \in [Workflow -> Seq(Entry)]
           /\ \A v \in Workflow : v # w => /\ history'[v] = history[v]
                                           /\ revision'[v] = revision[v]
                                           /\ terminal'[v] = terminal[v]
           /\ revision'[w] = r /\ terminal'[w] = final
           /\ Len(history'[w]) = r
           /\ DOMAIN history[w] = 1..revision[w] /\ DOMAIN history'[w] = 1..r
           /\ history'[w][r] = new
           /\ \A q \in DOMAIN history[w] : history'[w][q] = history[w][q]
<1> DEFINE new == [at |-> t, call |-> call, final |-> final]
<1>1. new \in Entry /\ revision[w] \in Nat /\ history[w] \in Seq(Entry) /\ Len(history[w]) = revision[w]
  BY DEF RowType, HistoryInv, Entry
<1> HIDE DEF new
<1>2. /\ history' = [history EXCEPT ![w] = Append(history[w], new)]
      /\ revision' = [revision EXCEPT ![w] = revision[w] + 1]
      /\ terminal' = [terminal EXCEPT ![w] = final]
  BY DEF EnterRevision, new
<1>3. /\ Append(history[w], new) \in Seq(Entry)
      /\ Len(Append(history[w], new)) = revision[w] + 1
      /\ DOMAIN history[w] = 1..revision[w]
      /\ DOMAIN Append(history[w], new) = 1..(revision[w] + 1)
      /\ Append(history[w], new)[revision[w] + 1] = new
      /\ \A q \in 1..revision[w] : Append(history[w], new)[q] = history[w][q]
  BY <1>1
<1>4. history \in [Workflow -> Seq(Entry)] /\ revision \in [Workflow -> Nat] /\ terminal \in [Workflow -> BOOLEAN]
  BY DEF RowType
<1>5. history' \in [Workflow -> Seq(Entry)] /\ history'[w] = Append(history[w], new)
  BY <1>2, <1>3, <1>4
<1> QED
  BY <1>1, <1>2, <1>3, <1>4, <1>5 DEF new

-----------------------------------------------------------------------------
(* What a step does to the rows *)

\* An operation is carried out.
Serves(o, t, call) ==
    /\ call \in Call /\ o \in Operation /\ ~Known(call)
    /\ t = clock + 1 /\ clock' = t
    /\ Checked(o)
    /\ Perform(o, t, call)
    /\ Remember(call, o)
    /\ UNCHANGED profile

\* An effect is settled.
Settles(e, status) ==
    /\ profile = "production"
    /\ e \in effects \ DOMAIN outcome
    /\ outcome'  = With(outcome, e, status)
    /\ reserved' = reserved - e.amount
    /\ spent'    = IF status = "succeeded" THEN spent + e.amount ELSE spent
    /\ UNCHANGED <<profile, machineRows, effects, knowledgeRows, clock, intents>>

\* A step carries out an operation, settles an effect, or leaves the rows as they are.
LEMMA RowSteps ==
    ASSUME RowType, TxType, TxInv, [Next]_vars
    PROVE  \/ \E o \in Operation, call \in Call : Serves(o, clock + 1, call)
           \/ \E e \in effects, status \in {"succeeded", "failed"} : Settles(e, status)
           \/ UNCHANGED <<profile, rows>>
<1>1. ASSUME NEW t \in Tx, Commit(t)
      PROVE  \E o \in Operation, call \in Call : Serves(o, clock + 1, call)
  <2>1. /\ pc[t] = "timed" /\ serving[t] \in [call : Call, op : Operation]
        /\ stamp[t] = clock + 1 /\ Checked(serving[t].op)
    BY <1>1 DEF Commit, TxInv, Holds
  <2>2. Serves(serving[t].op, clock + 1, serving[t].call)
    BY <1>1, <2>1 DEF Commit, Serves
  <2> QED
    BY <2>1, <2>2
<1>2. ASSUME NEW call \in Call, NEW o \in Operation, ExecuteIntent(call, o)
      PROVE  \E oo \in Operation, c \in Call : Serves(oo, clock + 1, c)
  BY <1>2 DEF ExecuteIntent, Serves
<1>3. ASSUME NEW e \in effects, NEW s \in {"succeeded", "failed"}, Settle(e, s)
      PROVE  Settles(e, s)
  BY <1>3 DEF Settle, Settles
<1>4. ASSUME \/ \E c \in Call : Replay(c)
             \/ \E c \in Call, o \in Operation, t \in Tx : Begin(t, c, o)
             \/ \E t \in Tx : LockRows(t) \/ TakeTime(t) \/ Abort(t)
             \/ UNCHANGED vars
      PROVE  UNCHANGED <<profile, rows>>
  BY <1>4 DEF Replay, Begin, LockRows, TakeTime, Abort, vars
<1> QED
  BY <1>1, <1>2, <1>3, <1>4 DEF Next

\* A workflow enters its next revision.
Enters(w, t, call, final) ==
    /\ ~terminal[w]
    /\ EnterRevision(w, revision[w] + 1, t, call, final)
    /\ UNCHANGED <<effectRows, knowledgeRows>>

\* The operations, by what they change.
LEMMA ServeCases ==
    ASSUME RowType, HistoryInv, NEW o, NEW t, NEW call, Serves(o, t, call)
    PROVE  \/ \E w \in Workflow, final \in BOOLEAN : Enters(w, t, call, final)
           \/ UNCHANGED <<machineRows, effectRows, knowledgeRows>>
           \/ /\ o \in Operations("request_effect") /\ RequestEffect(o, t, call)
              /\ AtRevision(o.workflow, o.expected)
           \/ PutArtifact(o)
           \/ o \in Operations("assert") /\ PutAssertion(o, t)
           \/ AddLineage(o, t)
           \/ RecordEffectOutcome(o)
<1>1. CASE o.op = "create_workflow" /\ CreateWorkflow(o, t, call)
  <2>1. o.workflow \in Workflow /\ ~terminal[o.workflow] /\ revision[o.workflow] + 1 = 1
    <3>1. o \in Operations("create_workflow")
      BY <1>1 DEF Serves, Operations
    <3>2. o.workflow \in Workflow
      BY <3>1, AgencyAssumption
    <3> QED
      BY <1>1, <3>2 DEF CreateWorkflow, HistoryInv, RowType
  <2>2. Enters(o.workflow, t, call, FALSE)
    BY <1>1, <2>1 DEF CreateWorkflow, Enters
  <2> QED
    BY <2>1, <2>2
<1>2. CASE o.op = "advance_workflow" /\ AdvanceWorkflow(o, t, call)
  <2>1. /\ o.workflow \in Workflow /\ o.terminal \in BOOLEAN
        /\ ~terminal[o.workflow] /\ revision[o.workflow] = o.expected
    BY <1>2, AgencyAssumption DEF Serves, Operations, AdvanceWorkflow, AtRevision
  <2>2. Enters(o.workflow, t, call, o.terminal)
    BY <1>2, <2>1 DEF AdvanceWorkflow, Enters
  <2> QED
    BY <2>1, <2>2
<1>3. CASE o.op = "request_effect" /\ ReplayEffect(o)
  BY <1>3 DEF ReplayEffect
<1>4. CASE o.op = "request_effect" /\ RequestEffect(o, t, call)
  <2>1. Checked(o) /\ Under(o.provider) = {}
    BY <1>4 DEF Serves, RequestEffect
  <2> QED
    BY <1>4, <2>1 DEF Checked, Serves, Operations
<1>5. CASE o.op = "assert" /\ PutAssertion(o, t)
  BY <1>5 DEF Serves, Operations
<1> QED
  BY <1>1, <1>2, <1>3, <1>4, <1>5 DEF Serves, Perform

\* The effect that a request adds.
Requested(o, t, call) ==
    [workflow |-> o.workflow, revision |-> o.expected, provider |-> o.provider,
     decision |-> o.decision, policy |-> o.policy, amount |-> o.amount, at |-> t, call |-> call]

\* The edges that a request adds.
EdgesOf(e) == {Link("authorizes", AssertionNode(e.decision), EffectNode(e)),
               Link("governs", AssertionNode(e.policy), EffectNode(e)),
               Link("produces", RevisionNode(e.workflow, e.revision), EffectNode(e))}

\* What a request for a new effect adds.
LEMMA RequestFacts ==
    ASSUME RowType, NEW t \in Nat, NEW call \in Call, NEW o \in Operations("request_effect"),
           RequestEffect(o, t, call)
    PROVE  LET e == Requested(o, t, call) IN
           /\ e \in Effect /\ e \notin effects
           /\ effects' = effects \cup {e}
           /\ \A d \in effects : d.provider # e.provider /\ EffectNode(d) # EffectNode(e)
           /\ Current(e.decision, "decision", t) /\ Current(e.policy, "directive", t)
           /\ Charge(e.amount)
           /\ ToSet(lineage') = ToSet(lineage) \cup EdgesOf(e)
           /\ lineage' \in Seq(ToSet(lineage'))
           /\ UNCHANGED <<machineRows, outcome, spent, artifacts, opened, closed>>
<1> DEFINE e == Requested(o, t, call)
<1>0. e \in Effect
  BY AgencyAssumption DEF Requested, Effect, Operations
<1>1. /\ Under(o.provider) = {} /\ effects' = effects \cup {e}
      /\ \A d \in effects : EffectNode(d) # EffectNode(e)
      /\ Current(o.decision, "decision", t) /\ Current(o.policy, "directive", t)
      /\ Charge(o.amount)
      /\ UNCHANGED <<machineRows, outcome, spent, artifacts, opened, closed>>
      /\ lineage' =
          LET authorized == InsertLink(lineage,
                                Link("authorizes", AssertionNode(o.decision), EffectNode(e)))
              governed   == InsertLink(authorized,
                                Link("governs", AssertionNode(o.policy), EffectNode(e)))
          IN InsertLink(governed,
                        Link("produces", RevisionNode(o.workflow, o.expected), EffectNode(e)))
  BY DEF RequestEffect, Requested
<1>2. /\ e.decision = o.decision /\ e.policy = o.policy /\ e.amount = o.amount
      /\ e.workflow = o.workflow /\ e.revision = o.expected /\ e.provider = o.provider
  BY DEF Requested
<1> HIDE DEF e
<1>3. \A d \in effects : d.provider # e.provider
  BY <1>1, <1>2 DEF Under
<1>4. lineage' \in Seq(ToSet(lineage')) /\ ToSet(lineage') = ToSet(lineage) \cup EdgesOf(e)
  <2> DEFINE l1 == Link("authorizes", AssertionNode(e.decision), EffectNode(e))
             l2 == Link("governs", AssertionNode(e.policy), EffectNode(e))
             l3 == Link("produces", RevisionNode(e.workflow, e.revision), EffectNode(e))
             s1 == InsertLink(lineage, l1)
             s2 == InsertLink(s1, l2)
             s3 == InsertLink(s2, l3)
  <2>1. lineage' = s3
    BY <1>1, <1>2
  <2>2. EdgesOf(e) = {l1, l2, l3}
    BY DEF EdgesOf
  <2>3. lineage \in Seq(ToSet(lineage))
    BY DEF RowType
  <2> HIDE DEF l1, l2, l3
  <2>4. s1 \in Seq(ToSet(s1)) /\ ToSet(s1) = ToSet(lineage) \cup {l1}
    BY <2>3, Inserted
  <2> HIDE DEF s1
  <2>5. s2 \in Seq(ToSet(s2)) /\ ToSet(s2) = ToSet(s1) \cup {l2}
    BY <2>4, Inserted
  <2> HIDE DEF s2
  <2>6. s3 \in Seq(ToSet(s3)) /\ ToSet(s3) = ToSet(s2) \cup {l3}
    BY <2>5, Inserted
  <2> HIDE DEF s3
  <2> QED
    BY <2>1, <2>2, <2>4, <2>5, <2>6
<1>5. e \notin effects
  BY <1>3
<1> QED
  BY <1>0, <1>1, <1>2, <1>3, <1>4, <1>5 DEF e

\* The outcomes that a settlement or a report adds.
LEMMA OutcomeFacts ==
    ASSUME RowType, NEW e \in effects, NEW s, outcome' = With(outcome, e, s),
           e \in DOMAIN outcome => outcome[e] = s
    PROVE  /\ IsTable(outcome') /\ DOMAIN outcome' = DOMAIN outcome \cup {e}
           /\ outcome'[e] = s /\ \A d \in DOMAIN outcome : outcome'[d] = outcome[d]
BY DEF With, IsTable

\* Rows keep their types.
LEMMA StepRowType ==
    ASSUME RowType, TxType, TxInv, HistoryInv, [Next]_vars
    PROVE  RowType'
<1>0. /\ profile \in Profiles
      /\ revision \in [Workflow -> Nat] /\ terminal \in [Workflow -> BOOLEAN]
      /\ history \in [Workflow -> Seq(Entry)]
      /\ effects \in SUBSET Effect /\ IsFiniteSet(effects)
      /\ IsTable(outcome) /\ DOMAIN outcome \subseteq effects
      /\ IsTable(artifacts)
      /\ opened \in [Assertion -> Nat \cup {None}]
      /\ closed \in [Assertion -> Nat \cup {None}]
      /\ lineage \in Seq(ToSet(lineage))
      /\ clock \in Nat
      /\ IsTable(intents) /\ \A c \in DOMAIN intents : c \in Call /\ intents[c] \in Operation
  BY DEF RowType
<1>1. ASSUME UNCHANGED <<profile, rows>>
      PROVE  RowType'
  BY <1>0, <1>1 DEF RowType, IsTable, rows, machineRows, effectRows, knowledgeRows
<1>2. ASSUME NEW e \in effects, NEW s, Settles(e, s)
      PROVE  RowType'
  <2>1. /\ e \notin DOMAIN outcome /\ outcome' = With(outcome, e, s)
        /\ UNCHANGED <<profile, revision, terminal, history, effects, artifacts, opened, closed,
                       lineage, clock, intents>>
    BY <1>2 DEF Settles, machineRows, knowledgeRows
  <2>2. IsTable(outcome') /\ DOMAIN outcome' \subseteq effects
    BY <1>0, <2>1, OutcomeFacts
  <2> QED
    BY <1>0, <2>1, <2>2 DEF RowType, IsTable
<1>3. ASSUME NEW o \in Operation, NEW call \in Call, Serves(o, clock + 1, call)
      PROVE  RowType'
  <2> DEFINE t == clock + 1
  <2>0. t \in Nat
    BY <1>0
  <2>1. /\ clock' \in Nat /\ profile' \in Profiles
        /\ IsTable(intents)'
        /\ \A c \in DOMAIN intents' : c \in Call /\ intents'[c] \in Operation
    <3>1. intents' = With(intents, call, o) /\ clock' = t /\ profile' = profile
      BY <1>3 DEF Serves, Remember
    <3>2. IsTable(intents) /\ IsTable(intents')
      BY <1>0, <3>1, WithFacts
    <3>3. \A c \in DOMAIN intents' : c \in Call /\ intents'[c] \in Operation
      BY <1>0, <3>1 DEF With
    <3> QED
      BY <1>0, <2>0, <3>1, <3>2, <3>3 DEF IsTable
  <2> HIDE DEF t
  <2>2. ASSUME NEW w \in Workflow, NEW final \in BOOLEAN, Enters(w, t, call, final)
        PROVE  RowType'
    <3>1. /\ revision' \in [Workflow -> Nat] /\ terminal' \in [Workflow -> BOOLEAN]
          /\ history' \in [Workflow -> Seq(Entry)]
      BY <2>0, <2>2, EnterFacts DEF Enters
    <3>2. UNCHANGED <<effects, outcome, artifacts, opened, closed, lineage>>
      BY <2>2 DEF Enters, effectRows, knowledgeRows
    <3> QED
      BY <1>0, <2>1, <3>1, <3>2 DEF RowType, IsTable
  <2>3. CASE UNCHANGED <<machineRows, effectRows, knowledgeRows>>
    BY <1>0, <2>1, <2>3 DEF RowType, IsTable, machineRows, effectRows, knowledgeRows
  <2>4. CASE o \in Operations("request_effect") /\ RequestEffect(o, t, call)
    <3>1. PICK e \in Effect :
             /\ effects' = effects \cup {e} /\ lineage' \in Seq(ToSet(lineage'))
             /\ UNCHANGED <<revision, terminal, history, outcome, artifacts, opened, closed>>
      BY <2>0, <2>4, RequestFacts DEF machineRows
    <3>2. effects' \in SUBSET Effect /\ IsFiniteSet(effects') /\ DOMAIN outcome' \subseteq effects'
      BY <1>0, <3>1, FS_AddElement
    <3> QED
      BY <1>0, <2>1, <3>1, <3>2 DEF RowType, IsTable
  <2>5. CASE PutArtifact(o)
    <3>1. /\ artifacts' = With(artifacts, o.artifact, o.content)
          /\ UNCHANGED <<revision, terminal, history, effects, outcome, opened, closed, lineage>>
      BY <2>5 DEF PutArtifact, machineRows, effectRows
    <3>2. IsTable(artifacts')
      BY <3>1, WithFacts
    <3> QED
      BY <1>0, <2>1, <3>1, <3>2 DEF RowType, IsTable
  <2>6. CASE o \in Operations("assert") /\ PutAssertion(o, t)
    <3>1. /\ opened' = [opened EXCEPT ![o.assertion] = t]
          /\ closed' = [a \in Assertion |-> IF a = o.supersedes THEN t ELSE closed[a]]
          /\ lineage' = lineage \/ \E l : lineage' = InsertLink(lineage, l)
          /\ UNCHANGED <<revision, terminal, history, effects, outcome, artifacts>>
      BY <2>6 DEF PutAssertion, machineRows, effectRows
    <3>2. opened' \in [Assertion -> Nat \cup {None}] /\ closed' \in [Assertion -> Nat \cup {None}]
      BY <1>0, <2>0, <3>1
    <3>3. lineage' \in Seq(ToSet(lineage'))
      BY <1>0, <3>1, Inserted
    <3> QED
      BY <1>0, <2>1, <3>1, <3>2, <3>3 DEF RowType, IsTable
  <2>7. CASE AddLineage(o, t)
    <3>1. /\ lineage' = InsertLink(lineage, Link(o.relation, o.from, o.to))
          /\ UNCHANGED <<revision, terminal, history, effects, outcome, artifacts, opened, closed>>
      BY <2>7 DEF AddLineage, machineRows, effectRows
    <3>2. lineage' \in Seq(ToSet(lineage'))
      BY <1>0, <3>1, Inserted
    <3> QED
      BY <1>0, <2>1, <3>1, <3>2 DEF RowType, IsTable
  <2>8. CASE RecordEffectOutcome(o)
    <3>1. PICK e \in effects :
             /\ e \in DOMAIN outcome => outcome[e] = o.status
             /\ outcome' = With(outcome, e, o.status)
             /\ UNCHANGED <<revision, terminal, history, effects, artifacts, opened, closed, lineage>>
      BY <2>8 DEF RecordEffectOutcome, machineRows, knowledgeRows
    <3>2. IsTable(outcome') /\ DOMAIN outcome' \subseteq effects
      BY <1>0, <3>1, OutcomeFacts
    <3> QED
      BY <1>0, <2>1, <3>1, <3>2 DEF RowType, IsTable
  <2> QED
    BY <1>3, <2>2, <2>3, <2>4, <2>5, <2>6, <2>7, <2>8, ServeCases DEF t
<1> QED
  BY <1>1, <1>2, <1>3, RowSteps

-----------------------------------------------------------------------------
(* Histories, and what a call has left *)

\* A step enters a revision, requests an effect, or does neither.
LEMMA MarkSteps ==
    ASSUME RowType, TxType, TxInv, HistoryInv, [Next]_vars
    PROVE  \/ \E w \in Workflow, final \in BOOLEAN, call \in Call :
                 /\ ~Known(call) /\ clock' = clock + 1
                 /\ DOMAIN intents' = DOMAIN intents \cup {call}
                 /\ Enters(w, clock + 1, call, final)
           \/ \E e \in Effect :
                 /\ ~Known(e.call) /\ e.at = clock + 1 /\ clock' = clock + 1
                 /\ DOMAIN intents' = DOMAIN intents \cup {e.call}
                 /\ effects' = effects \cup {e}
                 /\ ToSet(lineage') = ToSet(lineage) \cup EdgesOf(e)
                 /\ AtRevision(e.workflow, e.revision)
                 /\ Current(e.decision, "decision", e.at) /\ Current(e.policy, "directive", e.at)
                 /\ \A d \in effects : d.provider # e.provider
                 /\ UNCHANGED <<machineRows, artifacts, opened, closed>>
           \/ /\ clock' \in {clock, clock + 1}
              /\ DOMAIN intents \subseteq DOMAIN intents'
              /\ UNCHANGED <<machineRows, effects>>
<1>0. clock \in Nat
  BY DEF RowType
<1>1. ASSUME NEW o \in Operation, NEW call \in Call, Serves(o, clock + 1, call)
      PROVE  /\ ~Known(call) /\ clock' = clock + 1
             /\ DOMAIN intents' = DOMAIN intents \cup {call}
  BY <1>1, WithFacts DEF Serves, Remember
<1>2. ASSUME NEW o \in Operation, NEW call \in Call, Serves(o, clock + 1, call),
             o \in Operations("request_effect"), RequestEffect(o, clock + 1, call),
             AtRevision(o.workflow, o.expected)
      PROVE  \E e \in Effect :
                 /\ ~Known(e.call) /\ e.at = clock + 1 /\ clock' = clock + 1
                 /\ DOMAIN intents' = DOMAIN intents \cup {e.call}
                 /\ effects' = effects \cup {e}
                 /\ ToSet(lineage') = ToSet(lineage) \cup EdgesOf(e)
                 /\ AtRevision(e.workflow, e.revision)
                 /\ Current(e.decision, "decision", e.at) /\ Current(e.policy, "directive", e.at)
                 /\ \A d \in effects : d.provider # e.provider
                 /\ UNCHANGED <<machineRows, artifacts, opened, closed>>
  <2> DEFINE e == Requested(o, clock + 1, call)
  <2>1. e.call = call /\ e.at = clock + 1 /\ e.workflow = o.workflow /\ e.revision = o.expected
    BY DEF Requested
  <2>2. /\ e \in Effect /\ effects' = effects \cup {e}
        /\ ToSet(lineage') = ToSet(lineage) \cup EdgesOf(e)
        /\ Current(e.decision, "decision", clock + 1) /\ Current(e.policy, "directive", clock + 1)
        /\ \A d \in effects : d.provider # e.provider
        /\ UNCHANGED <<machineRows, artifacts, opened, closed>>
    BY <1>0, <1>2, RequestFacts
  <2> HIDE DEF e
  <2> QED
    BY <1>1, <1>2, <2>1, <2>2
<1>3. ASSUME NEW o \in Operation, NEW call \in Call, Serves(o, clock + 1, call),
             \/ UNCHANGED <<machineRows, effectRows, knowledgeRows>>
             \/ PutArtifact(o) \/ PutAssertion(o, clock + 1) \/ AddLineage(o, clock + 1)
             \/ RecordEffectOutcome(o)
      PROVE  UNCHANGED <<machineRows, effects>>
  BY <1>3 DEF PutArtifact, PutAssertion, AddLineage, RecordEffectOutcome, effectRows
<1>4. ASSUME NEW o \in Operation, NEW call \in Call, Serves(o, clock + 1, call)
      PROVE  \/ \E w \in Workflow, final \in BOOLEAN : Enters(w, clock + 1, call, final)
             \/ /\ o \in Operations("request_effect") /\ RequestEffect(o, clock + 1, call)
                /\ AtRevision(o.workflow, o.expected)
             \/ UNCHANGED <<machineRows, effects>>
  BY <1>3, <1>4, ServeCases
<1>5. ASSUME NEW e \in effects, NEW s, Settles(e, s)
      PROVE  UNCHANGED <<machineRows, effects, clock, intents>>
  BY <1>5 DEF Settles
<1>6. ASSUME UNCHANGED <<profile, rows>>
      PROVE  UNCHANGED <<machineRows, effects, clock, intents>>
  BY <1>6 DEF rows, effectRows
<1>7. \/ \E o \in Operation, call \in Call : Serves(o, clock + 1, call)
      \/ UNCHANGED <<machineRows, effects, clock, intents>>
  BY <1>5, <1>6, RowSteps
<1>8. CASE UNCHANGED <<machineRows, effects, clock, intents>>
  BY <1>8
<1>9. ASSUME NEW o \in Operation, NEW call \in Call, Serves(o, clock + 1, call)
      PROVE  \/ \E w \in Workflow, final \in BOOLEAN, c \in Call :
                   /\ ~Known(c) /\ clock' = clock + 1
                   /\ DOMAIN intents' = DOMAIN intents \cup {c}
                   /\ Enters(w, clock + 1, c, final)
             \/ \E e \in Effect :
                   /\ ~Known(e.call) /\ e.at = clock + 1 /\ clock' = clock + 1
                   /\ DOMAIN intents' = DOMAIN intents \cup {e.call}
                   /\ effects' = effects \cup {e}
                   /\ ToSet(lineage') = ToSet(lineage) \cup EdgesOf(e)
                   /\ AtRevision(e.workflow, e.revision)
                   /\ Current(e.decision, "decision", e.at) /\ Current(e.policy, "directive", e.at)
                   /\ \A d \in effects : d.provider # e.provider
                   /\ UNCHANGED <<machineRows, artifacts, opened, closed>>
             \/ /\ clock' \in {clock, clock + 1}
                /\ DOMAIN intents \subseteq DOMAIN intents'
                /\ UNCHANGED <<machineRows, effects>>
  <2>1. CASE \E w \in Workflow, final \in BOOLEAN : Enters(w, clock + 1, call, final)
    <3>1. PICK w \in Workflow, final \in BOOLEAN : Enters(w, clock + 1, call, final)
      BY <2>1
    <3> QED
      BY <1>1, <1>9, <3>1
  <2>2. CASE /\ o \in Operations("request_effect") /\ RequestEffect(o, clock + 1, call)
             /\ AtRevision(o.workflow, o.expected)
    BY <1>2, <1>9, <2>2
  <2>3. CASE UNCHANGED <<machineRows, effects>>
    BY <1>1, <1>9, <2>3
  <2> QED
    BY <1>4, <1>9, <2>1, <2>2, <2>3
<1> QED
  BY <1>7, <1>8, <1>9

\* The entries of a history.
LEMMA Entries ==
    ASSUME RowType, NEW w \in Workflow, NEW r \in DOMAIN history[w]
    PROVE  /\ history[w][r] \in Entry
           /\ history[w][r].at \in Nat /\ history[w][r].call \in Call /\ history[w][r].final \in BOOLEAN
<1>1. history[w] \in Seq(Entry)
  BY DEF RowType
<1>2. history[w][r] \in Entry
  BY <1>1
<1> QED
  BY <1>2 DEF Entry

\* Histories stay without gaps, in order of time, and end at a terminal revision.
LEMMA StepHistory ==
    ASSUME RowType, TxType, TxInv, HistoryInv, [Next]_vars
    PROVE  HistoryInv'
<1>0. clock \in Nat /\ revision \in [Workflow -> Nat] /\ history \in [Workflow -> Seq(Entry)]
  BY DEF RowType
<1>1. ASSUME NEW w \in Workflow, NEW final \in BOOLEAN, NEW call \in Call,
             clock' = clock + 1, Enters(w, clock + 1, call, final)
      PROVE  HistoryInv'
  <2> DEFINE t == clock + 1
             r == revision[w] + 1
             new == [at |-> t, call |-> call, final |-> final]
  <2>1. /\ \A v \in Workflow : v # w => /\ history'[v] = history[v]
                                        /\ revision'[v] = revision[v]
                                        /\ terminal'[v] = terminal[v]
        /\ revision'[w] = r /\ terminal'[w] = final
        /\ Len(history'[w]) = r
        /\ DOMAIN history[w] = 1..revision[w] /\ DOMAIN history'[w] = 1..r
        /\ history'[w][r] = new
        /\ \A q \in DOMAIN history[w] : history'[w][q] = history[w][q]
        /\ ~terminal[w]
    <3>1. clock + 1 \in Nat
      BY <1>0
    <3> QED
      BY <1>1, <3>1, EnterFacts DEF Enters
  <2>2. ASSUME NEW v \in Workflow, v # w
        PROVE  /\ Len(history'[v]) = revision'[v]
               /\ \A q \in DOMAIN history'[v] : history'[v][q].at <= clock'
               /\ \A q \in 2..revision'[v] :
                     history'[v][q - 1].at < history'[v][q].at /\ ~history'[v][q - 1].final
               /\ revision'[v] > 0 => terminal'[v] = history'[v][revision'[v]].final
               /\ revision'[v] = 0 => ~terminal'[v]
    <3>1. \A q \in DOMAIN history[v] : history[v][q].at \in Nat
      BY Entries
    <3> QED
      BY <1>0, <1>1, <2>1, <2>2, <3>1 DEF HistoryInv
  <2>3. new.at = t /\ new.final = final /\ revision[w] \in Nat
    BY <1>0
  <2> HIDE DEF new
  <2>4. \A q \in 1..revision[w] : history[w][q].at \in Nat /\ history[w][q].at <= clock
    BY <2>1, Entries DEF HistoryInv
  <2>5. ASSUME NEW q \in 2..r
        PROVE  history'[w][q - 1].at < history'[w][q].at /\ ~history'[w][q - 1].final
    <3>0. q \in 1..r /\ q - 1 \in 1..revision[w] /\ history'[w][q - 1] = history[w][q - 1]
      BY <2>1, <2>3
    <3>1. CASE q = r
      <4>1. revision[w] > 0 /\ q - 1 = revision[w]
        BY <2>3, <3>0, <3>1
      <4>2. ~history[w][q - 1].final
        BY <2>1, <4>1 DEF HistoryInv
      <4> QED
        BY <1>0, <2>1, <2>3, <2>4, <3>0, <3>1, <4>2
    <3>2. CASE q # r
      <4>1. q \in 2..revision[w] /\ history'[w][q] = history[w][q]
        BY <2>1, <2>3, <3>2
      <4> QED
        BY <3>0, <4>1 DEF HistoryInv
    <3> QED
      BY <3>1, <3>2
  <2>6. ASSUME NEW q \in 1..r
        PROVE  history'[w][q].at <= clock'
    <3>1. CASE q = r
      BY <1>0, <1>1, <2>1, <2>3, <3>1
    <3>2. CASE q # r
      <4>1. q \in 1..revision[w] /\ history'[w][q] = history[w][q]
        BY <2>1, <2>3, <3>2
      <4> QED
        BY <1>0, <1>1, <2>4, <4>1
    <3> QED
      BY <3>1, <3>2
  <2>7. /\ Len(history'[w]) = revision'[w] /\ terminal'[w] = history'[w][revision'[w]].final
        /\ revision'[w] # 0
    BY <2>1, <2>3
  <2> HIDE DEF r
  <2>8. /\ \A q \in DOMAIN history'[w] : history'[w][q].at <= clock'
        /\ \A q \in 2..revision'[w] :
                     history'[w][q - 1].at < history'[w][q].at /\ ~history'[w][q - 1].final
    BY <2>1, <2>5, <2>6
  <2> QED
    BY <2>2, <2>7, <2>8 DEF HistoryInv
<1>2. ASSUME clock' \in {clock, clock + 1}, UNCHANGED machineRows
      PROVE  HistoryInv'
  <2>1. \A v \in Workflow : \A q \in DOMAIN history[v] : history[v][q].at <= clock'
    BY <1>0, <1>2, Entries DEF HistoryInv
  <2> QED
    BY <1>2, <2>1 DEF HistoryInv, machineRows
<1> QED
  BY <1>1, <1>2, MarkSteps

\* A call acts once.
LEMMA StepOnce ==
    ASSUME RowType, TxType, TxInv, HistoryInv, OnceInv, [Next]_vars
    PROVE  OnceInv'
<1>0. clock \in Nat
  BY DEF RowType
<1>1. ASSUME NEW w \in Workflow, NEW final \in BOOLEAN, NEW call \in Call,
             ~Known(call), DOMAIN intents' = DOMAIN intents \cup {call},
             Enters(w, clock + 1, call, final)
      PROVE  OnceInv'
  <2> DEFINE r == revision[w] + 1
  <2>1. /\ \A v \in Workflow : v # w => history'[v] = history[v]
        /\ DOMAIN history[w] = 1..revision[w] /\ DOMAIN history'[w] = 1..r
        /\ history'[w][r].call = call
        /\ \A q \in DOMAIN history[w] : history'[w][q] = history[w][q]
        /\ revision[w] \in Nat
    <3>1. clock + 1 \in Nat /\ revision[w] \in Nat
      BY <1>0 DEF RowType
    <3>2. /\ \A v \in Workflow : v # w => history'[v] = history[v]
          /\ DOMAIN history[w] = 1..revision[w] /\ DOMAIN history'[w] = 1..r
          /\ history'[w][r] = [at |-> clock + 1, call |-> call, final |-> final]
          /\ \A q \in DOMAIN history[w] : history'[w][q] = history[w][q]
      BY <1>1, <3>1, EnterFacts DEF Enters
    <3> QED
      BY <3>1, <3>2
  <2>2. UNCHANGED effects
    BY <1>1 DEF Enters, effectRows
  <2>3. ASSUME NEW v \in Workflow, NEW q \in DOMAIN history'[v]
        PROVE  \/ q \in DOMAIN history[v] /\ history'[v][q].call = history[v][q].call
               \/ v = w /\ q = r /\ history'[v][q].call = call
    BY <2>1, <2>3
  <2> HIDE DEF r
  <2>4. /\ \A v \in Workflow : \A q \in DOMAIN history[v] : history[v][q].call # call
        /\ \A e \in effects : e.call # call
    BY <1>1 DEF OnceInv
  <2>5. \A v \in Workflow : \A q \in DOMAIN history'[v] : history'[v][q].call \in DOMAIN intents'
    BY <1>1, <2>3 DEF OnceInv, Known
  <2>6. ASSUME NEW u \in Workflow, NEW v \in Workflow,
               NEW p \in DOMAIN history'[u], NEW q \in DOMAIN history'[v],
               history'[u][p].call = history'[v][q].call
        PROVE  u = v /\ p = q
    <3>1. CASE p \in DOMAIN history[u] /\ history'[u][p].call = history[u][p].call
      <4>1. history'[v][q].call # call
        BY <2>4, <2>6, <3>1
      <4>2. q \in DOMAIN history[v] /\ history'[v][q].call = history[v][q].call
        BY <2>3, <4>1
      <4> QED
        <5>1. history[u][p].call = history[v][q].call
          BY <2>6, <3>1, <4>2
        <5>2. \A x, y \in Workflow : \A i \in DOMAIN history[x], j \in DOMAIN history[y] :
                 history[x][i].call = history[y][j].call => x = y /\ i = j
          BY DEF OnceInv
        <5> QED
          BY <3>1, <4>2, <5>1, <5>2
    <3>2. CASE u = w /\ p = r /\ history'[u][p].call = call
      BY <2>3, <2>4, <2>6, <3>2
    <3> QED
      BY <2>3, <3>1, <3>2
  <2>7. \A v \in Workflow, e \in effects : \A q \in DOMAIN history'[v] : history'[v][q].call # e.call
    BY <2>3, <2>4 DEF OnceInv
  <2> QED
    BY <1>1, <2>2, <2>5, <2>6, <2>7 DEF OnceInv, Known
<1>2. ASSUME NEW e \in Effect, ~Known(e.call), DOMAIN intents' = DOMAIN intents \cup {e.call},
             effects' = effects \cup {e}, UNCHANGED machineRows
      PROVE  OnceInv'
  BY <1>2 DEF OnceInv, Known, machineRows
<1>3. ASSUME DOMAIN intents \subseteq DOMAIN intents', UNCHANGED <<machineRows, effects>>
      PROVE  OnceInv'
  BY <1>3 DEF OnceInv, Known, machineRows
<1> QED
  BY <1>1, <1>2, <1>3, MarkSteps

-----------------------------------------------------------------------------
(* What is there stays *)

\* f has been added to.
Extended(f, g) == \A x \in DOMAIN f : x \in DOMAIN g /\ g[x] = f[x]

\* A table is added to by nothing, or by a row that is new or the same.
LEMMA ExtendedFacts ==
    /\ \A f : Extended(f, f)
    /\ \A f, x, v : (x \in DOMAIN f => f[x] = v) => Extended(f, With(f, x, v))
BY DEF Extended, With

RowsGrow ==
    /\ \A w \in Workflow : Extended(history[w], history'[w])
    /\ effects \subseteq effects'
    /\ Extended(outcome, outcome') /\ Extended(artifacts, artifacts') /\ Extended(intents, intents')
    /\ \A a \in Assertion :
        /\ opened[a] # None => opened'[a] = opened[a]
        /\ closed'[a] # closed[a] => closed[a] = None /\ closed'[a] = clock + 1

LineageGrows ==
    /\ ToSet(lineage) \subseteq ToSet(lineage')
    /\ \A l \in ToSet(lineage') \ ToSet(lineage) : {l.from, l.to} \subseteq Records'

\* What the records are.
LEMMA RecordFacts ==
    /\ \A a \in Assertion : opened[a] # None => AssertionNode(a) \in Records
    /\ \A a \in DOMAIN artifacts : ArtifactNode(a) \in Records
    /\ \A w \in Workflow : \A r \in DOMAIN history[w] : RevisionNode(w, r) \in Records
    /\ \A e \in effects : EffectNode(e) \in Records
    /\ \A x \in Records :
        \/ \E a \in Assertion : opened[a] # None /\ x = AssertionNode(a)
        \/ \E a \in DOMAIN artifacts : x = ArtifactNode(a)
        \/ \E w \in Workflow : \E r \in DOMAIN history[w] : x = RevisionNode(w, r)
        \/ \E e \in effects : x = EffectNode(e)
<1> DEFINE A == {AssertionNode(a) : a \in {b \in Assertion : opened[b] # None}}
           B == {ArtifactNode(a) : a \in DOMAIN artifacts}
           C == UNION {{RevisionNode(w, r) : r \in DOMAIN history[w]} : w \in Workflow}
           D == {EffectNode(e) : e \in effects}
<1>1. Records = ((A \cup B) \cup C) \cup D
  BY Zenon DEF Records
<1>2. /\ \A a \in Assertion : opened[a] # None => AssertionNode(a) \in A
      /\ \A x \in A : \E a \in Assertion : opened[a] # None /\ x = AssertionNode(a)
  OBVIOUS
<1>3. /\ \A a \in DOMAIN artifacts : ArtifactNode(a) \in B
      /\ \A x \in B : \E a \in DOMAIN artifacts : x = ArtifactNode(a)
  OBVIOUS
<1>4. /\ \A w \in Workflow : \A r \in DOMAIN history[w] : RevisionNode(w, r) \in C
      /\ \A x \in C : \E w \in Workflow : \E r \in DOMAIN history[w] : x = RevisionNode(w, r)
  OBVIOUS
<1>5. /\ \A e \in effects : EffectNode(e) \in D
      /\ \A x \in D : \E e \in effects : x = EffectNode(e)
  OBVIOUS
<1> HIDE DEF A, B, C, D
<1> QED
  BY <1>1, <1>2, <1>3, <1>4, <1>5

\* The same of the next state.
LEMMA RecordFactsNext ==
    /\ \A a \in Assertion : opened'[a] # None => AssertionNode(a) \in Records'
    /\ \A a \in DOMAIN artifacts' : ArtifactNode(a) \in Records'
    /\ \A w \in Workflow : \A r \in DOMAIN history'[w] : RevisionNode(w, r) \in Records'
    /\ \A e \in effects' : EffectNode(e) \in Records'
<1> DEFINE A == {AssertionNode(a) : a \in {b \in Assertion : opened'[b] # None}}
           B == {ArtifactNode(a) : a \in DOMAIN artifacts'}
           C == UNION {{RevisionNode(w, r) : r \in DOMAIN history'[w]} : w \in Workflow}
           D == {EffectNode(e) : e \in effects'}
<1>1. Records' = ((A \cup B) \cup C) \cup D
  BY Zenon DEF Records
<1>2. \A a \in Assertion : opened'[a] # None => AssertionNode(a) \in A
  OBVIOUS
<1>3. \A a \in DOMAIN artifacts' : ArtifactNode(a) \in B
  OBVIOUS
<1>4. \A w \in Workflow : \A r \in DOMAIN history'[w] : RevisionNode(w, r) \in C
  OBVIOUS
<1>5. \A e \in effects' : EffectNode(e) \in D
  OBVIOUS
<1> HIDE DEF A, B, C, D
<1> QED
  BY <1>1, <1>2, <1>3, <1>4, <1>5

\* Records stay.
LEMMA RecordsGrow ==
    ASSUME RowType, RowsGrow
    PROVE  Records \subseteq Records'
<1>1. /\ \A a \in Assertion : opened[a] # None => opened'[a] # None
      /\ DOMAIN artifacts \subseteq DOMAIN artifacts'
      /\ \A w \in Workflow : DOMAIN history[w] \subseteq DOMAIN history'[w]
      /\ effects \subseteq effects'
  BY DEF RowsGrow, Extended
<1>2. SUFFICES ASSUME NEW x \in Records
               PROVE  x \in Records'
  OBVIOUS
<1>3. CASE \E a \in Assertion : opened[a] # None /\ x = AssertionNode(a)
  BY <1>1, <1>3, RecordFactsNext
<1>4. CASE \E a \in DOMAIN artifacts : x = ArtifactNode(a)
  BY <1>1, <1>4, RecordFactsNext
<1>5. CASE \E w \in Workflow : \E r \in DOMAIN history[w] : x = RevisionNode(w, r)
  BY <1>1, <1>5, RecordFactsNext
<1>6. CASE \E e \in effects : x = EffectNode(e)
  BY <1>1, <1>6, RecordFactsNext
<1> QED
  BY <1>2, <1>3, <1>4, <1>5, <1>6, RecordFacts

\* A revision that is entered leaves the earlier ones as they are.
LEMMA EnterGrows ==
    ASSUME RowType, HistoryInv, NEW w \in Workflow, NEW final \in BOOLEAN, NEW call \in Call,
           Enters(w, clock + 1, call, final)
    PROVE  \A v \in Workflow : Extended(history[v], history'[v])
<1>1. clock + 1 \in Nat /\ revision[w] \in Nat
  BY DEF RowType
<1>2. EnterRevision(w, revision[w] + 1, clock + 1, call, final)
  BY DEF Enters
<1>3. /\ \A v \in Workflow : v # w => history'[v] = history[v]
      /\ \A q \in DOMAIN history[w] : history'[w][q] = history[w][q]
      /\ history' \in [Workflow -> Seq(Entry)] /\ Len(history'[w]) = revision[w] + 1
  BY <1>1, <1>2, EnterFacts
<1>4. DOMAIN history[w] \subseteq DOMAIN history'[w]
  <2>1. history[w] \in Seq(Entry) /\ Len(history[w]) = revision[w] /\ history'[w] \in Seq(Entry)
    BY <1>3 DEF RowType, HistoryInv
  <2> QED
    BY <1>1, <1>3, <2>1
<1> QED
  BY <1>3, <1>4 DEF Extended

\* No step takes anything back.
LEMMA StepGrows ==
    ASSUME RowType, TxType, TxInv, HistoryInv, [Next]_vars
    PROVE  RowsGrow /\ LineageGrows
<1>0. /\ clock \in Nat /\ lineage \in Seq(ToSet(lineage))
      /\ \A a \in Assertion : a # None
  BY AgencyAssumption DEF RowType
<1>1. ASSUME UNCHANGED <<profile, rows>>
      PROVE  RowsGrow /\ LineageGrows
  <2>1. UNCHANGED <<history, effects, outcome, artifacts, opened, closed, lineage, intents>>
    BY <1>1 DEF rows, machineRows, effectRows, knowledgeRows
  <2>2. RowsGrow
    BY <2>1, ExtendedFacts DEF RowsGrow
  <2>3. LineageGrows
    BY <2>1 DEF LineageGrows
  <2> QED
    BY <2>2, <2>3
<1>2. ASSUME NEW e \in effects, NEW s, Settles(e, s)
      PROVE  RowsGrow /\ LineageGrows
  <2>1. /\ e \notin DOMAIN outcome /\ outcome' = With(outcome, e, s)
        /\ UNCHANGED <<history, effects, artifacts, opened, closed, lineage, intents>>
    BY <1>2 DEF Settles, machineRows, knowledgeRows
  <2>2. Extended(outcome, outcome')
    BY <2>1, OutcomeFacts DEF Extended
  <2> QED
    BY <2>1, <2>2 DEF RowsGrow, LineageGrows, Extended
<1>3. ASSUME NEW o \in Operation, NEW call \in Call, Serves(o, clock + 1, call)
      PROVE  RowsGrow /\ LineageGrows
  <2> DEFINE t == clock + 1
  <2>0. t \in Nat
    BY <1>0
  <2>1. Extended(intents, intents')
    <3>1. intents' = With(intents, call, o) /\ call \notin DOMAIN intents
      BY <1>3 DEF Serves, Remember, Known
    <3> QED
      BY <3>1 DEF With, Extended
  <2>a. t = clock + 1
    OBVIOUS
  <2> HIDE DEF t
  <2>2. ASSUME NEW w \in Workflow, NEW final \in BOOLEAN, Enters(w, t, call, final)
        PROVE  RowsGrow /\ LineageGrows
    <3>1. \A v \in Workflow : Extended(history[v], history'[v])
      BY <2>2, EnterGrows DEF t
    <3>2. UNCHANGED <<effects, outcome, artifacts, opened, closed, lineage>>
      BY <2>2 DEF Enters, effectRows, knowledgeRows
    <3> QED
      BY <2>1, <3>1, <3>2 DEF RowsGrow, LineageGrows, Extended
  <2>3. CASE UNCHANGED <<machineRows, effectRows, knowledgeRows>>
    BY <2>1, <2>3 DEF RowsGrow, LineageGrows, Extended, machineRows, effectRows, knowledgeRows
  <2>4. CASE /\ o \in Operations("request_effect") /\ RequestEffect(o, t, call)
             /\ AtRevision(o.workflow, o.expected)
    <3> DEFINE e == Requested(o, t, call)
    <3>1. /\ e \in Effect /\ effects' = effects \cup {e}
          /\ ToSet(lineage') = ToSet(lineage) \cup EdgesOf(e)
          /\ Current(e.decision, "decision", t) /\ Current(e.policy, "directive", t)
          /\ UNCHANGED <<machineRows, outcome, artifacts, opened, closed>>
      BY <2>0, <2>4, RequestFacts
    <3>2. e.workflow = o.workflow /\ e.revision = o.expected
      BY DEF Requested
    <3> HIDE DEF e
    <3>3. RowsGrow
      BY <2>1, <3>1 DEF RowsGrow, Extended, machineRows
    <3>4. e.decision \in Assertion /\ e.policy \in Assertion /\ e.workflow \in Workflow /\ e.revision \in Nat \ {0}
      BY <3>1 DEF Effect
    <3>5. AssertionNode(e.decision) \in Records' /\ AssertionNode(e.policy) \in Records'
      BY <3>1, <3>4, RecordFactsNext DEF Current
    <3>6. RevisionNode(e.workflow, e.revision) \in Records'
      <4>1. e.revision \in DOMAIN history'[e.workflow]
        BY <2>4, <3>1, <3>2, <3>4 DEF AtRevision, HistoryInv, RowType, machineRows
      <4> QED
        BY <3>4, <4>1, RecordFactsNext
    <3>7. EffectNode(e) \in Records'
      BY <3>1, RecordFactsNext
    <3>8. \A l \in EdgesOf(e) : {l.from, l.to} \subseteq Records'
      BY <3>5, <3>6, <3>7 DEF EdgesOf, Link
    <3> QED
      BY <3>1, <3>3, <3>8 DEF LineageGrows
  <2>5. CASE PutArtifact(o)
    <3>1. /\ o.artifact \in DOMAIN artifacts => artifacts[o.artifact] = o.content
          /\ artifacts' = With(artifacts, o.artifact, o.content)
          /\ UNCHANGED <<history, effects, outcome, opened, closed, lineage>>
      BY <2>5 DEF PutArtifact, machineRows, effectRows
    <3>2. Extended(artifacts, artifacts')
      BY <3>1 DEF With, Extended
    <3> QED
      BY <2>1, <3>1, <3>2 DEF RowsGrow, LineageGrows, Extended
  <2>6. CASE o \in Operations("assert") /\ PutAssertion(o, t)
    <3>1. /\ opened[o.assertion] = None
          /\ o.supersedes # None => opened[o.supersedes] # None /\ closed[o.supersedes] = None
          /\ o.source # None => o.source \in DOMAIN artifacts
          /\ opened' = [opened EXCEPT ![o.assertion] = t]
          /\ closed' = [a \in Assertion |-> IF a = o.supersedes THEN t ELSE closed[a]]
          /\ lineage' = IF o.source = None THEN lineage
                        ELSE InsertLink(lineage, Link("evidence_for", ArtifactNode(o.source),
                                                      AssertionNode(o.assertion)))
          /\ UNCHANGED <<history, effects, outcome, artifacts>>
      BY <2>6 DEF PutAssertion, machineRows, effectRows
    <3>2. o.assertion \in Assertion
      BY <2>6, AgencyAssumption
    <3>3. \A a \in Assertion : /\ opened[a] # None => opened'[a] = opened[a]
                               /\ closed'[a] # closed[a] => closed[a] = None /\ closed'[a] = t
      BY <1>0, <3>1 DEF RowType
    <3>4. RowsGrow
      BY <2>1, <2>a, <3>1, <3>3 DEF RowsGrow, Extended
    <3>5. CASE o.source = None
      BY <3>1, <3>4, <3>5 DEF LineageGrows
    <3>6. CASE o.source # None
      <4> DEFINE l == Link("evidence_for", ArtifactNode(o.source), AssertionNode(o.assertion))
      <4>1. l.from = ArtifactNode(o.source) /\ l.to = AssertionNode(o.assertion)
        BY DEF Link
      <4>2. lineage' = InsertLink(lineage, l)
        BY <3>1, <3>6
      <4> HIDE DEF l
      <4>3. ToSet(lineage') = ToSet(lineage) \cup {l}
        BY <1>0, <4>2, Inserted
      <4>4. opened'[o.assertion] # None
        BY <2>0, <3>1, <3>2, AgencyAssumption DEF RowType
      <4>5. AssertionNode(o.assertion) \in Records'
        BY <3>2, <4>4, RecordFactsNext
      <4>6. ArtifactNode(o.source) \in Records'
        BY <3>1, <3>6, RecordFactsNext
      <4> QED
        BY <3>4, <4>1, <4>3, <4>5, <4>6 DEF LineageGrows
    <3> QED
      BY <3>5, <3>6
  <2>7. CASE AddLineage(o, t)
    <3> DEFINE l == Link(o.relation, o.from, o.to)
    <3>1. /\ {o.from, o.to} \subseteq Records
          /\ lineage' = InsertLink(lineage, l)
          /\ UNCHANGED <<history, effects, outcome, artifacts, opened, closed>>
      BY <2>7 DEF AddLineage, ValidLink, machineRows, effectRows
    <3>2. l.from = o.from /\ l.to = o.to
      BY DEF Link
    <3> HIDE DEF l
    <3>3. ToSet(lineage') = ToSet(lineage) \cup {l}
      BY <1>0, <3>1, Inserted
    <3>4. RowsGrow
      BY <2>1, <3>1 DEF RowsGrow, Extended
    <3> QED
      BY <3>1, <3>2, <3>3, <3>4, RecordsGrow DEF LineageGrows
  <2>8. CASE RecordEffectOutcome(o)
    <3>1. PICK e \in effects :
             /\ e \in DOMAIN outcome => outcome[e] = o.status
             /\ outcome' = With(outcome, e, o.status)
             /\ UNCHANGED <<history, effects, artifacts, opened, closed, lineage>>
      BY <2>8 DEF RecordEffectOutcome, machineRows, knowledgeRows
    <3>2. Extended(outcome, outcome')
      BY <3>1 DEF With, Extended
    <3> QED
      BY <2>1, <3>1, <3>2 DEF RowsGrow, LineageGrows, Extended
  <2> QED
    BY <1>3, <2>2, <2>3, <2>4, <2>5, <2>6, <2>7, <2>8, ServeCases DEF t
<1> QED
  BY <1>1, <1>2, <1>3, RowSteps

\* Effects stay bound to a revision and to assertions that were current then.
LEMMA StepBound ==
    ASSUME RowType, TxType, TxInv, HistoryInv, BoundInv, [Next]_vars
    PROVE  BoundInv'
<1> DEFINE Bound(e) ==
        /\ e.revision \in DOMAIN history[e.workflow]
        /\ history[e.workflow][e.revision].at < e.at /\ ~history[e.workflow][e.revision].final
        /\ e.revision < Len(history[e.workflow]) => e.at < history[e.workflow][e.revision + 1].at
        /\ Current(e.decision, "decision", e.at) /\ Current(e.policy, "directive", e.at)
        /\ EdgesOf(e) \subseteq ToSet(lineage)
        /\ e.at <= clock
<1>0. BoundInv <=> /\ \A e \in effects : Bound(e)
                   /\ \A l \in ToSet(lineage) : {l.from, l.to} \subseteq Records
  BY DEF BoundInv, EffectsAreBound, EdgesOf
<1>1. BoundInv' <=> /\ \A e \in effects' : Bound(e)'
                    /\ \A l \in ToSet(lineage') : {l.from, l.to} \subseteq Records'
  BY DEF BoundInv, EffectsAreBound, EdgesOf
<1>2. /\ RowsGrow /\ LineageGrows /\ Records \subseteq Records'
      /\ clock \in Nat /\ clock' \in {clock, clock + 1}
  BY StepGrows, RecordsGrow, MarkSteps DEF RowType
<1>3. \A l \in ToSet(lineage') : {l.from, l.to} \subseteq Records'
  BY <1>0, <1>2 DEF LineageGrows
<1>4. ASSUME NEW a \in Assertion, NEW kind, NEW t \in Nat, t <= clock, Current(a, kind, t)
      PROVE  Current(a, kind, t)'
  <2>1. /\ opened[a] # None /\ opened[a] <= t /\ opened'[a] = opened[a]
        /\ closed[a] # None => closed[a] > t
        /\ closed'[a] = closed[a] \/ closed'[a] = clock + 1
        /\ Kind[a] = kind
    BY <1>2, <1>4 DEF Current, RowsGrow
  <2> QED
    BY <1>2, <1>4, <2>1 DEF Current
<1>5. ASSUME NEW e \in effects
      PROVE  Bound(e)'
  <2> DEFINE w == e.workflow
  <2>0. /\ e \in Effect /\ w \in Workflow /\ e.revision \in Nat \ {0} /\ e.at \in Nat
        /\ e.decision \in Assertion /\ e.policy \in Assertion
    BY DEF RowType, Effect
  <2>1. Bound(e)
    BY <1>0
  <2>2. /\ e.revision \in DOMAIN history'[w] /\ history'[w][e.revision] = history[w][e.revision]
        /\ EdgesOf(e) \subseteq ToSet(lineage')
        /\ e.at <= clock'
    BY <1>2, <2>0, <2>1 DEF RowsGrow, LineageGrows, Extended
  <2>3. /\ Current(e.decision, "decision", e.at)'
        /\ Current(e.policy, "directive", e.at)'
    BY <1>4, <2>0, <2>1
  <2>4. ASSUME e.revision < Len(history'[w])
        PROVE  e.at < history'[w][e.revision + 1].at
    <3>1. /\ Len(history[w]) = revision[w] /\ revision[w] \in Nat
          /\ DOMAIN history[w] = 1..revision[w]
      BY <2>0 DEF HistoryInv, RowType
    <3>2. CASE e.revision < revision[w]
      <4>1. e.revision + 1 \in DOMAIN history[w]
        BY <2>0, <3>1, <3>2
      <4>2. history'[w][e.revision + 1] = history[w][e.revision + 1]
        BY <1>2, <2>0, <4>1 DEF RowsGrow, Extended
      <4> QED
        BY <2>1, <3>1, <3>2, <4>2
    <3>3. CASE ~(e.revision < revision[w])
      <4>0. e.revision = revision[w]
        BY <2>0, <2>1, <3>1, <3>3
      <4>1. history'[w] # history[w]
        BY <2>4, <3>1, <3>3
      <4>2. PICK v \in Workflow, final \in BOOLEAN, call \in Call : Enters(v, clock + 1, call, final)
        BY <2>0, <4>1, MarkSteps DEF machineRows
      <4>3. clock + 1 \in Nat
        BY <1>2
      <4>4. /\ \A u \in Workflow : u # v => history'[u] = history[u]
            /\ history'[v][revision[v] + 1] = [at |-> clock + 1, call |-> call, final |-> final]
        BY <4>2, <4>3, EnterFacts DEF Enters
      <4>5. v = w
        BY <2>0, <4>1, <4>4
      <4>6. history'[w][e.revision + 1].at = clock + 1
        BY <4>0, <4>4, <4>5
      <4> QED
        BY <1>2, <2>0, <2>1, <4>6
    <3> QED
      BY <3>2, <3>3
  <2> QED
    BY <2>1, <2>2, <2>3, <2>4
<1>6. ASSUME NEW e \in effects' \ effects
      PROVE  Bound(e)'
  <2>1. /\ e \in Effect /\ e.at = clock + 1 /\ clock' = clock + 1
        /\ ToSet(lineage') = ToSet(lineage) \cup EdgesOf(e)
        /\ AtRevision(e.workflow, e.revision)
        /\ Current(e.decision, "decision", e.at) /\ Current(e.policy, "directive", e.at)
        /\ UNCHANGED <<machineRows, artifacts, opened, closed>>
    BY <1>6, MarkSteps DEF Enters, effectRows
  <2>2. /\ Current(e.decision, "decision", e.at)'
        /\ Current(e.policy, "directive", e.at)'
    BY <2>1 DEF Current
  <2> DEFINE w == e.workflow
  <2>3. /\ w \in Workflow /\ e.revision \in Nat \ {0}
        /\ revision[w] = e.revision /\ ~terminal[w]
        /\ history' = history /\ Len(history[w]) = revision[w] /\ DOMAIN history[w] = 1..revision[w]
    BY <2>1 DEF Effect, AtRevision, machineRows, HistoryInv, RowType
  <2>4. e.revision \in DOMAIN history[w]
    BY <2>3
  <2>5. history[w][e.revision].at \in Nat /\ history[w][e.revision].at <= clock
    BY <2>3, <2>4, Entries DEF HistoryInv
  <2>6. ~history[w][e.revision].final
    BY <2>3 DEF HistoryInv
  <2> QED
    BY <1>2, <2>1, <2>2, <2>3, <2>4, <2>5, <2>6
<1> HIDE DEF Bound
<1> QED
  BY <1>1, <1>3, <1>5, <1>6

-----------------------------------------------------------------------------
(* Budgets *)

\* The units that the effects of S cost.
Units(S) == {u \in S \X (1..Limit) : u[2] <= u[1].amount}

\* One effect costs its amount.
LEMMA UnitsOfOne ==
    ASSUME NEW e, e.amount \in 0..Limit
    PROVE  IsFiniteSet(Units({e})) /\ Cardinality(Units({e})) = e.amount
<1> DEFINE n == e.amount
           f == [i \in 1..n |-> <<e, i>>]
<1>0. n \in Nat /\ Limit \in Nat /\ n <= Limit
  BY AgencyAssumption
<1>1. \A u \in Units({e}) : u = <<e, u[2]>> /\ u[2] \in 1..n
  BY <1>0 DEF Units
<1>2. \A i \in 1..n : <<e, i>> \in Units({e})
  BY <1>0 DEF Units
<1>3. f \in Bijection(1..n, Units({e}))
  <2>1. f \in [1..n -> Units({e})]
    BY <1>2
  <2>2. \A i, j \in 1..n : f[i] = f[j] => i = j
    OBVIOUS
  <2>3. \A u \in Units({e}) : \E i \in 1..n : f[i] = u
    BY <1>1
  <2> HIDE DEF f
  <2> QED
    BY <2>1, <2>2, <2>3 DEF Bijection, Injection, Surjection, IsInjective
<1>4. ExistsBijection(1..n, Units({e}))
  BY <1>3 DEF ExistsBijection
<1>5. IsFiniteSet(1..n) /\ Cardinality(1..n) = n
  BY <1>0, FS_Interval
<1> QED
  BY <1>4, <1>5, FS_Bijection

\* Costs are numbers.
LEMMA CostFacts ==
    ASSUME NEW S, IsFiniteSet(S)
    PROVE  /\ IsFiniteSet(Units(S)) /\ Cost(S) = Cardinality(Units(S)) /\ Cost(S) \in Nat
<1>1. IsFiniteSet(1..Limit)
  BY AgencyAssumption, FS_Interval
<1>2. IsFiniteSet(S \X (1..Limit))
  BY <1>1, FS_Product
<1>3. IsFiniteSet(Units(S))
  <2>1. Units(S) \in SUBSET (S \X (1..Limit))
    BY DEF Units
  <2> QED
    BY <1>2, <2>1, FS_Subset
<1>4. Cost(S) = Cardinality(Units(S))
  BY DEF Cost, Units
<1> QED
  BY <1>3, <1>4, FS_CardinalityType

\* An effect adds what it costs.
LEMMA CostAdd ==
    ASSUME NEW S, IsFiniteSet(S), NEW e, e \notin S, e.amount \in 0..Limit
    PROVE  IsFiniteSet(S \cup {e}) /\ Cost(S \cup {e}) = Cost(S) + e.amount
<1>1. IsFiniteSet(S \cup {e})
  BY FS_AddElement
<1>2. Units(S \cup {e}) = Units(S) \cup Units({e})
  BY DEF Units
<1>3. Units(S) \cap Units({e}) = {}
  BY DEF Units
<1>4. IsFiniteSet(Units({e})) /\ Cardinality(Units({e})) = e.amount
  BY UnitsOfOne
<1>5. /\ Cost(S) = Cardinality(Units(S)) /\ Cost(S) \in Nat /\ IsFiniteSet(Units(S))
      /\ Cost(S \cup {e}) = Cardinality(Units(S \cup {e}))
  BY <1>1, CostFacts
<1>6. Cardinality(Units(S) \cup Units({e}))
        = Cardinality(Units(S)) + Cardinality(Units({e})) - Cardinality(Units(S) \cap Units({e}))
  BY <1>4, <1>5, FS_Union
<1>7. Cardinality(Units(S) \cap Units({e})) = 0
  BY <1>3, FS_EmptySet
<1>8. Cost(S \cup {e}) = Cost(S) + e.amount - 0
  BY <1>2, <1>4, <1>5, <1>6, <1>7
<1>9. Cost(S) + e.amount - 0 = Cost(S) + e.amount
  BY <1>5, AgencyAssumption
<1> QED
  BY <1>1, <1>8, <1>9

\* No effects cost nothing.
LEMMA CostEmpty == Cost({}) = 0
<1>1. Units({}) = {}
  BY DEF Units
<1> QED
  BY <1>1, CostFacts, FS_EmptySet

\* Effects that are open, and those that succeeded.
Open == effects \ DOMAIN outcome
Won  == {e \in DOMAIN outcome : outcome[e] = "succeeded"}

\* The counters follow the effects.
LEMMA StepBudget ==
    ASSUME RowType, TxType, TxInv, HistoryInv, BudgetInv, [Next]_vars
    PROVE  BudgetInv'
<1>0. /\ IsFiniteSet(effects) /\ DOMAIN outcome \subseteq effects /\ clock \in Nat
      /\ \A e \in effects : e.amount \in Nat
      /\ Limit \in Nat
  BY AgencyAssumption DEF RowType, Effect
<1>a. IsFiniteSet(Open) /\ IsFiniteSet(Won)
  <2>1. Open \in SUBSET effects /\ Won \in SUBSET effects
    BY <1>0 DEF Open, Won
  <2> QED
    BY <1>0, <2>1, FS_Subset
<1>b. /\ \A d, e \in effects : d.provider = e.provider => d = e
      /\ profile = "production" =>
          /\ reserved = Cost(Open) /\ spent = Cost(Won)
          /\ reserved + spent <= Limit
          /\ reserved \in Nat /\ spent \in Nat
          /\ \A e \in effects : e.amount <= Limit
  BY DEF BudgetInv, BudgetFollowsEffects, Open, Won
<1>1. ASSUME UNCHANGED <<profile, effects, outcome, reserved, spent>>
      PROVE  BudgetInv'
  BY <1>1 DEF BudgetInv, BudgetFollowsEffects, Cost
<1>2. ASSUME NEW e \in effects, NEW s, Settles(e, s)
      PROVE  BudgetInv'
  <2>1. /\ profile = "production" /\ profile' = profile /\ effects' = effects
        /\ e \notin DOMAIN outcome
        /\ outcome' = With(outcome, e, s)
        /\ reserved' = reserved - e.amount
        /\ spent' = IF s = "succeeded" THEN spent + e.amount ELSE spent
    BY <1>2 DEF Settles
  <2>2. e \in Open /\ e.amount \in 0..Limit
    BY <1>0, <1>b, <2>1 DEF Open
  <2>3. /\ DOMAIN outcome' = DOMAIN outcome \cup {e} /\ outcome'[e] = s
        /\ \A d \in DOMAIN outcome : outcome'[d] = outcome[d]
    BY <2>1, OutcomeFacts
  <2>4. Open = Open' \cup {e} /\ e \notin Open' /\ IsFiniteSet(Open')
    <3>1. Open = Open' \cup {e} /\ e \notin Open' /\ Open' \in SUBSET Open
      BY <2>1, <2>2, <2>3 DEF Open
    <3> QED
      BY <1>a, <3>1, FS_Subset
  <2>5. Cost(Open) = Cost(Open') + e.amount /\ Cost(Open') \in Nat
    BY <2>2, <2>4, CostAdd, CostFacts
  <2>6. /\ s = "succeeded" => Won' = Won \cup {e} /\ e \notin Won
        /\ s # "succeeded" => Won' = Won
    BY <2>1, <2>3 DEF Won
  <2>7. spent' = Cost(Won')
    BY <1>a, <1>b, <2>1, <2>2, <2>6, CostAdd
  <2>8. reserved' = Cost(Open')
    BY <1>b, <2>1, <2>2, <2>5
  <2>9. /\ reserved' \in Nat /\ spent' \in Nat /\ reserved' + spent' <= Limit
    BY <1>0, <1>b, <2>1, <2>2, <2>5, <2>8
  <2>10. reserved' = Cost(effects' \ DOMAIN outcome')
    BY <2>8 DEF Open
  <2>11. spent' = Cost({d \in DOMAIN outcome' : outcome'[d] = "succeeded"})
    BY <2>7 DEF Won
  <2>12. BudgetFollowsEffects'
    BY <1>b, <2>1, <2>9, <2>10, <2>11 DEF BudgetFollowsEffects, Cost
  <2> QED
    BY <1>b, <2>1, <2>9, <2>12 DEF BudgetInv
<1>3. ASSUME NEW o \in Operation, NEW call \in Call, Serves(o, clock + 1, call)
      PROVE  BudgetInv'
  <2>0. profile' = profile /\ clock + 1 \in Nat
    BY <1>0, <1>3 DEF Serves
  <2>1. ASSUME \/ \E w \in Workflow, final \in BOOLEAN : Enters(w, clock + 1, call, final)
               \/ UNCHANGED <<machineRows, effectRows, knowledgeRows>>
               \/ PutArtifact(o) \/ PutAssertion(o, clock + 1) \/ AddLineage(o, clock + 1)
        PROVE  UNCHANGED <<profile, effects, outcome, reserved, spent>>
    BY <2>0, <2>1 DEF Enters, PutArtifact, PutAssertion, AddLineage, effectRows
  <2>2. CASE o \in Operations("request_effect") /\ RequestEffect(o, clock + 1, call)
    <3> DEFINE e == Requested(o, clock + 1, call)
    <3>1. /\ e \in Effect /\ e \notin effects /\ effects' = effects \cup {e}
          /\ \A d \in effects : d.provider # e.provider
          /\ Charge(e.amount)
          /\ outcome' = outcome /\ spent' = spent
      BY <2>0, <2>2, RequestFacts
    <3> HIDE DEF e
    <3>2. \A c, d \in effects' : c.provider = d.provider => c = d
      BY <1>b, <3>1
    <3>3. CASE profile' # "production"
      BY <3>2, <3>3 DEF BudgetInv, BudgetFollowsEffects
    <3>4. CASE profile' = "production"
      <4>1. spent + reserved + e.amount <= Limit /\ reserved' = reserved + e.amount
        BY <2>0, <3>1, <3>4 DEF Charge
      <4>2. e.amount \in 0..Limit
        BY <1>0, <1>b, <2>0, <3>1, <3>4, <4>1 DEF Effect
      <4>3. Open' = Open \cup {e} /\ e \notin Open
        BY <1>0, <3>1 DEF Open
      <4>4. reserved' = Cost(Open')
        BY <1>a, <1>b, <2>0, <3>4, <4>1, <4>2, <4>3, CostAdd
      <4>5. reserved' = Cost(effects' \ DOMAIN outcome')
        BY <4>4 DEF Open
      <4>6. spent' = Cost({d \in DOMAIN outcome' : outcome'[d] = "succeeded"})
        BY <1>b, <2>0, <3>1, <3>4 DEF Won
      <4>7. reserved' \in Nat /\ spent' \in Nat /\ reserved' + spent' <= Limit
        BY <1>0, <1>b, <2>0, <3>1, <3>4, <4>1, <4>2
      <4>8. BudgetFollowsEffects'
        BY <3>2, <4>5, <4>6, <4>7 DEF BudgetFollowsEffects, Cost
      <4>9. \A d \in effects' : d.amount <= Limit
        BY <1>b, <2>0, <3>1, <3>4, <4>2
      <4> QED
        BY <4>7, <4>8, <4>9 DEF BudgetInv
    <3> QED
      BY <3>3, <3>4
  <2>3. CASE RecordEffectOutcome(o)
    BY <1>b, <2>0, <2>3 DEF RecordEffectOutcome, BudgetInv, BudgetFollowsEffects
  <2> QED
    BY <1>1, <1>3, <2>1, <2>2, <2>3, ServeCases
<1> QED
  <2>1. ASSUME UNCHANGED <<profile, rows>>
        PROVE  UNCHANGED <<profile, effects, outcome, reserved, spent>>
    BY <2>1 DEF rows, effectRows
  <2> QED
    BY <1>1, <1>2, <1>3, <2>1, RowSteps

-----------------------------------------------------------------------------
(* Answers *)

\* What was done stays done.
LEMMA DoneStays ==
    ASSUME RowType, RowsGrow, LineageGrows, NEW o \in Operation, NEW call, Done(o, call)
    PROVE  Done(o, call)'
<1>1. ASSUME NEW w \in Workflow, NEW r, Entered(w, r, call)
      PROVE  Entered(w, r, call)'
  BY <1>1 DEF Entered, RowsGrow, Extended
<1>2. CASE o.op = "create_workflow" /\ Entered(o.workflow, 1, call)
  <2>1. o.workflow \in Workflow
    BY <1>2, AgencyAssumption DEF Operations
  <2> QED
    BY <1>1, <1>2, <2>1 DEF Done
<1>3. CASE o.op = "advance_workflow" /\ Entered(o.workflow, o.expected + 1, call)
  <2>1. o.workflow \in Workflow
    BY <1>3, AgencyAssumption DEF Operations
  <2>2. Entered(o.workflow, o.expected + 1, call)'
    BY <1>1, <1>3, <2>1
  <2> QED
    BY <1>3, <2>2 DEF Done
<1>4. CASE o.op = "request_effect" /\ \E e \in Under(o.provider) : Asks(e, o)
  BY <1>4 DEF Done, Under, Asks, RowsGrow
<1>5. CASE o.op = "put_artifact" /\ o.artifact \in DOMAIN artifacts /\ artifacts[o.artifact] = o.content
  BY <1>5 DEF Done, RowsGrow, Extended
<1>6. CASE /\ o.op = "assert" /\ opened[o.assertion] # None
           /\ o.supersedes # None => closed[o.supersedes] = opened[o.assertion]
  <2>1. o.assertion \in Assertion /\ o.supersedes \in Assertion \cup {None}
    BY <1>6, AgencyAssumption DEF Operations
  <2>2. opened'[o.assertion] = opened[o.assertion]
    BY <1>6, <2>1 DEF RowsGrow
  <2>3. o.supersedes # None => closed'[o.supersedes] = closed[o.supersedes]
    BY <1>6, <2>1 DEF RowsGrow
  <2> QED
    BY <1>6, <2>2, <2>3 DEF Done
<1>7. CASE o.op = "add_lineage" /\ Link(o.relation, o.from, o.to) \in ToSet(lineage)
  BY <1>7 DEF Done, LineageGrows
<1>8. CASE /\ o.op = "record_effect_outcome"
           /\ \E e \in DOMAIN outcome : e.workflow = o.workflow /\ e.revision = o.revision
                                      /\ outcome[e] = o.status
  BY <1>8 DEF Done, RowsGrow, Extended
<1> QED
  BY <1>2, <1>3, <1>4, <1>5, <1>6, <1>7, <1>8 DEF Done

\* What is carried out is done.
LEMMA DoneNow ==
    ASSUME RowType, HistoryInv, NEW o \in Operation, NEW call \in Call, Serves(o, clock + 1, call)
    PROVE  Done(o, call)'
<1>0. clock + 1 \in Nat /\ lineage \in Seq(ToSet(lineage)) /\ clock + 1 # None
  BY AgencyAssumption DEF RowType
<1>1. ASSUME NEW w \in Workflow, NEW final \in BOOLEAN, NEW r, r = revision[w] + 1,
             EnterRevision(w, r, clock + 1, call, final)
      PROVE  Entered(w, r, call)'
  <2>0. r \in 1..r
    <3>1. revision[w] \in Nat
      BY DEF RowType
    <3> QED
      BY <1>1, <3>1
  <2>1. /\ DOMAIN history'[w] = 1..r
        /\ history'[w][r] = [at |-> clock + 1, call |-> call, final |-> final]
    <3>1. EnterRevision(w, revision[w] + 1, clock + 1, call, final)
      BY <1>1
    <3>2. /\ DOMAIN history'[w] = 1..(revision[w] + 1)
          /\ history'[w][revision[w] + 1] = [at |-> clock + 1, call |-> call, final |-> final]
      BY <1>0, <3>1, EnterFacts
    <3> QED
      BY <1>1, <3>2
  <2>2. r \in DOMAIN history'[w] /\ history'[w][r].call = call
    BY <2>0, <2>1
  <2> QED
    BY <2>2 DEF Entered
<1>2. CASE o.op = "create_workflow" /\ CreateWorkflow(o, clock + 1, call)
  <2>1. o.workflow \in Workflow /\ revision[o.workflow] + 1 = 1
    BY <1>2, AgencyAssumption DEF Operations, CreateWorkflow
  <2>2. Entered(o.workflow, 1, call)'
    BY <1>1, <1>2, <2>1 DEF CreateWorkflow
  <2> QED
    BY <1>2, <2>2 DEF Done
<1>3. CASE o.op = "advance_workflow" /\ AdvanceWorkflow(o, clock + 1, call)
  <2>1. /\ o.workflow \in Workflow /\ o.terminal \in BOOLEAN
        /\ revision[o.workflow] = o.expected
    BY <1>3, AgencyAssumption DEF Operations, AdvanceWorkflow, AtRevision
  <2>2. EnterRevision(o.workflow, o.expected + 1, clock + 1, call, o.terminal)
    BY <1>3 DEF AdvanceWorkflow
  <2>3. Entered(o.workflow, o.expected + 1, call)'
    BY <1>1, <2>1, <2>2
  <2> QED
    BY <1>3, <2>3 DEF Done
<1>4. CASE o.op = "request_effect" /\ ReplayEffect(o)
  BY <1>4 DEF Done, ReplayEffect, effectRows, Under, Asks
<1>5. CASE o.op = "request_effect" /\ RequestEffect(o, clock + 1, call)
  <2>1. \E e : e = Requested(o, clock + 1, call)
    OBVIOUS
  <2>2. PICK e : e = Requested(o, clock + 1, call)
    BY <2>1
  <2>3. e \in Under(o.provider)' /\ Asks(e, o)'
    <3>1. effects' = effects \cup {e}
      BY <1>5, <2>2 DEF RequestEffect, Requested
    <3>2. e.provider = o.provider /\ Asks(e, o)
      BY <2>2 DEF Requested, Asks
    <3> QED
      BY <3>1, <3>2 DEF Under, Asks
  <2>4. (o.op = "request_effect" /\ \E d \in Under(o.provider) : Asks(d, o))'
    BY <1>5, <2>3
  <2> QED
    BY <2>4 DEF Done, Under, Asks
<1>6. CASE o.op = "put_artifact" /\ PutArtifact(o)
  <2>1. artifacts' = With(artifacts, o.artifact, o.content)
    BY <1>6 DEF PutArtifact
  <2>2. o.artifact \in DOMAIN artifacts' /\ artifacts'[o.artifact] = o.content
    BY <2>1 DEF With
  <2> QED
    BY <1>6, <2>2 DEF Done
<1>7. CASE o.op = "assert" /\ PutAssertion(o, clock + 1)
  <2>1. o.assertion \in Assertion /\ o.supersedes \in Assertion \cup {None}
    BY <1>7, AgencyAssumption DEF Operations
  <2>2. /\ opened' = [opened EXCEPT ![o.assertion] = clock + 1]
        /\ closed' = [a \in Assertion |-> IF a = o.supersedes THEN clock + 1 ELSE closed[a]]
    BY <1>7 DEF PutAssertion
  <2>3. opened'[o.assertion] = clock + 1
    BY <2>1, <2>2 DEF RowType
  <2>4. o.supersedes # None => closed'[o.supersedes] = clock + 1
    BY <2>1, <2>2
  <2> QED
    BY <1>0, <1>7, <2>3, <2>4 DEF Done
<1>8. CASE o.op = "add_lineage" /\ AddLineage(o, clock + 1)
  <2> DEFINE l == Link(o.relation, o.from, o.to)
  <2>1. lineage' = InsertLink(lineage, l)
    BY <1>8 DEF AddLineage
  <2> HIDE DEF l
  <2>2. l \in ToSet(lineage')
    BY <1>0, <2>1, Inserted
  <2> QED
    BY <1>8, <2>2 DEF Done, l
<1>9. CASE o.op = "record_effect_outcome" /\ RecordEffectOutcome(o)
  <2>1. PICK e \in effects : /\ e.workflow = o.workflow /\ e.revision = o.revision
                             /\ outcome' = With(outcome, e, o.status)
    BY <1>9 DEF RecordEffectOutcome
  <2>2. e \in DOMAIN outcome' /\ outcome'[e] = o.status
    BY <2>1 DEF With
  <2> QED
    BY <1>9, <2>1, <2>2 DEF Done
<1> QED
  BY <1>2, <1>3, <1>4, <1>5, <1>6, <1>7, <1>8, <1>9 DEF Serves, Perform

\* Answers stay true.
LEMMA StepAnswers ==
    ASSUME RowType, TxType, TxInv, HistoryInv, AnswersAreTrue, [Next]_vars
    PROVE  AnswersAreTrue'
<1>1. ASSUME NEW c \in DOMAIN intents
      PROVE  c \in DOMAIN intents' /\ intents'[c] = intents[c] /\ Done(intents[c], c)'
  <2>1. intents[c] \in Operation /\ Done(intents[c], c)
    BY DEF RowType, AnswersAreTrue
  <2>2. RowsGrow /\ LineageGrows
    BY StepGrows
  <2> QED
    BY <2>1, <2>2, DoneStays DEF RowsGrow, Extended
<1>2. CASE intents' = intents
  BY <1>1, <1>2 DEF AnswersAreTrue
<1>3. ASSUME NEW o \in Operation, NEW call \in Call, Serves(o, clock + 1, call)
      PROVE  AnswersAreTrue'
  <2>1. /\ DOMAIN intents' = DOMAIN intents \cup {call} /\ intents'[call] = o
    BY <1>3 DEF Serves, Remember, With
  <2>2. Done(o, call)'
    BY <1>3, DoneNow
  <2>3. ASSUME NEW c \in DOMAIN intents'
        PROVE  Done(intents[c], c)'
    <3>1. CASE c \in DOMAIN intents
      BY <1>1, <3>1
    <3>2. CASE c = call
      BY <2>1, <2>2, <3>2 DEF Done
    <3> QED
      BY <2>1, <3>1, <3>2
  <2> QED
    BY <2>3 DEF AnswersAreTrue
<1> QED
  <2>1. ASSUME NEW e \in effects, NEW s, Settles(e, s)
        PROVE  intents' = intents
    BY <2>1 DEF Settles
  <2>2. ASSUME UNCHANGED <<profile, rows>>
        PROVE  intents' = intents
    BY <2>2 DEF rows
  <2> QED
    BY <1>2, <1>3, <2>1, <2>2, RowSteps

-----------------------------------------------------------------------------
(* Locks *)

\* What operations lock.
LEMMA LockFacts ==
    ASSUME NEW o \in Operation
    PROVE  /\ o.op = "request_effect" => <<"provider", o.provider>> \in Locks(o)
           /\ o.op = "advance_workflow" => <<"workflow", o.workflow>> \in Locks(o)
           /\ o.op = "request_effect" /\ Under(o.provider) = {} => <<"workflow", o.workflow>> \in Locks(o)
<1>1. /\ o.op = "request_effect" => o.provider \in ProviderKey /\ o.workflow \in Workflow
      /\ o.op = "advance_workflow" => o.workflow \in Workflow
  BY AgencyAssumption DEF Operations
<1> DEFINE P == {<<"provider", p>> : p \in {q \in ProviderKey : o.op = "request_effect" /\ q = o.provider}}
           W == {<<"workflow", w>> : w \in {v \in Workflow :
                    /\ o.op \in {"advance_workflow", "request_effect"}
                    /\ v = o.workflow
                    /\ o.op = "request_effect" => Under(o.provider) = {}}}
<1>2. Locks(o) = P \cup W
  BY DEF Locks
<1>3. o.op = "request_effect" => <<"provider", o.provider>> \in P
  BY <1>1
<1>4. /\ o.op = "advance_workflow" => <<"workflow", o.workflow>> \in W
      /\ o.op = "request_effect" /\ Under(o.provider) = {} => <<"workflow", o.workflow>> \in W
  BY <1>1
<1> HIDE DEF P, W
<1> QED
  BY <1>2, <1>3, <1>4

\* A request that has become known needs no more than before.
LEMMA LocksShrink ==
    ASSUME effects \subseteq effects', NEW o
    PROVE  Locks(o)' \subseteq Locks(o)
<1>1. Under(o.provider)' = {} => Under(o.provider) = {}
  BY DEF Under
<1> QED
  BY <1>1 DEF Locks

\* What one transaction commits changes no row that another has locked and checked.
LEMMA LockedRowsStay ==
    ASSUME RowType, HistoryInv, NEW o \in Operation, NEW call, Serves(o, clock + 1, call)
    PROVE  /\ \A w \in Workflow : revision[w] # 0 /\ <<"workflow", w>> \notin Locks(o) =>
                 revision'[w] = revision[w] /\ terminal'[w] = terminal[w]
           /\ \A p \in ProviderKey : Under(p) = {} /\ <<"provider", p>> \notin Locks(o) =>
                 \A e \in effects' : e.provider # p
<1>0. revision \in [Workflow -> Nat] /\ terminal \in [Workflow -> BOOLEAN] /\ clock + 1 \in Nat
  BY DEF RowType
<1>a. \A p : Under(p) = {} => \A e \in effects : e.provider # p
  BY DEF Under
<1>1. ASSUME NEW r, NEW final, EnterRevision(o.workflow, r, clock + 1, call, final), effects' = effects,
             \A w \in Workflow : revision[w] # 0 /\ <<"workflow", w>> \notin Locks(o) => w # o.workflow
      PROVE  /\ \A w \in Workflow : revision[w] # 0 /\ <<"workflow", w>> \notin Locks(o) =>
                   revision'[w] = revision[w] /\ terminal'[w] = terminal[w]
             /\ \A p \in ProviderKey : Under(p) = {} /\ <<"provider", p>> \notin Locks(o) =>
                   \A e \in effects' : e.provider # p
  BY <1>0, <1>a, <1>1 DEF EnterRevision
<1>2. CASE o.op = "create_workflow" /\ CreateWorkflow(o, clock + 1, call)
  BY <1>1, <1>2 DEF CreateWorkflow, effectRows
<1>3. CASE o.op = "advance_workflow" /\ AdvanceWorkflow(o, clock + 1, call)
  <2>1. <<"workflow", o.workflow>> \in Locks(o)
    BY <1>3, LockFacts
  <2> QED
    BY <1>1, <1>3, <2>1 DEF AdvanceWorkflow, effectRows
<1>4. CASE o.op = "request_effect" /\ RequestEffect(o, clock + 1, call)
  <2>1. <<"provider", o.provider>> \in Locks(o) /\ o \in Operations("request_effect")
    BY <1>4, LockFacts DEF Operations
  <2>2. PICK e : e.provider = o.provider /\ effects' = effects \cup {e}
    BY <1>4 DEF RequestEffect
  <2>3. UNCHANGED <<revision, terminal>>
    BY <1>4 DEF RequestEffect, machineRows
  <2> QED
    BY <1>a, <2>1, <2>2, <2>3
<1>5. ASSUME UNCHANGED <<machineRows, effects>>
      PROVE  /\ \A w \in Workflow : revision[w] # 0 /\ <<"workflow", w>> \notin Locks(o) =>
                   revision'[w] = revision[w] /\ terminal'[w] = terminal[w]
             /\ \A p \in ProviderKey : Under(p) = {} /\ <<"provider", p>> \notin Locks(o) =>
                   \A e \in effects' : e.provider # p
  BY <1>a, <1>5 DEF machineRows
<1>6. ASSUME \/ ReplayEffect(o) \/ PutArtifact(o) \/ PutAssertion(o, clock + 1)
             \/ AddLineage(o, clock + 1) \/ RecordEffectOutcome(o)
      PROVE  UNCHANGED <<machineRows, effects>>
  BY <1>6 DEF ReplayEffect, PutArtifact, PutAssertion, AddLineage, RecordEffectOutcome, effectRows
<1> QED
  BY <1>2, <1>3, <1>4, <1>5, <1>6 DEF Serves, Perform

\* What a transaction has checked stays so, whatever another commits.
LEMMA CheckedStays ==
    ASSUME RowType, HistoryInv, effects \subseteq effects',
           NEW o \in Operation, NEW call, Serves(o, clock + 1, call),
           NEW p \in Operation, Checked(p), Locks(p) \cap Locks(o) = {}
    PROVE  Checked(p)'
<1>1. /\ \A w \in Workflow : revision[w] # 0 /\ <<"workflow", w>> \notin Locks(o) =>
            revision'[w] = revision[w] /\ terminal'[w] = terminal[w]
      /\ \A q \in ProviderKey : Under(q) = {} /\ <<"provider", q>> \notin Locks(o) =>
            \A e \in effects' : e.provider # q
  BY LockedRowsStay
<1>2. ASSUME NEW w \in Workflow, NEW r \in Nat \ {0}, <<"workflow", w>> \in Locks(p), AtRevision(w, r)
      PROVE  AtRevision(w, r)'
  <2>1. revision[w] # 0 /\ <<"workflow", w>> \notin Locks(o)
    BY <1>2 DEF AtRevision
  <2> QED
    BY <1>1, <1>2, <2>1 DEF AtRevision
<1>3. CASE p.op = "advance_workflow"
  <2>1. /\ p.workflow \in Workflow /\ p.expected \in Nat \ {0}
        /\ <<"workflow", p.workflow>> \in Locks(p)
    BY <1>3, LockFacts, AgencyAssumption DEF Operations
  <2>2. AtRevision(p.workflow, p.expected)
    BY <1>3 DEF Checked
  <2>3. AtRevision(p.workflow, p.expected)'
    BY <1>2, <2>1, <2>2
  <2> QED
    BY <1>3, <2>3 DEF Checked
<1>4. CASE p.op = "request_effect" /\ Under(p.provider) = {}
  <2>1. /\ p.workflow \in Workflow /\ p.expected \in Nat \ {0} /\ p.provider \in ProviderKey
    BY <1>4, AgencyAssumption DEF Operations
  <2>2. /\ <<"workflow", p.workflow>> \in Locks(p)
        /\ <<"provider", p.provider>> \in Locks(p)
    BY <1>4, LockFacts
  <2>3. AtRevision(p.workflow, p.expected)
    BY <1>4 DEF Checked
  <2>4. AtRevision(p.workflow, p.expected)'
    BY <1>2, <2>1, <2>2, <2>3
  <2>5. Under(p.provider)' = {}
    BY <1>1, <1>4, <2>1, <2>2 DEF Under
  <2> QED
    BY <1>4, <2>4, <2>5 DEF Checked
<1>5. CASE p.op = "request_effect" /\ Under(p.provider) # {}
  <2>1. PICK e \in Under(p.provider) : Asks(e, p)
    BY <1>5 DEF Checked
  <2>2. e \in Under(p.provider)'
    BY <2>1 DEF Under
  <2>3. Asks(e, p)'
    BY <2>1 DEF Asks
  <2> QED
    BY <1>5, <2>2, <2>3 DEF Checked
<1>6. CASE p.op \notin {"advance_workflow", "request_effect"}
  BY <1>6 DEF Checked
<1> QED
  BY <1>3, <1>4, <1>5, <1>6

-----------------------------------------------------------------------------
(* Transactions *)

\* Transactions keep their types.
LEMMA StepTxType ==
    ASSUME RowType, TxType, TxInv, [Next]_vars
    PROVE  TxType'
<1>0. clock + 1 \in Nat
  BY DEF RowType
<1>1. ASSUME NEW t \in Tx, NEW c \in Call, NEW o \in Operation, Begin(t, c, o)
      PROVE  TxType'
  <2>1. [call |-> c, op |-> o] \in [call : Call, op : Operation]
    OBVIOUS
  <2> QED
    BY <1>1, <2>1 DEF Begin, TxType
<1>2. ASSUME NEW t \in Tx, LockRows(t)
      PROVE  TxType'
  BY <1>2 DEF LockRows, TxType
<1>3. ASSUME NEW t \in Tx, TakeTime(t)
      PROVE  TxType'
  BY <1>0, <1>3 DEF TakeTime, TxType
<1>4. ASSUME NEW t \in Tx, Leave(t)
      PROVE  TxType'
  BY <1>4 DEF Leave, TxType
<1>5. ASSUME UNCHANGED <<serving, pc, stamp>>
      PROVE  TxType'
  BY <1>5 DEF TxType
<1>6. ASSUME NEW t \in Tx, Commit(t) \/ Abort(t)
      PROVE  TxType'
  BY <1>4, <1>6 DEF Commit, Abort
<1>7. ASSUME \/ \E c \in Call : Replay(c)
             \/ \E c \in Call, o \in Operation : ExecuteIntent(c, o)
             \/ \E e \in effects, s \in {"succeeded", "failed"} : Settle(e, s)
             \/ UNCHANGED vars
      PROVE  TxType'
  BY <1>5, <1>7 DEF Replay, ExecuteIntent, Settle, vars
<1> QED
  BY <1>1, <1>2, <1>3, <1>6, <1>7 DEF Next

\* The parts of TxInv, for a transaction t.
Alone(t)    == pc[t] = "timed" => stamp[t] = clock + 1 /\ \A u \in Tx : pc[u] = "timed" => u = t
Served(t)   == pc[t] # "idle" => serving[t] \in [call : Call, op : Operation]
Apart(t, u) == Locks(serving[t].op) \cap Locks(serving[u].op) = {}

\* TxInv is its parts.
LEMMA TxParts ==
    TxInv <=> /\ profile = "embedded" => \A t \in Tx : pc[t] = "idle"
              /\ \A t \in Tx : /\ Served(t) /\ Alone(t)
                               /\ Holds(t) => Checked(serving[t].op)
              /\ \A t, u \in Tx : t # u /\ Holds(t) /\ Holds(u) => Apart(t, u)
BY DEF TxInv, Served, Alone, Apart

\* Transactions stay apart.
LEMMA StepTx ==
    ASSUME RowType, TxType, TxInv, HistoryInv, [Next]_vars
    PROVE  TxInv'
<1>0. /\ clock \in Nat /\ pc \in [Tx -> {"idle", "keyed", "locked", "timed"}]
      /\ stamp \in [Tx -> Nat] /\ serving \in [Tx -> [call : Call, op : Operation] \cup {None}]
  BY DEF RowType, TxType
<1>a. /\ profile = "embedded" => \A t \in Tx : pc[t] = "idle"
      /\ \A t \in Tx : /\ Served(t) /\ Alone(t)
                       /\ Holds(t) => Checked(serving[t].op)
      /\ \A t, u \in Tx : t # u /\ Holds(t) /\ Holds(u) => Apart(t, u)
  BY TxParts
<1>b. TxInv' <=> /\ profile' = "embedded" => \A t \in Tx : pc'[t] = "idle"
                 /\ \A t \in Tx : /\ Served(t)' /\ Alone(t)'
                                  /\ Holds(t)' => Checked(serving[t].op)'
                 /\ \A t, u \in Tx : t # u /\ Holds(t)' /\ Holds(u)' => Apart(t, u)'
  BY DEF TxInv, Served, Alone, Apart
<1>1. ASSUME UNCHANGED rows
      PROVE  /\ clock' = clock
             /\ \A t \in Tx : serving'[t] = serving[t] /\ Checked(serving[t].op)
                                  => Checked(serving[t].op)'
             /\ \A t, u \in Tx : serving'[t] = serving[t] /\ serving'[u] = serving[u] /\ Apart(t, u)
                                  => Apart(t, u)'
  <2>1. UNCHANGED <<revision, terminal, effects, clock>>
    BY <1>1 DEF rows, machineRows, effectRows
  <2>2. ASSUME NEW t \in Tx, serving'[t] = serving[t], Checked(serving[t].op)
        PROVE  Checked(serving[t].op)'
    BY <2>1, <2>2 DEF Checked, AtRevision, Under, Asks
  <2>3. ASSUME NEW t \in Tx, NEW u \in Tx, serving'[t] = serving[t], serving'[u] = serving[u], Apart(t, u)
        PROVE  Apart(t, u)'
    BY <2>1, <2>3 DEF Apart, Locks, Under
  <2> QED
    BY <2>1, <2>2, <2>3
<1>2. ASSUME NEW t \in Tx, NEW c \in Call, NEW o \in Operation, Begin(t, c, o)
      PROVE  TxInv'
  <2>1. /\ profile' = profile /\ profile # "embedded" /\ UNCHANGED rows
        /\ pc[t] = "idle" /\ pc'[t] = "keyed" /\ serving'[t] = [call |-> c, op |-> o]
        /\ \A u \in Tx : u # t => pc'[u] = pc[u] /\ serving'[u] = serving[u]
        /\ stamp' = stamp
    BY <1>0, <1>2 DEF Begin
  <2>2. [call |-> c, op |-> o] \in [call : Call, op : Operation]
    OBVIOUS
  <2>3. \A u \in Tx : Holds(u)' => u # t /\ Holds(u)
    BY <2>1 DEF Holds
  <2>4. \A u \in Tx : Served(u)'
    BY <1>a, <2>1, <2>2 DEF Served
  <2>5. \A u \in Tx : Alone(u)'
    BY <1>1, <1>a, <2>1 DEF Alone
  <2> QED
    BY <1>1, <1>a, <1>b, <2>1, <2>3, <2>4, <2>5
<1>3. ASSUME NEW t \in Tx, LockRows(t)
      PROVE  TxInv'
  <2>1. /\ profile' = profile /\ UNCHANGED rows /\ UNCHANGED <<serving, stamp>>
        /\ pc[t] = "keyed" /\ pc'[t] = "locked"
        /\ \A u \in Tx : u # t => pc'[u] = pc[u]
        /\ Checked(serving[t].op)
        /\ \A u \in Tx : Holds(u) => Apart(t, u) /\ Apart(u, t)
    BY <1>0, <1>3 DEF LockRows, Holds, Apart
  <2>2. \A u \in Tx : Holds(u)' => u = t \/ Holds(u)
    BY <2>1 DEF Holds
  <2>3. \A u \in Tx : Served(u)' /\ Alone(u)'
    BY <1>1, <1>a, <2>1 DEF Served, Alone
  <2>4. profile' # "embedded"
    BY <1>a, <2>1
  <2> QED
    BY <1>1, <1>a, <1>b, <2>1, <2>2, <2>3, <2>4
<1>4. ASSUME NEW t \in Tx, TakeTime(t)
      PROVE  TxInv'
  <2>1. /\ profile' = profile /\ UNCHANGED rows /\ UNCHANGED serving
        /\ pc[t] = "locked" /\ pc'[t] = "timed" /\ stamp'[t] = clock + 1
        /\ \A u \in Tx : pc[u] # "timed"
        /\ \A u \in Tx : u # t => pc'[u] = pc[u] /\ stamp'[u] = stamp[u]
    BY <1>0, <1>4 DEF TakeTime
  <2>2. \A u \in Tx : Holds(u)' => Holds(u)
    BY <2>1 DEF Holds
  <2>3. \A u \in Tx : Served(u)' /\ Alone(u)'
    BY <1>1, <1>a, <2>1 DEF Served, Alone
  <2>4. profile' # "embedded"
    BY <1>a, <2>1
  <2> QED
    BY <1>1, <1>a, <1>b, <2>1, <2>2, <2>3, <2>4
<1>5. ASSUME NEW t \in Tx, Leave(t)
      PROVE  /\ pc'[t] = "idle"
             /\ \A u \in Tx : u # t => pc'[u] = pc[u] /\ stamp'[u] = stamp[u] /\ serving'[u] = serving[u]
             /\ \A u \in Tx : Served(u)'
             /\ \A u \in Tx : Holds(u)' => u # t /\ Holds(u)
  <2>1. /\ pc'[t] = "idle"
        /\ \A u \in Tx : u # t => pc'[u] = pc[u] /\ stamp'[u] = stamp[u] /\ serving'[u] = serving[u]
    BY <1>0, <1>5 DEF Leave
  <2> QED
    BY <1>a, <2>1 DEF Served, Holds
<1>6. ASSUME NEW t \in Tx, Abort(t)
      PROVE  TxInv'
  <2>1. UNCHANGED <<profile, rows>> /\ Leave(t) /\ pc[t] # "idle"
    BY <1>6 DEF Abort
  <2>2. \A u \in Tx : Alone(u)'
    BY <1>1, <1>5, <1>a, <2>1 DEF Alone
  <2>3. profile' # "embedded"
    BY <1>a, <2>1
  <2> QED
    BY <1>1, <1>5, <1>a, <1>b, <2>1, <2>2, <2>3
<1>7. ASSUME NEW t \in Tx, Commit(t)
      PROVE  TxInv'
  <2>1. /\ pc[t] = "timed" /\ serving[t] \in [call : Call, op : Operation]
        /\ stamp[t] = clock + 1 /\ Checked(serving[t].op) /\ Holds(t)
        /\ \A u \in Tx : pc[u] = "timed" => u = t
    BY <1>7, <1>a DEF Commit, Served, Alone, Holds
  <2>2. Serves(serving[t].op, clock + 1, serving[t].call)
    BY <1>7, <2>1 DEF Commit, Serves
  <2>3. Leave(t) /\ profile' = profile /\ profile # "embedded"
    BY <1>7, <1>a, <2>1 DEF Commit
  <2>4. effects \subseteq effects'
    BY StepGrows DEF RowsGrow
  <2>5. \A u \in Tx : Alone(u)'
    BY <1>5, <2>1, <2>3 DEF Alone
  <2>6. ASSUME NEW u \in Tx, Holds(u)'
        PROVE  Checked(serving[u].op)'
    <3>1. u # t /\ Holds(u) /\ serving'[u] = serving[u]
      BY <1>5, <2>3, <2>6
    <3>2. /\ Checked(serving[u].op)
          /\ Locks(serving[u].op) \cap Locks(serving[t].op) = {}
      BY <1>a, <2>1, <3>1 DEF Apart
    <3>3. serving[u].op \in Operation /\ serving[t].op \in Operation
      BY <1>a, <2>1, <3>1 DEF Served, Holds
    <3>4. PICK o, p \in Operation : o = serving[t].op /\ p = serving[u].op
      BY <3>3
    <3>5. Checked(p)'
      BY <2>2, <2>4, <3>2, <3>4, CheckedStays
    <3> QED
      BY <3>1, <3>4, <3>5
  <2>7. ASSUME NEW u \in Tx, NEW v \in Tx, u # v, Holds(u)', Holds(v)'
        PROVE  Apart(u, v)'
    <3>1. /\ Apart(u, v) /\ serving'[u] = serving[u] /\ serving'[v] = serving[v]
      BY <1>5, <1>a, <2>3, <2>7
    <3>2. \E o, p : o = serving[u].op /\ p = serving[v].op
      OBVIOUS
    <3>3. PICK o, p : o = serving[u].op /\ p = serving[v].op
      BY <3>2
    <3>4. Locks(o)' \subseteq Locks(o) /\ Locks(p)' \subseteq Locks(p)
      BY <2>4, LocksShrink
    <3>5. Locks(o) \cap Locks(p) = {}
      BY <3>1, <3>3 DEF Apart
    <3>6. (Locks(o) \cap Locks(p) = {})'
      BY <3>4, <3>5
    <3> QED
      BY <3>1, <3>3, <3>6 DEF Apart
  <2> QED
    BY <1>5, <1>b, <2>3, <2>5, <2>6, <2>7
<1>8. ASSUME NEW c \in Call, NEW o \in Operation, ExecuteIntent(c, o)
      PROVE  TxInv'
  <2>1. profile' = profile /\ profile = "embedded" /\ pc' = pc
    BY <1>8 DEF ExecuteIntent
  <2>2. \A t \in Tx : pc'[t] = "idle"
    BY <1>a, <2>1
  <2>3. \A t \in Tx : Served(t)' /\ Alone(t)' /\ ~Holds(t)'
    BY <2>2 DEF Served, Alone, Holds
  <2> QED
    BY <1>b, <2>2, <2>3
<1>9. ASSUME UNCHANGED <<profile, revision, terminal, effects, clock, serving, pc, stamp>>
      PROVE  TxInv'
  <2>1. \A t \in Tx : Checked(serving[t].op) => Checked(serving[t].op)'
    BY <1>9 DEF Checked, AtRevision, Under, Asks
  <2>2. \A t, u \in Tx : Apart(t, u) => Apart(t, u)'
    BY <1>9 DEF Apart, Locks, Under
  <2> QED
    BY <1>9, <1>a, <1>b, <2>1, <2>2 DEF Served, Alone, Holds
<1>10. ASSUME \/ \E c \in Call : Replay(c)
              \/ \E e \in effects, s \in {"succeeded", "failed"} : Settle(e, s)
              \/ UNCHANGED vars
       PROVE  UNCHANGED <<profile, revision, terminal, effects, clock, serving, pc, stamp>>
  BY <1>10 DEF Replay, Settle, vars, rows, machineRows, effectRows
<1> QED
  BY <1>2, <1>3, <1>4, <1>6, <1>7, <1>8, <1>9, <1>10 DEF Next

-----------------------------------------------------------------------------
(* The kernel's theorems *)

\* The invariant holds at first.
LEMMA InitAgency == Init => AgencyInv
<1> SUFFICES ASSUME Init
             PROVE  AgencyInv
  OBVIOUS
<1>1. /\ profile \in Profiles
      /\ revision = [w \in Workflow |-> 0] /\ terminal = [w \in Workflow |-> FALSE]
      /\ history = [w \in Workflow |-> <<>>]
      /\ effects = {} /\ outcome = <<>> /\ reserved = 0 /\ spent = 0
      /\ artifacts = <<>>
      /\ opened = [a \in Assertion |-> IF a \in Given THEN 0 ELSE None]
      /\ closed = [a \in Assertion |-> None]
      /\ lineage = <<>> /\ clock = 0 /\ intents = <<>>
      /\ serving = [t \in Tx |-> None] /\ pc = [t \in Tx |-> "idle"] /\ stamp = [t \in Tx |-> 0]
  BY DEF Init
<1>2. /\ DOMAIN <<>> = {} /\ \A S : <<>> \in Seq(S) /\ Len(<<>>) = 0 /\ ToSet(<<>>) = {}
  BY DEF ToSet
<1>3. IsTable(<<>>)
  BY <1>2 DEF IsTable
<1>4. RowType
  <2>1. IsFiniteSet(effects) /\ effects \in SUBSET Effect
    BY <1>1, FS_EmptySet
  <2>2. /\ revision \in [Workflow -> Nat] /\ terminal \in [Workflow -> BOOLEAN]
        /\ opened \in [Assertion -> Nat \cup {None}] /\ closed \in [Assertion -> Nat \cup {None}]
    BY <1>1
  <2>3. history \in [Workflow -> Seq(Entry)] /\ lineage \in Seq(ToSet(lineage))
    BY <1>1, <1>2
  <2> QED
    BY <1>1, <1>2, <1>3, <2>1, <2>2, <2>3 DEF RowType
<1>5. TxType /\ TxInv
  BY <1>1 DEF TxType, TxInv, Holds
<1>6. \A w \in Workflow : history[w] = <<>> /\ revision[w] = 0 /\ ~terminal[w]
  BY <1>1
<1>7. HistoryInv
  BY <1>2, <1>6 DEF HistoryInv
<1>8. OnceInv /\ BoundInv /\ AnswersAreTrue
  BY <1>1, <1>2, <1>6 DEF OnceInv, BoundInv, EffectsAreBound, AnswersAreTrue
<1>9. BudgetInv
  <2>1. effects \ DOMAIN outcome = {} /\ {e \in DOMAIN outcome : outcome[e] = "succeeded"} = {}
    BY <1>1, <1>2
  <2>2. Cost(effects \ DOMAIN outcome) = 0 /\ Cost({e \in DOMAIN outcome : outcome[e] = "succeeded"}) = 0
    BY <2>1, CostEmpty
  <2>3. 0 + 0 <= Limit /\ 0 \in Nat
    BY AgencyAssumption
  <2> QED
    BY <1>1, <2>2, <2>3 DEF BudgetInv, BudgetFollowsEffects
<1> QED
  BY <1>4, <1>5, <1>7, <1>8, <1>9 DEF AgencyInv, RowInv

\* Every step preserves it.
LEMMA StepAgency == AgencyInv /\ [Next]_vars => AgencyInv'
<1> SUFFICES ASSUME AgencyInv, [Next]_vars
             PROVE  AgencyInv'
  OBVIOUS
<1>1. /\ RowType /\ TxType /\ TxInv
      /\ HistoryInv /\ OnceInv /\ BoundInv /\ BudgetInv /\ AnswersAreTrue
  BY DEF AgencyInv, RowInv
<1>2. RowType' /\ TxType' /\ TxInv'
  BY <1>1, StepRowType, StepTxType, StepTx
<1>3. HistoryInv' /\ OnceInv' /\ BoundInv' /\ BudgetInv' /\ AnswersAreTrue'
  BY <1>1, StepHistory, StepOnce, StepBound, StepBudget, StepAnswers
<1> QED
  BY <1>2, <1>3 DEF AgencyInv, RowInv

\* The kernel's invariant holds of every behavior.
THEOREM AgencyInvariance == Spec => []AgencyInv
<1>1. AgencyInv /\ UNCHANGED vars => AgencyInv'
  BY StepAgency
<1> QED
  BY InitAgency, StepAgency, PTL DEF Spec

\* What the invariant says of the state.
LEMMA AgencyPromises ==
    AgencyInv => HistoryFollowsRevisions /\ EffectsAreBound /\ BudgetFollowsEffects /\ AnswersAreTrue
<1> SUFFICES ASSUME AgencyInv
             PROVE  HistoryFollowsRevisions /\ EffectsAreBound /\ BudgetFollowsEffects /\ AnswersAreTrue
  OBVIOUS
<1>1. HistoryInv /\ OnceInv /\ BoundInv /\ BudgetInv /\ AnswersAreTrue
  BY DEF AgencyInv, RowInv
<1>2. HistoryFollowsRevisions
  BY <1>1 DEF HistoryInv, OnceInv, HistoryFollowsRevisions
<1> QED
  BY <1>1, <1>2 DEF BoundInv, BudgetInv

\* Revisions have one history row each, in the order of their times, none after a
\* terminal one, and a call acts once: appendHistory under the lock of the workflow,
\* and the key of idempotency_results.
THEOREM HistorySafety == Spec => []HistoryFollowsRevisions
  BY AgencyInvariance, AgencyPromises, PTL

\* An effect belongs to a revision that was the current one, and to a decision and a
\* policy that were current, when it was requested; no edge loses an end.
THEOREM BindingSafety == Spec => []EffectsAreBound
  BY AgencyInvariance, AgencyPromises, PTL

\* The counters of a key's budget are those of the effects there are, and keep to its
\* limit.
THEOREM BudgetSafety == Spec => []BudgetFollowsEffects
  BY AgencyInvariance, AgencyPromises, PTL

\* What a call was answered stays true.
THEOREM AnswerSafety == Spec => []AnswersAreTrue
  BY AgencyInvariance, AgencyPromises, PTL

-----------------------------------------------------------------------------
(* Explanations *)

\* Every explanation, to whatever depth, also while transactions are under way: it is
\* the neighborhood or says that it is truncated, and keeps to the limits.
EveryExplanationTells ==
    \A root \in Records, depth \in Nat :
        LET told == Explanation(root, depth) IN
        /\ Tells(told, lineage, root, depth)
        /\ WithinLimits(told)
        /\ profile = "embedded" => Cardinality(told.nodes) <= MaxNodes

\* It follows from what holds of the rows: every edge leads between records.
LEMMA ExplanationsFollow == AgencyInv => EveryExplanationTells /\ ExplanationsTell
<1> SUFFICES ASSUME AgencyInv PROVE EveryExplanationTells /\ ExplanationsTell
  OBVIOUS
<1>1. lineage \in Seq(ToSet(lineage)) /\ Between(lineage, Records)
  <2>1. EffectsAreBound
    BY AgencyPromises
  <2>2. \A l \in ToSet(lineage) : {l.from, l.to} \subseteq Records
    BY <2>1 DEF EffectsAreBound
  <2> QED
    BY <2>2 DEF AgencyInv, RowType, Between, Ends
<1>2. ASSUME NEW root \in Records, NEW depth \in Nat
      PROVE  LET told == Explanation(root, depth) IN
             /\ Tells(told, lineage, root, depth)
             /\ WithinLimits(told)
             /\ profile = "embedded" => Cardinality(told.nodes) <= MaxNodes
  <2>1. CASE profile = "production"
    <3>1. Explanation(root, depth) = ExplainTrace(Records, lineage, root, depth)
      BY <2>1 DEF Explanation
    <3>2. /\ Tells(ExplainTrace(Records, lineage, root, depth), lineage, root, depth)
          /\ WithinLimits(ExplainTrace(Records, lineage, root, depth))
      BY <1>1, ExplainTraceTells
    <3> QED
      BY <2>1, <3>1, <3>2
  <2>2. CASE profile # "production"
    <3>1. Explanation(root, depth) = EmbeddedExplain(Records, lineage, root, depth)
      BY <2>2 DEF Explanation
    <3>2. /\ Tells(EmbeddedExplain(Records, lineage, root, depth), lineage, root, depth)
          /\ WithinLimits(EmbeddedExplain(Records, lineage, root, depth))
          /\ Cardinality(EmbeddedExplain(Records, lineage, root, depth).nodes) <= MaxNodes
      BY <1>1, EmbeddedExplainTells
    <3> QED
      BY <3>1, <3>2
  <2> QED
    BY <2>1, <2>2
<1>3. EveryExplanationTells
  BY <1>2 DEF EveryExplanationTells
<1>4. ExplanationsTell
  <2>1. \A depth \in 0..3 : depth \in Nat
    OBVIOUS
  <2> QED
    BY <1>3, <2>1 DEF EveryExplanationTells, ExplanationsTell
<1> QED
  BY <1>3, <1>4

\* explain of either kernel, asked about any record, never lacks anything without saying
\* so, whatever the lineage has become.
THEOREM ExplanationSafety == Spec => [](EveryExplanationTells /\ ExplanationsTell)
  BY AgencyInvariance, ExplanationsFollow, PTL

-----------------------------------------------------------------------------
(* Sessions: keys, exchanges, answers *)

SessionInv == AgencyInv /\ HostInv /\ ExchangeInv

\* The steps of a run have keys of their own, which are calls, and no other run has them.
LEMMA KeyFacts ==
    ASSUME script \in Scripts, NEW r \in Run, NEW n \in DOMAIN script[r]
    PROVE  /\ Key(r, n) \in Call /\ script[r][n].op \in Operation
           /\ DOMAIN script[r] = 1..Len(script[r]) /\ Len(script[r]) \in Nat
           /\ \A q \in Run : \A m \in DOMAIN script[q] : Key(q, m) = Key(r, n) => q = r /\ m = n
<1>1. /\ script[r] \in Seq(ToSet(script[r]))
      /\ <<r, script[r][n].domain, script[r][n].name>> \in Call
      /\ script[r][n].op \in Operation
      /\ \A m \in DOMAIN script[r] :
            script[r][m].domain = script[r][n].domain /\ script[r][m].name = script[r][n].name => m = n
  BY SessionAssumption
<1>2. \A q, m : Key(q, m) = <<q, script[q][m].domain, script[q][m].name>>
  BY DEF Key, ScopedKey
<1>3. Key(r, n) \in Call
  BY <1>1, <1>2
<1>4. DOMAIN script[r] = 1..Len(script[r]) /\ Len(script[r]) \in Nat
  BY <1>1
<1>5. ASSUME NEW q \in Run, NEW m \in DOMAIN script[q], Key(q, m) = Key(r, n)
      PROVE  q = r /\ m = n
  <2>1. q = r /\ script[q][m].domain = script[r][n].domain /\ script[q][m].name = script[r][n].name
    BY <1>2, <1>5
  <2> QED
    BY <1>1, <2>1
<1> QED
  BY <1>1, <1>3, <1>4, <1>5

\* A step that is done stays done.
LEMMA StepStays ==
    ASSUME script' = script, RowsGrow, NEW r, NEW n, StepDone(r, n)
    PROVE  StepDone(r, n)'
<1>1. CASE script[r][n].op.op = "run_worker"
  BY <1>1 DEF StepDone, EffectThere, AskedBy, RowsGrow, Extended
<1>2. CASE script[r][n].op.op # "run_worker"
  <2>1. Key(r, n)' = Key(r, n)
    BY DEF Key
  <2> QED
    BY <1>2, <2>1 DEF StepDone, Executed, RowsGrow, Extended
<1> QED
  BY <1>1, <1>2

\* A step of the session is, to the kernel, one of its own or none.
LEMMA SessionSteps ==
    ASSUME SessionInv, [SessionNext]_sessionVars
    PROVE  [Next]_vars /\ script' = script /\ RowsGrow /\ AgencyInv'
<1>1. script \in Scripts /\ \A x \in pending : Proper(x)
  BY DEF SessionInv, HostInv, ExchangeInv
<1>2. ASSUME NEW x \in pending
      PROVE  x.key \in Call /\ x.op \in Operation
  BY <1>1, KeyFacts DEF Proper
<1>3. ASSUME NEW r \in Run, \/ Dispatch(r) \/ RunWorker(r) \/ Receive(r) \/ Timeout(r) \/ Restart(r)
                            \/ \E q \in Run : Misdirect(r, q)
      PROVE  UNCHANGED vars /\ script' = script
  BY <1>3 DEF Dispatch, RunWorker, Receive, Timeout, Restart, Misdirect
<1>4. ASSUME NEW x \in pending, \/ Lose(x) \/ Recall(x)
      PROVE  UNCHANGED vars /\ script' = script
  BY <1>4 DEF Lose, Recall, Replay
<1>5. ASSUME NEW x \in pending, NEW t \in Tx, Accept(x, t)
      PROVE  Next /\ script' = script
  BY <1>2, <1>5 DEF Accept, Next
<1>6. ASSUME NEW x \in pending, ServeEmbedded(x)
      PROVE  [Next]_vars /\ script' = script
  BY <1>2, <1>6 DEF ServeEmbedded, Next
<1>7. ASSUME NEW t \in Tx, Finish(t) \/ Refuse(t)
      PROVE  Next /\ script' = script
  BY <1>7 DEF Finish, Refuse, Next
<1>8. ASSUME \/ \E t \in Tx : LockRows(t) \/ TakeTime(t)
             \/ \E e \in effects, s \in {"succeeded", "failed"} : Settle(e, s),
             UNCHANGED hostVars
      PROVE  Next /\ script' = script
  BY <1>8 DEF Next, hostVars
<1>9. ASSUME UNCHANGED sessionVars
      PROVE  UNCHANGED vars /\ script' = script
  BY <1>9 DEF sessionVars, hostVars
<1>10. [Next]_vars /\ script' = script
  BY <1>3, <1>4, <1>5, <1>6, <1>7, <1>8, <1>9 DEF SessionNext
<1>11. RowsGrow
  BY <1>10, StepGrows DEF SessionInv, AgencyInv, RowInv
<1>12. AgencyInv
  BY DEF SessionInv
<1>13. AgencyInv'
  BY Zenon, <1>10, <1>12, StepAgency
<1> QED
  BY <1>10, <1>11, <1>13

\* An exchange that is under way stays a proper one.
LEMMA ProperStays ==
    ASSUME SessionInv, [SessionNext]_sessionVars, NEW x, Proper(x)
    PROVE  Proper(x)'
<1> DEFINE r == x.run
<1>0. /\ script' = script /\ RowsGrow
      /\ at \in [Run -> Nat] /\ awaited \in [Run -> Nat] /\ sent \in [Run -> Nat]
      /\ \A q \in Run : RunInv(q)
  BY SessionSteps DEF SessionInv, HostInv
<1>1. PICK n \in DOMAIN script[r] :
        /\ x.key = Key(r, n) /\ x.op = script[r][n].op
        /\ x.op.op # "run_worker"
        /\ x.number = awaited[r] => at[r] = n
        /\ \A m \in 1..(n - 1) : StepDone(r, m)
  BY DEF Proper
<1>2. r \in Run /\ x.number \in 1..sent[r]
  BY DEF Proper
<1>3. SUFFICES /\ sent[r] <= sent'[r] /\ sent'[r] \in Nat
               /\ x.number = awaited'[r] => x.number = awaited[r] /\ at'[r] = at[r]
  <2>1. (Key(r, n) = Key(r, n)') /\ (n \in DOMAIN script'[r]) /\ (script'[r][n] = script[r][n])
    BY <1>0 DEF Key
  <2>2. \A m \in 1..(n - 1) : StepDone(r, m)'
    BY <1>0, <1>1, StepStays
  <2>3. ASSUME sent[r] <= sent'[r], sent'[r] \in Nat
        PROVE  x.number \in 1..sent'[r]
    BY <1>0, <1>2, <2>3
  <2> QED
    BY <1>1, <1>2, <2>1, <2>2, <2>3 DEF Proper
<1>4. x.number # 0 /\ sent[r] \in Nat
  BY <1>0, <1>2
<1>5. ASSUME NEW q \in Run, Dispatch(q)
      PROVE  /\ sent[r] <= sent'[r] /\ sent'[r] \in Nat
             /\ x.number = awaited'[r] => x.number = awaited[r] /\ at'[r] = at[r]
  BY <1>0, <1>2, <1>5 DEF Dispatch
<1>6. ASSUME NEW q \in Run, RunWorker(q)
      PROVE  /\ sent[r] <= sent'[r] /\ sent'[r] \in Nat
             /\ x.number = awaited'[r] => x.number = awaited[r] /\ at'[r] = at[r]
  <2>1. awaited[q] = 0
    BY <1>0, <1>6 DEF RunWorker, RunInv
  <2> QED
    BY <1>0, <1>2, <1>4, <1>6, <2>1 DEF RunWorker
<1>7. ASSUME NEW q \in Run, Receive(q) \/ Timeout(q) \/ Restart(q)
      PROVE  /\ sent[r] <= sent'[r] /\ sent'[r] \in Nat
             /\ x.number = awaited'[r] => x.number = awaited[r] /\ at'[r] = at[r]
  <2>1. /\ sent' = sent /\ awaited' = [awaited EXCEPT ![q] = 0]
        /\ \A p \in Run : p # q => at'[p] = at[p]
    BY <1>0, <1>7 DEF Receive, Timeout, Restart
  <2> QED
    BY <1>0, <1>2, <1>4, <2>1
<1>8. ASSUME UNCHANGED <<at, awaited, sent>>
      PROVE  /\ sent[r] <= sent'[r] /\ sent'[r] \in Nat
             /\ x.number = awaited'[r] => x.number = awaited[r] /\ at'[r] = at[r]
  BY <1>4, <1>8
<1>9. ASSUME \/ \E p, q \in Run : Misdirect(p, q)
             \/ \E y \in pending : Lose(y) \/ Recall(y) \/ ServeEmbedded(y)
             \/ \E y \in pending, t \in Tx : Accept(y, t)
             \/ \E t \in Tx : Finish(t) \/ Refuse(t)
             \/ UNCHANGED hostVars
             \/ UNCHANGED sessionVars
      PROVE  UNCHANGED <<at, awaited, sent>>
  BY <1>9 DEF Misdirect, Lose, Recall, ServeEmbedded, Accept, Finish, Refuse, hostVars, sessionVars
<1> QED
  BY <1>5, <1>6, <1>7, <1>8, <1>9 DEF SessionNext

\* A run to which nothing happens.
LEMMA RunStays ==
    ASSUME script' = script, RowsGrow, NEW r \in Run, RunInv(r),
           at'[r] = at[r], awaited'[r] = awaited[r], sent'[r] = sent[r], answer'[r] = answer[r]
    PROVE  RunInv(r)'
<1>1. \A n : StepDone(r, n) => StepDone(r, n)'
  BY StepStays
<1>2. \E n : n = at[r]
  OBVIOUS
<1>3. PICK n : n = at[r]
  BY <1>2
<1>4. StepDone(r, n) => StepDone(r, n)'
  BY <1>1
<1>5. Correlates(r)' = Correlates(r) /\ Working(r)' = Working(r)
  BY DEF Correlates, Working
<1>6. OnWorker(r)' = OnWorker(r)
  BY DEF OnWorker, Working, Step
<1>7. StepDone(r, at[r]) => StepDone(r, at[r])'
  BY <1>3, <1>4 DEF StepDone, Executed, Key, EffectThere
<1> QED
  BY <1>1, <1>5, <1>6, <1>7 DEF RunInv

\* An answer comes to the run that waits for it.
LEMMA AnswerArrives ==
    ASSUME HostInv, script' = script, RowsGrow, UNCHANGED <<at, awaited, sent>>,
           NEW x, Proper(x), NEW verdict, verdict # "conflict", Deliver(x, verdict),
           verdict = "ok" => x.key \in DOMAIN intents' /\ intents'[x.key] = x.op
    PROVE  HostInv'
<1>0. /\ script \in Scripts
      /\ at \in [Run -> Nat] /\ awaited \in [Run -> Nat] /\ sent \in [Run -> Nat]
      /\ DOMAIN answer = Run
      /\ \A r \in Run : RunInv(r)
  BY DEF HostInv
<1>1. DOMAIN answer' = Run /\ \A r \in Run : r # x.run => answer'[r] = answer[r]
  BY <1>0 DEF Deliver
<1>2. ASSUME NEW r \in Run, answer'[r] = answer[r]
      PROVE  RunInv(r)'
  BY <1>0, <1>2, RunStays
<1>3. ASSUME NEW r \in Run, r = x.run, answer'[r] # answer[r]
      PROVE  RunInv(r)'
  <2>1. PICK n \in DOMAIN script[r] :
          /\ x.key = Key(r, n) /\ x.op = script[r][n].op
          /\ x.op.op # "run_worker"
          /\ x.number = awaited[r] => at[r] = n
    BY <1>3 DEF Proper
  <2>2. /\ awaited[r] = x.number /\ x.number # 0 /\ at[r] = n
        /\ answer'[r] = [run |-> r, number |-> x.number, verdict |-> verdict]
    <3>1. awaited[r] = x.number /\ answer'[r] = [run |-> r, number |-> x.number, verdict |-> verdict]
      BY <1>0, <1>3 DEF Deliver
    <3>2. x.number # 0
      BY DEF Proper
    <3> QED
      BY <2>1, <3>1, <3>2
  <2>3. answer'[r].verdict = verdict
    BY <2>2
  <2>4. verdict = "ok" => StepDone(r, n)'
    BY <2>1 DEF StepDone, Executed, Key
  <2>5. verdict = "ok" => StepDone(r, at[r])'
    BY <2>2, <2>4 DEF StepDone, Executed, Key, EffectThere
  <2>6. \A m : StepDone(r, m) => StepDone(r, m)'
    BY StepStays
  <2>7. Working(r)' = Working(r)
    BY DEF Working
  <2>8. OnWorker(r)' = OnWorker(r)
    BY DEF OnWorker, Working, Step
  <2> QED
    BY <1>0, <2>2, <2>3, <2>5, <2>6, <2>7, <2>8 DEF RunInv
<1>4. \A r \in Run : RunInv(r)'
  BY <1>1, <1>2, <1>3
<1> QED
  BY <1>0, <1>1, <1>4 DEF HostInv

\* The key of an exchange, once it is known, is known for what the exchange asks.
LEMMA KnownAsAsked ==
    ASSUME HostInv, ExchangeInv, NEW x, Proper(x), x.key \in DOMAIN intents
    PROVE  intents[x.key] = x.op
<1>0. script \in Scripts
  BY DEF HostInv
<1>1. PICK n \in DOMAIN script[x.run] : x.key = Key(x.run, n) /\ x.op = script[x.run][n].op
  BY DEF Proper
<1>2. PICK r \in Run : \E m \in DOMAIN script[r] : x.key = Key(r, m) /\ intents[x.key] = script[r][m].op
  BY DEF ExchangeInv
<1>3. PICK m \in DOMAIN script[r] : x.key = Key(r, m) /\ intents[x.key] = script[r][m].op
  BY <1>2
<1>4. x.run \in Run
  BY DEF Proper
<1>5. \A q \in Run : \A p \in DOMAIN script[q] : Key(q, p) = Key(x.run, n) => q = x.run /\ p = n
  BY <1>0, <1>4, KeyFacts
<1>6. r = x.run /\ m = n
  BY <1>1, <1>3, <1>5
<1> QED
  BY <1>1, <1>3, <1>6

\* Hosts stay behind the kernel.
LEMMA StepHost ==
    ASSUME SessionInv, [SessionNext]_sessionVars
    PROVE  HostInv'
<1>0. /\ HostInv /\ ExchangeInv
      /\ script' = script /\ RowsGrow
      /\ script \in Scripts
      /\ at \in [Run -> Nat] /\ awaited \in [Run -> Nat] /\ sent \in [Run -> Nat]
      /\ DOMAIN answer = Run
      /\ \A q \in Run : RunInv(q)
  BY SessionSteps DEF SessionInv, HostInv
<1>a. \A r \in Run : \A n : StepDone(r, n) => StepDone(r, n)'
  BY <1>0, StepStays
<1>1. ASSUME NEW r \in Run,
             at' \in [Run -> Nat], awaited' \in [Run -> Nat], sent' \in [Run -> Nat], DOMAIN answer' = Run,
             \A q \in Run : q # r => /\ at'[q] = at[q] /\ awaited'[q] = awaited[q]
                                     /\ sent'[q] = sent[q] /\ answer'[q] = answer[q],
             RunInv(r)'
      PROVE  HostInv'
  <2>1. ASSUME NEW q \in Run, q # r
        PROVE  RunInv(q)'
    BY <1>0, <1>1, <2>1, RunStays
  <2> QED
    BY <1>0, <1>1, <2>1 DEF HostInv
<1>2. ASSUME NEW r \in Run, Dispatch(r)
      PROVE  HostInv'
  <2>1. /\ awaited[r] = 0 /\ Working(r) /\ ~OnWorker(r)
        /\ awaited' = [awaited EXCEPT ![r] = sent[r] + 1]
        /\ sent' = [sent EXCEPT ![r] = sent[r] + 1]
        /\ at' = at /\ answer' = answer
    BY <1>2 DEF Dispatch
  <2>2. Working(r)' /\ ~OnWorker(r)'
    BY <1>0, <2>1 DEF Working, OnWorker, Step
  <2>3. answer[r] = None
    BY <1>0, <2>1 DEF RunInv
  <2>4. \A n \in 1..(at[r] - 1) : n \in DOMAIN script[r] => StepDone(r, n)'
    BY <1>0, <1>a DEF RunInv
  <2>5. RunInv(r)'
    BY <1>0, <2>1, <2>2, <2>3, <2>4 DEF RunInv
  <2>6. sent[r] + 1 \in Nat
    BY <1>0
  <2>7. awaited' \in [Run -> Nat] /\ sent' \in [Run -> Nat]
    BY <1>0, <2>1, <2>6
  <2> QED
    BY <1>0, <1>1, <2>1, <2>5, <2>7
<1>3. ASSUME NEW r \in Run, NEW n \in Nat,
             at' \in [Run -> Nat], awaited' \in [Run -> Nat], sent' = sent, DOMAIN answer' = Run,
             \A q \in Run : q # r => /\ at'[q] = at[q] /\ awaited'[q] = awaited[q]
                                     /\ answer'[q] = answer[q],
             at'[r] = n, awaited'[r] = 0, answer'[r] = None,
             \A m \in 1..(n - 1) : m \in DOMAIN script[r] => StepDone(r, m)
      PROVE  HostInv'
  <2>1. \A m \in 1..(n - 1) : m \in DOMAIN script[r] => StepDone(r, m)'
    BY <1>3, <1>a
  <2>2. RunInv(r)'
    BY <1>0, <1>3, <2>1 DEF RunInv
  <2> QED
    BY <1>0, <1>1, <1>3, <2>2
<1>4. ASSUME NEW r \in Run, RunWorker(r)
      PROVE  HostInv'
  <2>1. /\ awaited[r] = 0 /\ answer[r] = None
    BY <1>0, <1>4 DEF RunWorker, RunInv
  <2>a. CASE at' = [at EXCEPT ![r] = 0]
    <3>1. awaited' = awaited /\ sent' = sent /\ answer' = answer
      BY <1>4 DEF RunWorker
    <3> QED
      BY <1>0, <1>3, <2>1, <2>a, <3>1
  <2>b. SUFFICES ASSUME at' # [at EXCEPT ![r] = 0]
                 PROVE  HostInv'
    BY <2>a
  <2>2. /\ at' = [at EXCEPT ![r] = at[r] + 1] /\ awaited' = awaited /\ sent' = sent /\ answer' = answer
        /\ at[r] \in DOMAIN script[r] /\ StepDone(r, at[r])
    BY <1>4, <2>b DEF RunWorker, OnWorker, Working, Step, StepDone, EffectThere
  <2>3. at[r] + 1 \in Nat /\ at' \in [Run -> Nat]
    BY <1>0, <2>2
  <2>4. \A m \in 1..((at[r] + 1) - 1) : m \in DOMAIN script[r] => StepDone(r, m)
    <3>1. \A m \in 1..((at[r] + 1) - 1) : m \in 1..(at[r] - 1) \/ m = at[r]
      BY <1>0
    <3> QED
      BY <1>0, <2>2, <3>1 DEF RunInv
  <2>5. PICK n \in Nat : n = at[r] + 1
    BY <2>3
  <2>6. \A m \in 1..(n - 1) : m \in DOMAIN script[r] => StepDone(r, m)
    BY <2>4, <2>5
  <2> QED
    BY <1>0, <1>3, <2>1, <2>2, <2>3, <2>5, <2>6
<1>5. ASSUME NEW r \in Run, NEW n \in Nat, at' = [at EXCEPT ![r] = n],
             awaited' = [awaited EXCEPT ![r] = 0], sent' = sent,
             answer' = [answer EXCEPT ![r] = None],
             \A m \in 1..(n - 1) : m \in DOMAIN script[r] => StepDone(r, m)
      PROVE  HostInv'
  BY <1>0, <1>3, <1>5
<1>6. ASSUME NEW r \in Run, Receive(r)
      PROVE  HostInv'
  <2>1. /\ awaited[r] # 0 /\ answer[r] # None
        /\ awaited' = [awaited EXCEPT ![r] = 0] /\ answer' = [answer EXCEPT ![r] = None] /\ sent' = sent
        /\ at' = [at EXCEPT ![r] = IF ~Correlates(r) THEN at[r]
                                   ELSE IF answer[r].verdict = "ok" THEN at[r] + 1 ELSE 0]
    BY <1>6 DEF Receive
  <2>2. /\ \A m \in 1..(at[r] - 1) : m \in DOMAIN script[r] => StepDone(r, m)
        /\ Correlates(r) /\ answer[r].verdict = "ok" => StepDone(r, at[r])
    BY <1>0, <2>1 DEF RunInv
  <2>3. \E n \in Nat : /\ at' = [at EXCEPT ![r] = n]
                       /\ \A m \in 1..(n - 1) : m \in DOMAIN script[r] => StepDone(r, m)
    <3>0. at[r] \in Nat
      BY <1>0
    <3>1. CASE ~Correlates(r)
      BY <2>1, <2>2, <3>0, <3>1
    <3>2. CASE Correlates(r) /\ answer[r].verdict = "ok"
      <4>1. \A m \in 1..((at[r] + 1) - 1) : m \in 1..(at[r] - 1) \/ m = at[r]
        BY <3>0
      <4>2. at' = [at EXCEPT ![r] = at[r] + 1]
        BY <2>1, <3>2
      <4>3. \A m \in 1..((at[r] + 1) - 1) : m \in DOMAIN script[r] => StepDone(r, m)
        BY <2>2, <3>2, <4>1
      <4>4. at[r] + 1 \in Nat
        BY <3>0
      <4> QED
        BY <4>2, <4>3, <4>4
    <3>3. CASE Correlates(r) /\ answer[r].verdict # "ok"
      <4>1. at' = [at EXCEPT ![r] = 0]
        BY <2>1, <3>3
      <4>2. \A m \in 1..(0 - 1) : FALSE
        OBVIOUS
      <4> QED
        BY <4>1, <4>2
    <3> QED
      BY <3>1, <3>2, <3>3
  <2> QED
    BY <1>5, <2>1, <2>3
<1>7. ASSUME NEW r \in Run, Timeout(r)
      PROVE  HostInv'
  <2>1. /\ awaited' = [awaited EXCEPT ![r] = 0] /\ answer' = [answer EXCEPT ![r] = None]
        /\ at' = at /\ sent' = sent
    BY <1>7 DEF Timeout
  <2>2. \A m \in 1..(at[r] - 1) : m \in DOMAIN script[r] => StepDone(r, m)
    BY <1>0 DEF RunInv
  <2>3. PICK n \in Nat : n = at[r]
    BY <1>0
  <2>4. \A m \in 1..(n - 1) : m \in DOMAIN script[r] => StepDone(r, m)
    BY <2>2, <2>3
  <2> QED
    BY <1>0, <1>3, <2>1, <2>3, <2>4
<1>8. ASSUME NEW r \in Run, Restart(r)
      PROVE  HostInv'
  <2>1. /\ awaited' = [awaited EXCEPT ![r] = 0] /\ answer' = [answer EXCEPT ![r] = None]
        /\ at' = [at EXCEPT ![r] = 1] /\ sent' = sent
    BY <1>8 DEF Restart
  <2>2. \A m \in 1..(1 - 1) : FALSE
    OBVIOUS
  <2> QED
    BY <1>5, <2>1, <2>2
<1>9. ASSUME NEW r \in Run, NEW q \in Run, Misdirect(r, q)
      PROVE  HostInv'
  <2>1. /\ awaited[r] # 0 /\ q # r
        /\ answer' = [answer EXCEPT ![r] = [run |-> q, number |-> sent[q], verdict |-> "ok"]]
        /\ at' = at /\ awaited' = awaited /\ sent' = sent
    BY <1>9 DEF Misdirect
  <2>2. /\ answer'[r].run = q /\ answer'[r].verdict = "ok"
    BY <1>0, <2>1
  <2>3. ~Correlates(r)'
    BY <2>1, <2>2 DEF Correlates
  <2>4. Working(r)' /\ ~OnWorker(r)'
    BY <1>0, <2>1 DEF RunInv, Working, OnWorker, Step
  <2>5. \A n \in 1..(at[r] - 1) : n \in DOMAIN script[r] => StepDone(r, n)'
    BY <1>0, <1>a DEF RunInv
  <2>6. RunInv(r)'
    BY <1>0, <2>1, <2>2, <2>3, <2>4, <2>5 DEF RunInv
  <2> QED
    BY <1>0, <1>1, <2>1, <2>6
<1>10. ASSUME UNCHANGED <<at, awaited, sent, answer>>
       PROVE  HostInv'
  BY <1>0, <1>10, RunStays DEF HostInv
<1>11. ASSUME NEW x \in pending, Recall(x)
       PROVE  HostInv'
  <2>1. /\ x.key \in DOMAIN intents /\ intents' = intents
        /\ Deliver(x, IF intents[x.key] = x.op THEN "ok" ELSE "conflict")
        /\ UNCHANGED <<at, awaited, sent>>
    BY <1>11 DEF Recall, Replay, Known, vars, rows
  <2>2. Proper(x)
    BY <1>0 DEF ExchangeInv
  <2>3. intents[x.key] = x.op
    BY <1>0, <2>1, <2>2, KnownAsAsked
  <2>4. Deliver(x, "ok")
    BY <2>1, <2>3
  <2> QED
    BY <1>0, <2>1, <2>2, <2>3, <2>4, AnswerArrives
<1>12. ASSUME NEW x \in pending, ServeEmbedded(x)
       PROVE  HostInv'
  <2>1. /\ Proper(x) /\ UNCHANGED <<at, awaited, sent>>
        /\ \/ ExecuteIntent(x.key, x.op) /\ Deliver(x, "ok")
           \/ Deliver(x, "refused")
    BY <1>0, <1>12 DEF ExchangeInv, ServeEmbedded
  <2>2. ASSUME ExecuteIntent(x.key, x.op)
        PROVE  x.key \in DOMAIN intents' /\ intents'[x.key] = x.op
    BY <2>2 DEF ExecuteIntent, Remember, With
  <2> QED
    BY <1>0, <2>1, <2>2, AnswerArrives
<1>13. ASSUME NEW t \in Tx, Finish(t)
       PROVE  HostInv'
  <2>1. /\ Commit(t) /\ Deliver(peer[t], "ok") /\ UNCHANGED <<at, awaited, sent>>
    BY <1>13 DEF Finish
  <2>2. /\ pc[t] = "timed" /\ intents' = With(intents, serving[t].call, serving[t].op)
    BY <2>1 DEF Commit, Remember
  <2>3. Proper(peer[t]) /\ serving[t] = [call |-> peer[t].key, op |-> peer[t].op]
    BY <1>0, <2>2 DEF ExchangeInv
  <2>4. PICK x : x = peer[t]
    OBVIOUS
  <2>5. serving[t].call = x.key /\ serving[t].op = x.op
    BY <2>3, <2>4
  <2>6. x.key \in DOMAIN intents' /\ intents'[x.key] = x.op
    BY <2>2, <2>5 DEF With
  <2>7. Proper(x) /\ Deliver(x, "ok")
    BY <2>1, <2>3, <2>4
  <2> QED
    BY <1>0, <2>1, <2>6, <2>7, AnswerArrives
<1>14. ASSUME NEW t \in Tx, Refuse(t)
       PROVE  HostInv'
  <2>1. /\ pc[t] # "idle" /\ Deliver(peer[t], "refused") /\ UNCHANGED <<at, awaited, sent>>
    BY <1>14 DEF Refuse, Abort
  <2>2. Proper(peer[t])
    BY <1>0, <2>1 DEF ExchangeInv
  <2>3. PICK x : x = peer[t]
    OBVIOUS
  <2>4. Proper(x) /\ Deliver(x, "refused")
    BY <2>1, <2>2, <2>3
  <2> QED
    BY <1>0, <2>1, <2>4, AnswerArrives
<1>15. ASSUME \/ \E y \in pending : Lose(y)
              \/ \E y \in pending, t \in Tx : Accept(y, t)
              \/ UNCHANGED hostVars
              \/ UNCHANGED sessionVars
       PROVE  UNCHANGED <<at, awaited, sent, answer>>
  BY <1>15 DEF Lose, Accept, hostVars, sessionVars
<1> QED
  BY <1>2, <1>4, <1>6, <1>7, <1>8, <1>9, <1>10, <1>11, <1>12, <1>13, <1>14, <1>15 DEF SessionNext

\* Exchanges stay proper.
LEMMA StepExchange ==
    ASSUME SessionInv, [SessionNext]_sessionVars
    PROVE  ExchangeInv'
<1>0. /\ HostInv /\ ExchangeInv
      /\ script' = script /\ RowsGrow /\ script \in Scripts
      /\ at \in [Run -> Nat] /\ awaited \in [Run -> Nat] /\ sent \in [Run -> Nat]
      /\ \A q \in Run : RunInv(q)
  BY SessionSteps DEF SessionInv, HostInv
<1>a. \A x : Proper(x) => Proper(x)'
  BY ProperStays
<1>b. \A r, n : (StepDone(r, n) => StepDone(r, n)')
  BY <1>0, StepStays
<1> DEFINE Asked(c, o) == \E r \in Run : \E n \in DOMAIN script[r] :
                             /\ c = Key(r, n) /\ o = script[r][n].op
                             /\ \A m \in 1..(n - 1) : StepDone(r, m)
           Busy(t) == Proper(peer[t]) /\ serving[t] = [call |-> peer[t].key, op |-> peer[t].op]
<1>c. ASSUME NEW c, NEW o, Asked(c, o)
      PROVE  Asked(c, o)'
  <2>1. PICK r \in Run : \E n \in DOMAIN script[r] :
                             /\ c = Key(r, n) /\ o = script[r][n].op
                             /\ \A m \in 1..(n - 1) : StepDone(r, m)
    BY <1>c
  <2>2. PICK n \in DOMAIN script[r] : /\ c = Key(r, n) /\ o = script[r][n].op
                                      /\ \A m \in 1..(n - 1) : StepDone(r, m)
    BY <2>1
  <2>3. (n \in DOMAIN script'[r]) /\ (c = Key(r, n)') /\ (o = script'[r][n].op)
    BY <1>0, <2>2 DEF Key
  <2>4. \A m \in 1..(n - 1) : StepDone(r, m)'
    BY <1>b, <2>2
  <2> QED
    BY <2>3, <2>4
<1>d. \A x : Proper(x) => Asked(x.key, x.op)
  BY DEF Proper
<1>e. ExchangeInv => \A c \in DOMAIN intents : Asked(c, intents[c])
  BY DEF ExchangeInv
<1>f. /\ \A x \in pending' : Proper(x)'
      /\ DOMAIN peer' = Tx
      /\ \A t \in Tx : pc'[t] # "idle" => Busy(t)'
      /\ \A c \in DOMAIN intents' : \E o : o = intents'[c] /\ Asked(c, o)'
      => ExchangeInv'
  BY DEF ExchangeInv
<1> HIDE DEF Asked
\* Pending exchanges.
<1>1. \A x \in pending' : Proper(x)'
  <2>1. ASSUME pending' \subseteq pending
        PROVE  \A x \in pending' : Proper(x)'
    BY <1>0, <1>a, <2>1 DEF ExchangeInv
  <2>2. ASSUME NEW r \in Run, Dispatch(r)
        PROVE  \A x \in pending' : Proper(x)'
    <3>1. /\ Working(r) /\ ~OnWorker(r) /\ awaited[r] = 0
          /\ awaited' = [awaited EXCEPT ![r] = sent[r] + 1]
          /\ sent' = [sent EXCEPT ![r] = sent[r] + 1]
          /\ pending' = pending \cup {[run |-> r, number |-> sent[r] + 1,
                                       key |-> Key(r, at[r]), op |-> Step(r).op]}
          /\ at' = at
      BY <2>2 DEF Dispatch
    <3>2. PICK n : n = at[r]
      OBVIOUS
    <3>3. PICK x : x = [run |-> r, number |-> sent[r] + 1, key |-> Key(r, at[r]), op |-> Step(r).op]
      OBVIOUS
    <3>4. /\ n \in DOMAIN script[r] /\ x.run = r /\ x.number = sent[r] + 1
          /\ x.key = Key(r, n) /\ x.op = script[r][n].op /\ x.op.op # "run_worker"
          /\ \A m \in 1..(n - 1) : m \in DOMAIN script[r] => StepDone(r, m)
      BY <1>0, <3>1, <3>2, <3>3 DEF Working, OnWorker, Step, RunInv
    <3>5. \A m \in 1..(n - 1) : m \in DOMAIN script[r]
      <4>1. DOMAIN script[r] = 1..Len(script[r]) /\ Len(script[r]) \in Nat
        BY <1>0, <3>4, KeyFacts
      <4> QED
        BY <3>4, <4>1
    <3>6. Proper(x)'
      <4>1. (x.number \in 1..sent'[r]) /\ at'[r] = n
        BY <1>0, <3>1, <3>2, <3>4
      <4>2. (x.key = Key(r, n)') /\ (x.op = script'[r][n].op) /\ (n \in DOMAIN script'[r])
        BY <1>0, <3>4 DEF Key
      <4>3. \A m \in 1..(n - 1) : StepDone(r, m)'
        BY <1>b, <3>4, <3>5
      <4> QED
        BY <3>4, <4>1, <4>2, <4>3 DEF Proper
    <3>7. \A y \in pending' : y \in pending \/ y = x
      BY <3>1, <3>3
    <3>8. \A y \in pending : Proper(y)'
      BY <1>0, <1>a DEF ExchangeInv
    <3> QED
      BY <3>6, <3>7, <3>8
  <2>3. ASSUME \/ \E r \in Run : \/ RunWorker(r) \/ Receive(r) \/ Timeout(r) \/ Restart(r)
                                 \/ \E q \in Run : Misdirect(r, q)
               \/ \E y \in pending : Lose(y) \/ Recall(y) \/ ServeEmbedded(y)
               \/ \E y \in pending, t \in Tx : Accept(y, t)
               \/ \E t \in Tx : Finish(t) \/ Refuse(t)
               \/ UNCHANGED hostVars
               \/ UNCHANGED sessionVars
        PROVE  pending' \subseteq pending
    BY <2>3 DEF RunWorker, Receive, Timeout, Restart, Misdirect, Lose, Recall, ServeEmbedded, Accept,
                Finish, Refuse, hostVars, sessionVars
  <2> QED
    BY <2>1, <2>2, <2>3 DEF SessionNext
\* Exchanges that the kernel works for.
<1>2. DOMAIN peer' = Tx /\ \A t \in Tx : pc'[t] # "idle" => Busy(t)'
  <2>0. DOMAIN peer = Tx /\ \A t \in Tx : pc[t] # "idle" => Busy(t)
    BY <1>0 DEF ExchangeInv
  <2>1. ASSUME NEW t \in Tx, pc[t] # "idle", peer'[t] = peer[t], serving'[t] = serving[t]
        PROVE  Busy(t)'
    <3>1. PICK x : x = peer[t]
      OBVIOUS
    <3>2. Proper(x)'
      BY <1>a, <2>0, <2>1, <3>1
    <3> QED
      BY <2>0, <2>1, <3>1, <3>2
  <2> HIDE DEF Busy
  <2>2. ASSUME peer' = peer, serving' = serving, \A t \in Tx : pc'[t] # "idle" => pc[t] # "idle"
        PROVE  DOMAIN peer' = Tx /\ \A t \in Tx : pc'[t] # "idle" => Busy(t)'
    BY <2>0, <2>1, <2>2
  <2>3. ASSUME NEW x \in pending, NEW t \in Tx, Accept(x, t)
        PROVE  DOMAIN peer' = Tx /\ \A u \in Tx : pc'[u] # "idle" => Busy(u)'
    <3>1. /\ peer' = [peer EXCEPT ![t] = x]
          /\ serving' = [serving EXCEPT ![t] = [call |-> x.key, op |-> x.op]]
          /\ pc' = [pc EXCEPT ![t] = "keyed"]
      BY <2>3 DEF Accept, Begin
    <3>2. serving \in [Tx -> [call : Call, op : Operation] \cup {None}] /\ DOMAIN pc = Tx
      BY DEF SessionInv, AgencyInv, TxType
    <3>3. /\ peer'[t] = x /\ serving'[t] = [call |-> x.key, op |-> x.op]
          /\ \A u \in Tx : u # t => peer'[u] = peer[u] /\ serving'[u] = serving[u] /\ pc'[u] = pc[u]
          /\ DOMAIN peer' = Tx
      BY <2>0, <3>1, <3>2
    <3>4. Proper(x)'
      BY <1>0, <1>a DEF ExchangeInv
    <3>5. Busy(t)'
      BY <3>3, <3>4 DEF Busy
    <3> QED
      BY <2>1, <3>3, <3>5
  <2>4. ASSUME NEW t \in Tx, Finish(t) \/ Refuse(t)
        PROVE  DOMAIN peer' = Tx /\ \A u \in Tx : pc'[u] # "idle" => Busy(u)'
    <3>1. peer' = [peer EXCEPT ![t] = None] /\ Leave(t)
      BY <2>4 DEF Finish, Refuse, Commit, Abort
    <3>2. DOMAIN serving = Tx /\ DOMAIN pc = Tx
      BY DEF SessionInv, AgencyInv, TxType
    <3>3. /\ pc'[t] = "idle" /\ DOMAIN peer' = Tx
          /\ \A u \in Tx : u # t => peer'[u] = peer[u] /\ serving'[u] = serving[u] /\ pc'[u] = pc[u]
      BY <2>0, <3>1, <3>2 DEF Leave
    <3> QED
      BY <2>1, <3>3
  <2>5. ASSUME \/ \E r \in Run : \/ Dispatch(r) \/ RunWorker(r) \/ Receive(r) \/ Timeout(r) \/ Restart(r)
                                 \/ \E q \in Run : Misdirect(r, q)
               \/ \E y \in pending : Lose(y) \/ Recall(y) \/ ServeEmbedded(y)
               \/ \E e \in effects, s \in {"succeeded", "failed"} : Settle(e, s) /\ UNCHANGED hostVars
               \/ UNCHANGED sessionVars
        PROVE  peer' = peer /\ serving' = serving /\ pc' = pc
    BY <2>5 DEF Dispatch, RunWorker, Receive, Timeout, Restart, Misdirect, Lose, Recall, Replay,
                ServeEmbedded, ExecuteIntent, Settle, hostVars, sessionVars, vars
  <2>6. ASSUME NEW t \in Tx, LockRows(t) \/ TakeTime(t), UNCHANGED hostVars
        PROVE  /\ peer' = peer /\ serving' = serving
               /\ \A u \in Tx : pc'[u] # "idle" => pc[u] # "idle"
    BY <2>6 DEF LockRows, TakeTime, hostVars, SessionInv, AgencyInv, TxType
  <2> QED
    BY <2>2, <2>3, <2>4, <2>5, <2>6 DEF SessionNext
\* What the kernel knows.
<1>3. \A c \in DOMAIN intents' : \E o : o = intents'[c] /\ Asked(c, o)'
  <2>1. ASSUME NEW c \in DOMAIN intents
        PROVE  /\ c \in DOMAIN intents' /\ intents'[c] = intents[c]
               /\ \E o : o = intents[c] /\ Asked(c, o)'
    <3>1. PICK o : o = intents[c]
      OBVIOUS
    <3>2. Asked(c, o)'
      BY <1>0, <1>c, <1>e, <3>1
    <3> QED
      BY <1>0, <3>1, <3>2 DEF RowsGrow, Extended
  <2>2. ASSUME intents' = intents
        PROVE  \A c \in DOMAIN intents' : \E o : o = intents'[c] /\ Asked(c, o)'
    BY <2>1, <2>2
  <2>3. ASSUME NEW x, Proper(x), intents' = With(intents, x.key, x.op)
        PROVE  \A c \in DOMAIN intents' : \E o : o = intents'[c] /\ Asked(c, o)'
    <3>1. DOMAIN intents' = DOMAIN intents \cup {x.key} /\ intents'[x.key] = x.op
      BY <2>3 DEF With
    <3>2. Asked(x.key, x.op)'
      BY <1>c, <1>d, <2>3
    <3> QED
      BY <2>1, <3>1, <3>2
  <2>4. ASSUME NEW t \in Tx, Finish(t)
        PROVE  \E x : Proper(x) /\ intents' = With(intents, x.key, x.op)
    <3>1. pc[t] # "idle" /\ intents' = With(intents, serving[t].call, serving[t].op)
      BY <2>4 DEF Finish, Commit, Remember
    <3>2. Proper(peer[t]) /\ serving[t] = [call |-> peer[t].key, op |-> peer[t].op]
      BY <1>0, <3>1 DEF ExchangeInv
    <3> QED
      BY <3>1, <3>2
  <2>5. ASSUME NEW x \in pending, ServeEmbedded(x)
        PROVE  \/ \E y : Proper(y) /\ intents' = With(intents, y.key, y.op)
               \/ intents' = intents
    BY <1>0, <2>5 DEF ServeEmbedded, ExecuteIntent, Remember, ExchangeInv, vars, rows
  <2>6. ASSUME \/ \E r \in Run : \/ Dispatch(r) \/ RunWorker(r) \/ Receive(r) \/ Timeout(r) \/ Restart(r)
                                 \/ \E q \in Run : Misdirect(r, q)
               \/ \E y \in pending : Lose(y) \/ Recall(y)
               \/ \E y \in pending, t \in Tx : Accept(y, t)
               \/ \E t \in Tx : Refuse(t) \/ LockRows(t) \/ TakeTime(t)
               \/ \E e \in effects, s \in {"succeeded", "failed"} : Settle(e, s)
               \/ UNCHANGED sessionVars
        PROVE  intents' = intents
    BY <2>6 DEF Dispatch, RunWorker, Receive, Timeout, Restart, Misdirect, Lose, Recall, Replay,
                Accept, Begin, Refuse, Abort, LockRows, TakeTime, Settle, sessionVars, vars, rows
  <2> QED
    BY <2>2, <2>3, <2>4, <2>5, <2>6 DEF SessionNext
<1> QED
  BY <1>1, <1>2, <1>3, <1>f

-----------------------------------------------------------------------------
(* The sessions' theorems *)

\* The invariant holds at first.
LEMMA InitSession == SessionInit => SessionInv
<1> SUFFICES ASSUME SessionInit
             PROVE  SessionInv
  OBVIOUS
<1>1. /\ Init /\ script \in Scripts
      /\ at = [r \in Run |-> 1] /\ awaited = [r \in Run |-> 0] /\ sent = [r \in Run |-> 0]
      /\ pending = {} /\ peer = [t \in Tx |-> None] /\ answer = [r \in Run |-> None]
  BY DEF SessionInit
<1>2. AgencyInv
  BY <1>1, InitAgency
<1>3. HostInv
  BY <1>1 DEF HostInv, RunInv
<1>4. (\A t \in Tx : pc[t] = "idle") /\ DOMAIN intents = {}
  BY <1>1 DEF Init
<1>5. ExchangeInv
  BY <1>1, <1>4 DEF ExchangeInv
<1> QED
  BY <1>2, <1>3, <1>5 DEF SessionInv

\* Every step preserves it, and is one of the kernel.
LEMMA StepSession == SessionInv /\ [SessionNext]_sessionVars => SessionInv' /\ [Next]_vars
<1> SUFFICES ASSUME SessionInv, [SessionNext]_sessionVars
             PROVE  SessionInv' /\ [Next]_vars
  OBVIOUS
<1>1. AgencyInv' /\ [Next]_vars
  BY SessionSteps
<1>2. HostInv' /\ ExchangeInv'
  BY StepHost, StepExchange
<1> QED
  BY <1>1, <1>2 DEF SessionInv

\* The sessions' invariant holds of every behavior of agents, connection and kernel.
THEOREM SessionInvariance == SessionSpec => []SessionInv
  BY InitSession, StepSession, PTL DEF SessionSpec

\* Agents, however they lose and repeat their requests, ask nothing of the kernel that
\* it does not serve by itself: every behavior of theirs is one of the kernel.
THEOREM SessionImplementsAgency == SessionSpec => Spec
<1>1. SessionInit => Init
  BY DEF SessionInit
<1> QED
  BY <1>1, SessionInvariance, StepSession, PTL DEF SessionSpec, Spec

\* So what the kernel promises it promises agents.
THEOREM SessionSafety ==
    SessionSpec => [](/\ HistoryFollowsRevisions /\ EffectsAreBound /\ BudgetFollowsEffects
                      /\ AnswersAreTrue /\ ExplanationsTell)
  BY SessionImplementsAgency, AgencyInvariance, AgencyPromises, ExplanationSafety, PTL

\* The steps of a run are done in order, none before all the earlier ones, and the host
\* is never ahead of the kernel.
THEOREM ScriptSafety == SessionSpec => []WorkFollowsScript
<1>1. SessionInv => WorkFollowsScript
  <2> SUFFICES ASSUME SessionInv
               PROVE  WorkFollowsScript
    OBVIOUS
  <2>1. /\ script \in Scripts /\ HostInv /\ ExchangeInv
        /\ at \in [Run -> Nat] /\ \A r \in Run : RunInv(r)
    BY DEF SessionInv, HostInv
  <2>2. ASSUME NEW r \in Run, NEW n \in DOMAIN script[r]
        PROVE  /\ n < at[r] => StepDone(r, n)
               /\ \A m \in (n + 1)..Len(script[r]) : Key(r, m) \in DOMAIN intents => StepDone(r, n)
    <3>0. DOMAIN script[r] = 1..Len(script[r]) /\ Len(script[r]) \in Nat
      BY <2>1, KeyFacts
    <3>1. ASSUME n < at[r]
          PROVE  StepDone(r, n)
      <4>1. n \in 1..(at[r] - 1)
        BY <2>1, <3>0, <3>1
      <4> QED
        BY <2>1, <4>1 DEF RunInv
    <3>2. ASSUME NEW m \in (n + 1)..Len(script[r]), Key(r, m) \in DOMAIN intents
          PROVE  StepDone(r, n)
      <4>1. m \in DOMAIN script[r] /\ n \in 1..(m - 1)
        BY <3>0
      <4>2. PICK q \in Run : \E p \in DOMAIN script[q] :
               /\ Key(r, m) = Key(q, p) /\ \A l \in 1..(p - 1) : StepDone(q, l)
        BY <2>1, <3>2 DEF ExchangeInv
      <4>3. PICK p \in DOMAIN script[q] :
               /\ Key(r, m) = Key(q, p) /\ \A l \in 1..(p - 1) : StepDone(q, l)
        BY <4>2
      <4>4. \A u \in Run : \A v \in DOMAIN script[u] : Key(u, v) = Key(r, m) => u = r /\ v = m
        BY <2>1, <4>1, KeyFacts
      <4>5. q = r /\ p = m
        BY <4>3, <4>4
      <4> QED
        BY <4>1, <4>3, <4>5
    <3> QED
      BY <3>1, <3>2
  <2> QED
    BY <2>2 DEF WorkFollowsScript
<1> QED
  BY <1>1, SessionInvariance, PTL

\* No run is told that a key of its own was used for something else: scopedIdempotencyKey
\* keeps runs and domains apart.
THEOREM KeySafety == SessionSpec => []NoFalseConflict
<1>1. SessionInv => NoFalseConflict
  BY DEF SessionInv, HostInv, RunInv, NoFalseConflict
<1> QED
  BY <1>1, SessionInvariance, PTL

\* Nothing that is recorded is lost or changed, by no step of either kernel: rows of
\* history, effects, outcomes, artifacts and results of calls stay as they are, an
\* assertion is closed once, by the system time of the step, and edges are only added,
\* between records.
THEOREM RecordsAreKept == Spec => [][RowsGrow /\ LineageGrows]_vars
<1>1. AgencyInv /\ [Next]_vars => [RowsGrow /\ LineageGrows]_vars
  BY StepGrows DEF AgencyInv, RowInv
<1> QED
  BY <1>1, AgencyInvariance, PTL DEF Spec

=============================================================================
