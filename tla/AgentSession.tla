----------------------------- MODULE AgentSession -----------------------------
(***************************************************************************)
(* Agents at work: the hosts of several runs go through scripts of steps,  *)
(* each a call of the middleware, over a connection that loses requests    *)
(* and answers, into the kernel of GenericAgency. A step that timed out is *)
(* sent again under the same key, while the first request may still be     *)
(* served; a host that died starts its script again from the beginning.    *)
(*                                                                         *)
(* The incident-response scenario is such a script: its steps have keys    *)
(* made of the run id and the step's name.                                 *)
(***************************************************************************)
EXTENDS GenericAgency

CONSTANTS
    Run,        \* runs of the middleware, or of the scenario
    Scripts,    \* sets of scripts: functions from runs to sequences of steps
    MaxFaults   \* bound: timeouts, restarts and misdirected answers

(***************************************************************************)
(* A step has a domain ("tool-call", "host-operation", "turn-record", or   *)
(* "step" in the scenario), the name that the host gives it, and an        *)
(* operation. The operation "run_worker" is no call: the host has a worker *)
(* of its own work on the effect once.                                     *)
(* A Call is a key that ScopedKey derives.                                 *)
(***************************************************************************)
VARIABLES
    script,     \* what the runs do
    at,         \* the step a run is at; 0 when an error has ended it
    awaited,    \* the exchange whose answer it waits for, 0 if none
    sent,       \* the number of exchanges it has begun
    pending,    \* exchanges that have not reached the kernel
    peer,       \* the exchange that a session of the kernel works for
    answer,     \* what has come back to a run
    faults

hostVars    == <<script, at, awaited, sent, pending, peer, answer, faults>>
sessionVars == <<vars, hostVars>>

SessionInit ==
    /\ Init
    /\ script  \in Scripts
    /\ at      = [r \in Run |-> 1]
    /\ awaited = [r \in Run |-> 0]
    /\ sent    = [r \in Run |-> 0]
    /\ pending = {}
    /\ peer    = [t \in Tx |-> None]
    /\ answer  = [r \in Run |-> None]
    /\ faults  = 0

-----------------------------------------------------------------------------
(* The host *)

\* invokeTool: a model's tool call under its call id, or the key that it gave.
InvokeTool(name, o) == [domain |-> "tool-call", name |-> name, op |-> o]

\* execute: an operation of the host's own.
Execute(name, o) == [domain |-> "host-operation", name |-> name, op |-> o]

\* recordTurn: an artifact that is named after the run and the turn.
RecordTurn(r, turn, content) ==
    [domain |-> "turn-record", name |-> turn,
     op |-> [op |-> "put_artifact", artifact |-> <<r, turn>>, content |-> content]]

\* Mutant: one name space for tool calls, host operations and turns.
KeyWithoutDomain(r, domain, name) == <<r, IF domain = "step" THEN domain ELSE "any", name>>

\* scopedIdempotencyKey: a hash of tenant, principal, run and name, in its domain.
\* The scenario's keys, its run id and the step's name, are in a domain of their own.
ScopedKey(r, domain, name) == <<r, domain, name>>

Key(r, n) == ScopedKey(r, script[r][n].domain, script[r][n].name)

\* Hosts give the steps of a run names of their own.
ASSUME SessionAssumption ==
    \A s \in Scripts :
        /\ DOMAIN s = Run
        /\ \A r \in Run :
            /\ s[r] \in Seq(ToSet(s[r]))
            /\ \A n \in DOMAIN s[r] :
                /\ <<r, s[r][n].domain, s[r][n].name>> \in Call
                /\ s[r][n].op \in Operation
                /\ \A m \in DOMAIN s[r] :
                      s[r][m].domain = s[r][n].domain /\ s[r][m].name = s[r][n].name => m = n

Working(r) == at[r] \in DOMAIN script[r]
Step(r)    == script[r][at[r]]
OnWorker(r) == Working(r) /\ Step(r).op.op = "run_worker"

\* The effect that a step is about.
AskedBy(o, e) == e.workflow = o.workflow /\ e.revision = o.revision

\* dispatch: an envelope with the step's key, and its exchange. The middleware names
\* what it asks (the request id of a tool call is derived as its key is), the transport
\* pairs request and answer.
Dispatch(r) ==
    /\ Working(r) /\ ~OnWorker(r)
    /\ awaited[r] = 0
    /\ awaited' = [awaited EXCEPT ![r] = sent[r] + 1]
    /\ sent'    = [sent EXCEPT ![r] = @ + 1]
    /\ pending' = pending \cup {[run |-> r, number |-> sent[r] + 1,
                                 key |-> Key(r, at[r]), op |-> Step(r).op]}
    /\ UNCHANGED <<vars, script, at, peer, answer, faults>>

\* The host runs a worker on the effect that it has asked for, and goes on if the worker
\* had something to do, whatever came of it (Settle, or nothing yet). A worker that found
\* nothing due, or could not record what came of it, is an error. No worker serves the
\* embedded profile.
RunWorker(r) ==
    /\ OnWorker(r)
    /\ profile = "production"
    /\ \/ /\ \E e \in effects \ DOMAIN outcome : AskedBy(Step(r).op, e)
          /\ at' = [at EXCEPT ![r] = @ + 1]
       \/ at' = [at EXCEPT ![r] = 0]
    /\ UNCHANGED <<vars, script, awaited, sent, pending, peer, answer, faults>>

\* Mutant: an answer is taken for what was asked.
CorrelatesAlways(r) == TRUE

\* assertCorrelatedResponse
Correlates(r) == answer[r].number = awaited[r] /\ answer[r].run = r

\* An answer that is not one's own is an error of the exchange: it is made again.
Receive(r) ==
    /\ awaited[r] # 0
    /\ answer[r] # None
    /\ awaited' = [awaited EXCEPT ![r] = 0]
    /\ answer'  = [answer EXCEPT ![r] = None]
    /\ at' = [at EXCEPT ![r] = IF ~Correlates(r) THEN @
                               ELSE IF answer[r].verdict = "ok" THEN @ + 1 ELSE 0]
    /\ UNCHANGED <<vars, script, sent, pending, peer, faults>>

Fault == faults < MaxFaults /\ faults' = faults + 1

\* The deadline passes: because the request was lost, or its answer, or because the
\* kernel is slow, or dead. The host makes the exchange again.
Timeout(r) ==
    /\ Fault
    /\ awaited[r] # 0
    /\ awaited' = [awaited EXCEPT ![r] = 0]
    /\ answer'  = [answer EXCEPT ![r] = None]
    /\ UNCHANGED <<vars, script, at, sent, pending, peer>>

\* The host dies, or an error has ended its script: the run is begun again.
Restart(r) ==
    /\ Fault
    /\ at'      = [at EXCEPT ![r] = 1]
    /\ awaited' = [awaited EXCEPT ![r] = 0]
    /\ answer'  = [answer EXCEPT ![r] = None]
    /\ UNCHANGED <<vars, script, sent, pending, peer>>

-----------------------------------------------------------------------------
(* The connection *)

Lose(x) ==
    /\ x \in pending
    /\ pending' = pending \ {x}
    /\ UNCHANGED <<vars, script, at, awaited, sent, peer, answer, faults>>

\* The answer to an exchange goes to the run, if the run still waits for it.
Deliver(x, verdict) ==
    answer' = IF awaited[x.run] = x.number
              THEN [answer EXCEPT ![x.run] =
                        [run |-> x.run, number |-> x.number, verdict |-> verdict]]
              ELSE answer

\* Something in between hands a run the answer to an exchange of another.
Misdirect(r, q) ==
    /\ Fault
    /\ awaited[r] # 0
    /\ q # r /\ sent[q] > 0
    /\ answer' = [answer EXCEPT ![r] = [run |-> q, number |-> sent[q], verdict |-> "ok"]]
    /\ UNCHANGED <<vars, script, at, awaited, sent, pending, peer>>

-----------------------------------------------------------------------------
(* The kernel *)

Accept(x, t) ==
    /\ x \in pending
    /\ Begin(t, x.key, x.op)
    /\ peer'    = [peer EXCEPT ![t] = x]
    /\ pending' = pending \ {x}
    /\ UNCHANGED <<script, at, awaited, sent, answer, faults>>

Finish(t) ==
    /\ Commit(t)
    /\ Deliver(peer[t], "ok")
    /\ peer' = [peer EXCEPT ![t] = None]
    /\ UNCHANGED <<script, at, awaited, sent, pending, faults>>

Refuse(t) ==
    /\ Abort(t)
    /\ Deliver(peer[t], "refused")
    /\ peer' = [peer EXCEPT ![t] = None]
    /\ UNCHANGED <<script, at, awaited, sent, pending, faults>>

\* The key has a result: for the same request, or for another one.
Recall(x) ==
    /\ x \in pending
    /\ Replay(x.key)
    /\ Deliver(x, IF intents[x.key] = x.op THEN "ok" ELSE "conflict")
    /\ pending' = pending \ {x}
    /\ UNCHANGED <<script, at, awaited, sent, peer, faults>>

\* The same in the embedded profile.
ServeEmbedded(x) ==
    /\ x \in pending
    /\ profile = "embedded"
    /\ ~Known(x.key)
    /\ \/ ExecuteIntent(x.key, x.op) /\ Deliver(x, "ok")
       \/ UNCHANGED vars /\ Deliver(x, "refused")
    /\ pending' = pending \ {x}
    /\ UNCHANGED <<script, at, awaited, sent, peer, faults>>

-----------------------------------------------------------------------------
SessionNext ==
    \/ \E r \in Run :
        \/ Dispatch(r)
        \/ RunWorker(r)
        \/ Receive(r)
        \/ Timeout(r)
        \/ Restart(r)
        \/ \E q \in Run : Misdirect(r, q)
    \/ \E x \in pending :
        \/ Lose(x)
        \/ \E t \in Tx : Accept(x, t)
        \/ Recall(x)
        \/ ServeEmbedded(x)
    \/ \E t \in Tx : Finish(t) \/ Refuse(t)
    \/ /\ \/ \E t \in Tx : LockRows(t) \/ TakeTime(t)
          \/ \E e \in effects, s \in {"succeeded", "failed"} : Settle(e, s)
       /\ UNCHANGED hostVars

SessionSpec == SessionInit /\ [][SessionNext]_sessionVars

-----------------------------------------------------------------------------
(* Correctness *)

Executed(r, n) == Key(r, n) \in DOMAIN intents /\ intents[Key(r, n)] = script[r][n].op

EffectThere(o) == \E e \in effects : AskedBy(o, e)

StepDone(r, n) ==
    LET o == script[r][n].op IN
    IF o.op = "run_worker" THEN EffectThere(o) ELSE Executed(r, n)

\* What a run has done is a beginning of its script, each step once and in order,
\* whatever was lost, answered late, sent twice or begun again; no worker is
\* run on an effect that was not asked for, and the host is never ahead of the kernel.
WorkFollowsScript ==
    \A r \in Run : \A n \in DOMAIN script[r] :
        /\ n < at[r] => StepDone(r, n)
        /\ \A m \in (n + 1)..Len(script[r]) : Key(r, m) \in DOMAIN intents => StepDone(r, n)

\* No run is told that its key was used for something else: the names that a host
\* gives to tool calls, to its own operations and to turns do not collide, nor do
\* those of two runs.
NoFalseConflict == \A r \in Run : answer[r] # None => answer[r].verdict # "conflict"

=============================================================================
