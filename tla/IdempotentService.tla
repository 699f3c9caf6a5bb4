--------------------------- MODULE IdempotentService ---------------------------
(***************************************************************************)
(* What execute() promises its callers, as if every call were answered in  *)
(* one step: the operation behind an idempotency key happens once, at most *)
(* one content is ever bound to the key, and every call is answered by     *)
(* that execution, by a conflict, or by a refusal that changed nothing.    *)
(***************************************************************************)
CONSTANTS Call, OpKey, Content, ArtifactOf, None

VARIABLES
    asked,      \* the key and the content of a call, None before
    executed,   \* the calls whose operation took effect
    replied     \* the call whose result a call was given, "conflict" or "refused"

serviceVars == <<asked, executed, replied>>

Init ==
    /\ asked    = [c \in Call |-> None]
    /\ executed = {}
    /\ replied  = [c \in Call |-> None]

Ask(c, k, x) ==
    /\ asked[c] = None
    /\ asked' = [asked EXCEPT ![c] = [key |-> k, content |-> x]]
    /\ UNCHANGED <<executed, replied>>

Waiting(c) == asked[c] # None /\ replied[c] = None

Reply(c, r) ==
    /\ replied' = [replied EXCEPT ![c] = r]
    /\ UNCHANGED asked

Execute(c) ==
    /\ Waiting(c)
    /\ \A d \in executed : asked[d].key # asked[c].key
    /\ executed' = executed \cup {c}
    /\ Reply(c, c)

Replay(c) ==
    /\ Waiting(c)
    /\ \E d \in executed : asked[d] = asked[c] /\ Reply(c, d)
    /\ UNCHANGED executed

\* Two contents cannot both have the key, or both be the artifact.
Clash(p, q) ==
    /\ p.content # q.content
    /\ \/ p.key = q.key
       \/ ArtifactOf[p.content] # None /\ ArtifactOf[p.content] = ArtifactOf[q.content]

Conflict(c) ==
    /\ Waiting(c)
    /\ \E d \in executed : Clash(asked[c], asked[d])
    /\ Reply(c, "conflict")
    /\ UNCHANGED executed

Refuse(c) ==
    /\ Waiting(c)
    /\ Reply(c, "refused")
    /\ UNCHANGED executed

Next ==
    \E c \in Call :
        \/ \E k \in OpKey, x \in Content : Ask(c, k, x)
        \/ Execute(c)
        \/ Replay(c)
        \/ Conflict(c)
        \/ Refuse(c)

Spec == Init /\ [][Next]_serviceVars
=============================================================================
