--------------------------- MODULE BitemporalStore ---------------------------
(***************************************************************************)
(* Assertions of the PostgreSQL profile in system time: every version has  *)
(* an interval [system_from, system_to); an assertion may supersede an     *)
(* open one, whose interval it closes; reads are as of a system time;      *)
(* effects are bound to the decision that is current at their time.        *)
(*                                                                         *)
(* System time comes from agentic.next_system_time(), which locks the one  *)
(* row of system_clock until the transaction ends, so that writers follow  *)
(* each other from the allocation on.  Readers take no lock.  The database *)
(* counts microseconds (ticks); every time that passes through the program *)
(* is a JavaScript Date and loses all but the milliseconds.                *)
(*                                                                         *)
(* Subject, predicate and perspective are one slot.  Valid time, status    *)
(* and the resolution policy filter or rank what a read sees: see          *)
(* Resolution.                                                             *)
(***************************************************************************)
EXTENDS Integers, FiniteSets

CONSTANTS
    Assertion,    \* assertion ids
    SlotOf,       \* the subject, predicate and perspective of an assertion
    Writer,       \* sessions that write
    Reader,       \* requests that read
    None,         \* NULL
    TicksPerMs,   \* microseconds in a millisecond
    MaxTick,      \* bound: the last tick that is explored
    Readings      \* bound: the times the wall clock shows

ASSUME BitemporalAssumption ==
    /\ TicksPerMs \in Nat \ {0}
    /\ MaxTick \in Nat
    /\ Readings \subseteq 0..MaxTick
    /\ 0 \in Readings
    /\ None \notin Assertion \cup Writer \cup Int

Tick == 0..MaxTick
Ms(t) == t \div TicksPerMs
Time == 0..Ms(MaxTick)
Latest(t, u) == IF t >= u THEN t ELSE u

VARIABLES
    now,       \* clock_timestamp()
    last,      \* system_clock.last_time, committed
    from,      \* system_from of a committed assertion, None before
    to,        \* system_to, None while the version is open
    prior,     \* supersedes_assertion_id
    pc,        \* where a writer's transaction is
    task,      \* what it is about: [op, id, prior]
    time,      \* the system time it allocated
    bound,     \* effects: the decision and the time they were bound at
    asked,     \* the system time a reader reads at and, as history, what was
               \* committed when it took that time: [at, known]
    seen       \* history: what it read

rowVars   == <<from, to, prior, bound>>
readVars  == <<asked, seen>>
storeVars == <<now, last, rowVars, pc, task, time, readVars>>

Idle == [op |-> "none", id |-> None, prior |-> None]

Init ==
    /\ now     = 0
    /\ last    = 0
    /\ from    = [a \in Assertion |-> None]
    /\ to      = [a \in Assertion |-> None]
    /\ prior   = [a \in Assertion |-> None]
    /\ pc      = [w \in Writer |-> "idle"]
    /\ task    = [w \in Writer |-> Idle]
    /\ time    = [w \in Writer |-> 0]
    /\ bound   = {}
    /\ asked   = [r \in Reader |-> None]
    /\ seen    = [r \in Reader |-> None]

\* The versions that a query as of system time T returns.
Visible(T) ==
    {a \in Assertion : /\ from[a] # None
                       /\ from[a] <= T
                       /\ to[a] = None \/ to[a] > T}

-----------------------------------------------------------------------------
(* The wall clock, which may be set back *)

SetClock ==
    /\ \E t \in Readings : t # now /\ now' = t
    /\ UNCHANGED <<last, rowVars, pc, task, time, readVars>>

-----------------------------------------------------------------------------
(* Writers *)

Begin(w, op, a, p) ==
    /\ pc[w] = "idle"
    /\ pc'   = [pc EXCEPT ![w] = "begun"]
    /\ task' = [task EXCEPT ![w] = [op |-> op, id |-> a, prior |-> p]]
    /\ UNCHANGED <<now, last, rowVars, time, readVars>>

\* Mutant: last_time is read without FOR UPDATE.
ClockUnlocked == TRUE

\* No other transaction has the row of system_clock.
ClockFree == \A w \in Writer : pc[w] # "timed"

\* Mutant: the wall clock is trusted.
WallClock == now

\* GREATEST(clock_timestamp(), last_time + 1 microsecond)
NextSystemTime == Latest(now, last + 1)

\* next_system_time(): waits for the clock row and holds it to the end.
Allocate(w) ==
    /\ pc[w] = "begun"
    /\ ClockFree
    /\ NextSystemTime <= MaxTick
    /\ time' = [time EXCEPT ![w] = NextSystemTime]
    /\ pc'   = [pc EXCEPT ![w] = "timed"]
    /\ UNCHANGED <<now, last, rowVars, task, readVars>>

Finish(w) ==
    /\ pc'   = [pc EXCEPT ![w] = "idle"]
    /\ task' = [task EXCEPT ![w] = Idle]
    /\ time' = [time EXCEPT ![w] = 0]

\* COMMIT.  The receipt has allocated one more system time.
Commit(w) ==
    /\ Latest(now, time[w] + 1) <= MaxTick
    /\ last' = Latest(now, time[w] + 1)
    /\ Finish(w)

\* Mutants: a closed version is superseded again; the empty interval that the
\* table's CHECK refuses is written.
SupersedableTwice(p, a, t) ==
    from[p] # None /\ SlotOf[p] = SlotOf[a] /\ from[p] < t
SupersedableAtOnce(p, a, t) ==
    from[p] # None /\ SlotOf[p] = SlotOf[a] /\ to[p] = None

\* The superseded version is open, has the same slot, and began in an earlier
\* millisecond (CHECK (system_to > system_from)).
Supersedable(p, a, t) ==
    /\ from[p] # None
    /\ to[p] = None
    /\ SlotOf[p] = SlotOf[a]
    /\ from[p] < t

\* The system time of the writes of a transaction: a Date in the program.
SystemTime(w) == Ms(time[w])

\* putAssertion from the allocated time to the commit.
PutAssertion(w) ==
    LET a == task[w].id
        p == task[w].prior
        t == SystemTime(w)
    IN /\ pc[w] = "timed"
       /\ task[w].op = "assert"
       /\ from[a] = None
       /\ p # None => Supersedable(p, a, t)
       /\ from'  = [from EXCEPT ![a] = t]
       /\ prior' = [prior EXCEPT ![a] = p]
       /\ to'    = IF p = None THEN to ELSE [to EXCEPT ![p] = t]
       /\ Commit(w)
       /\ UNCHANGED <<now, bound, readVars>>

\* Mutant: a decision that was current when the transaction began will do.
OnceCurrent(a, t) == from[a] # None

\* requireCurrentAssertionKind
Current(a, t) == a \in Visible(t)

\* request_effect: the decision must be current at the time of the effect.
BindEffect(w) ==
    LET a == task[w].id
        t == SystemTime(w)
    IN /\ pc[w] = "timed"
       /\ task[w].op = "bind"
       /\ Current(a, t)
       /\ bound' = bound \cup {<<a, t>>}
       /\ Commit(w)
       /\ UNCHANGED <<now, from, to, prior, readVars>>

\* A check fails, the connection breaks or the statement times out.
Rollback(w) ==
    /\ pc[w] # "idle"
    /\ Finish(w)
    /\ UNCHANGED <<now, last, rowVars, readVars>>

-----------------------------------------------------------------------------
(* Readers: resolve and search without systemAt *)

\* Mutant: the wall clock is trusted.
WallClockTime == Ms(now)

\* GREATEST(clock_timestamp(), last_time)
CurrentSystemTime == Ms(Latest(now, last))

Committed == {a \in Assertion : from[a] # None}

\* currentSystemTime, one statement ...
ReadClock(r) ==
    /\ asked[r] = None
    /\ asked' = [asked EXCEPT ![r] = [at |-> CurrentSystemTime, known |-> Committed]]
    /\ UNCHANGED <<now, last, rowVars, pc, task, time, seen>>

\* ... and the query, another, with a snapshot of its own.
Query(r) ==
    /\ asked[r] # None
    /\ seen[r] = None
    /\ seen' = [seen EXCEPT ![r] = Visible(asked[r].at)]
    /\ UNCHANGED <<now, last, rowVars, pc, task, time, asked>>

-----------------------------------------------------------------------------
Next ==
    \/ SetClock
    \/ \E w \in Writer :
        \/ \E a \in Assertion, p \in Assertion \cup {None} : Begin(w, "assert", a, p)
        \/ \E a \in Assertion : Begin(w, "bind", a, None)
        \/ Allocate(w)
        \/ PutAssertion(w)
        \/ BindEffect(w)
        \/ Rollback(w)
    \/ \E r \in Reader : ReadClock(r) \/ Query(r)

Spec == Init /\ [][Next]_storeVars

-----------------------------------------------------------------------------
(* Correctness *)

TypeOK ==
    /\ now  \in Readings
    /\ last \in Tick
    /\ from  \in [Assertion -> Time \cup {None}]
    /\ to    \in [Assertion -> Time \cup {None}]
    /\ prior \in [Assertion -> Assertion \cup {None}]
    /\ pc    \in [Writer -> {"idle", "begun", "timed"}]
    /\ task  \in [Writer -> [op    : {"none", "assert", "bind"},
                             id    : Assertion \cup {None},
                             prior : Assertion \cup {None}]]
    /\ time  \in [Writer -> Tick]
    /\ bound \subseteq Assertion \X Time
    /\ asked \in [Reader -> [at : Time, known : SUBSET Assertion] \cup {None}]
    /\ seen  \in [Reader -> (SUBSET Assertion) \cup {None}]

\* Versions hand over to each other without gap or overlap: a version is open
\* until exactly one other supersedes it, at the instant that one begins, and
\* none has an empty life.
VersionsHandOver ==
    \A a \in Assertion :
        /\ to[a] # None => /\ from[a] # None
                           /\ from[a] < to[a]
                           /\ \E b \in Assertion : prior[b] = a
        /\ \A b \in Assertion : prior[b] = a =>
                /\ from[b] # None /\ from[b] = to[a]
                /\ \A c \in Assertion : prior[c] = a => c = b

\* S lacks no successor of its members.
HasSuccessors(S) == \A b \in Assertion : prior[b] \in S => b \in S

\* The versions that descend from a, itself included: what every such set with a has.
Descendants(a) ==
    {b \in Assertion : \A S \in SUBSET Assertion : a \in S /\ HasSuccessors(S) => b \in S}

\* From its first version on, a fact has exactly one version at every system
\* time: no read, current or historical, finds it missing or finds it twice.
OneVersionVisible ==
    \A a \in Assertion :
        from[a] # None /\ prior[a] = None =>
            \A T \in Time : T >= from[a] =>
                Cardinality(Descendants(a) \cap Visible(T)) = 1

\* What was believed before the last committed time is settled: no later write
\* adds to it or takes from it, even if the wall clock is set back.  (From that
\* time on it is not: a writer may have allocated its time and not committed.)
PastIsStable ==
    [][\A T \in Time : T < Ms(last) => Visible(T)' = Visible(T)]_storeVars

\* The decision behind an effect was current when the effect was requested, and
\* was not closed before that time by anything that committed later.
BoundWasCurrent ==
    \A e \in bound : /\ from[e[1]] # None /\ from[e[1]] <= e[2]
                     /\ to[e[1]] = None \/ to[e[1]] >= e[2]

\* A read finds every fact that was committed before it began, in that version
\* or a later one, even if the wall clock is behind the system clock.
ReadsSeeCommitted ==
    \A r \in Reader : seen[r] # None =>
        \A a \in asked[r].known : Descendants(a) \cap seen[r] # {}

=============================================================================
