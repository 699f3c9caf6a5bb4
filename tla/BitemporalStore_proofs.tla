------------------------ MODULE BitemporalStore_proofs ------------------------
(***************************************************************************)
(* The history of assertions, for any number of assertions, writers and    *)
(* readers and any resolution of the clock.  All of it rests on one fact:  *)
(* whoever holds the clock row has a time after the last committed one.    *)
(* Then what reads see of it, and what resolve answers.                    *)
(***************************************************************************)
EXTENDS Resolution, TLAPS, FiniteSetTheorems

\* Division, by what it means.
LEMMA MsFloor ==
    ASSUME BitemporalAssumption, NEW t \in Nat
    PROVE  Ms(t) \in Nat /\ TicksPerMs * Ms(t) <= t /\ t < TicksPerMs * (Ms(t) + 1)
  BY DEF BitemporalAssumption, Ms

LEMMA MsMonotone ==
    ASSUME BitemporalAssumption, NEW t \in Nat, NEW u \in Nat, t <= u
    PROVE  Ms(t) <= Ms(u)
<1> DEFINE b == TicksPerMs
<1>1. b \in Nat \ {0}
  BY DEF BitemporalAssumption
<1>2. Ms(t) \in Nat /\ b * Ms(t) <= t
  BY MsFloor
<1>3. Ms(u) \in Nat /\ u < b * (Ms(u) + 1)
  BY MsFloor
<1>4. ASSUME NEW x \in Nat, NEW y \in Nat, b * x < b * y
      PROVE  x < y
  BY <1>1, <1>4
<1>5. b * Ms(t) < b * (Ms(u) + 1)
  BY <1>1, <1>2, <1>3
<1>6. Ms(t) < Ms(u) + 1
  <2> HIDE DEF b
  <2> QED
    BY <1>2, <1>3, <1>4, <1>5
<1> QED
  BY <1>2, <1>3, <1>6

LEMMA MsTyped ==
    ASSUME BitemporalAssumption, NEW t \in Tick
    PROVE  Ms(t) \in Time
<1>1. t \in Nat /\ t <= MaxTick /\ MaxTick \in Nat
  BY DEF BitemporalAssumption, Tick
<1> QED
  BY <1>1, MsFloor, MsMonotone DEF Time

-----------------------------------------------------------------------------
(* The invariant *)

\* The clock row is held by one writer at most, whose time is after the last.
Clock ==
    /\ \A w \in Writer : pc[w] = "timed" => time[w] > last
    /\ \A v, w \in Writer : pc[v] = "timed" /\ pc[w] = "timed" => v = w

\* A transaction is about an assertion.
Tasks == \A w \in Writer : task[w].op # "none" => task[w].id \in Assertion

\* Nothing committed is later than the last committed time.
Settled ==
    /\ \A a \in Assertion : from[a] # None => from[a] <= Ms(last)
    /\ \A e \in bound : e[2] <= Ms(last)

StoreInv == TypeOK /\ Clock /\ Tasks /\ Settled /\ VersionsHandOver /\ BoundWasCurrent

LEMMA StoreInitial == ASSUME BitemporalAssumption, Init PROVE StoreInv
<1>1. 0 \in Tick /\ 0 \in Readings
  BY DEF BitemporalAssumption, Tick
<1>2. TypeOK
  <2>1. Idle \in [op : {"none", "assert", "bind"}, id : Assertion \cup {None},
                 prior : Assertion \cup {None}]
    BY DEF Idle
  <2> QED
    BY <1>1, <2>1 DEF Init, TypeOK
<1>3. None \notin Assertion
  BY DEF BitemporalAssumption
<1>4. Clock /\ Tasks /\ Settled /\ BoundWasCurrent
  BY DEF Init, Clock, Tasks, Settled, BoundWasCurrent, Idle
<1>5. VersionsHandOver
  BY <1>3 DEF Init, VersionsHandOver
<1> QED
  BY <1>2, <1>4, <1>5 DEF StoreInv

\* What the writes of PutAssertion are.
LEMMA PutFacts ==
    ASSUME BitemporalAssumption, StoreInv, NEW w \in Writer, PutAssertion(w)
    PROVE  \E a \in Assertion, p \in Assertion \cup {None}, t \in Time :
               /\ t = Ms(time[w]) /\ Ms(last) <= t /\ t <= Ms(last')
               /\ from[a] = None
               /\ p # None => /\ from[p] # None /\ to[p] = None /\ from[p] < t
               /\ \A x \in Assertion : /\ from'[x] = IF x = a THEN t ELSE from[x]
                                       /\ prior'[x] = IF x = a THEN p ELSE prior[x]
                                       /\ to'[x] = IF x = p THEN t ELSE to[x]
<1> DEFINE a == task[w].id
           p == task[w].prior
           t == Ms(time[w])
<1>1. a \in Assertion /\ p \in Assertion \cup {None}
  BY DEF PutAssertion, StoreInv, Tasks, TypeOK
<1>2. time[w] \in Tick /\ last \in Tick /\ last < time[w]
  BY DEF PutAssertion, StoreInv, TypeOK, Clock
<1>3. t \in Time /\ Ms(last) <= t
  BY <1>2, MsTyped, MsMonotone DEF Tick, BitemporalAssumption
<1>4. last' \in Tick /\ time[w] <= last'
  BY <1>2 DEF PutAssertion, Commit, Latest, StoreInv, TypeOK, Tick, BitemporalAssumption
<1>5. t <= Ms(last')
  BY <1>2, <1>4, MsMonotone DEF Tick, BitemporalAssumption
<1>6. /\ from[a] = None
      /\ p # None => Supersedable(p, a, t)
      /\ from' = [from EXCEPT ![a] = t]
      /\ prior' = [prior EXCEPT ![a] = p]
      /\ to' = IF p = None THEN to ELSE [to EXCEPT ![p] = t]
  BY DEF PutAssertion, SystemTime
<1>7. \A x \in Assertion : /\ from'[x] = IF x = a THEN t ELSE from[x]
                           /\ prior'[x] = IF x = a THEN p ELSE prior[x]
                           /\ to'[x] = IF x = p THEN t ELSE to[x]
  <2> HIDE DEF a, p, t
  <2>1. /\ DOMAIN from = Assertion /\ DOMAIN to = Assertion /\ DOMAIN prior = Assertion
        /\ None \notin Assertion
    BY DEF StoreInv, TypeOK, BitemporalAssumption
  <2>2. \A x \in Assertion : /\ from'[x] = IF x = a THEN t ELSE from[x]
                             /\ prior'[x] = IF x = a THEN p ELSE prior[x]
    BY <1>6, <2>1
  <2>3. \A x \in Assertion : to'[x] = IF x = p THEN t ELSE to[x]
    <3>1. CASE p = None
      BY <3>1, <1>6, <2>1
    <3>2. CASE p # None
      <4>1. to' = [to EXCEPT ![p] = t]
        BY <3>2, <1>6
      <4> QED
        BY <3>2, <4>1, <2>1
    <3> QED
      BY <3>1, <3>2
  <2> QED
    BY <2>2, <2>3
<1>8. p # None => /\ from[p] # None /\ to[p] = None /\ from[p] < t
  BY <1>6 DEF Supersedable
<1> HIDE DEF a, p
<1> QED
  BY <1>1, <1>3, <1>5, <1>6, <1>7, <1>8

-----------------------------------------------------------------------------
LEMMA FinishTyped ==
    ASSUME TypeOK, NEW w \in Writer, Finish(w), BitemporalAssumption
    PROVE  /\ pc' \in [Writer -> {"idle", "begun", "timed"}]
           /\ task' \in [Writer -> [op    : {"none", "assert", "bind"},
                                   id    : Assertion \cup {None},
                                   prior : Assertion \cup {None}]]
           /\ time' \in [Writer -> Tick]
<1>1. Idle \in [op : {"none", "assert", "bind"}, id : Assertion \cup {None},
               prior : Assertion \cup {None}]
  BY DEF Idle
<1>2. 0 \in Tick
  BY DEF Tick, BitemporalAssumption
<1> QED
  BY <1>1, <1>2 DEF Finish, TypeOK

LEMMA CommitTyped ==
    ASSUME TypeOK, NEW w \in Writer, Commit(w), BitemporalAssumption
    PROVE  last' \in Tick /\ last' > time[w]
<1>1. now \in Nat /\ time[w] \in Nat /\ MaxTick \in Nat
  BY DEF TypeOK, Tick, BitemporalAssumption
<1> QED
  BY <1>1 DEF Commit, Latest, Tick

LEMMA Typed ==
    ASSUME BitemporalAssumption, StoreInv, [Next]_storeVars
    PROVE  TypeOK'
<1> USE DEF StoreInv
<1>1. CASE UNCHANGED storeVars
  BY <1>1 DEF storeVars, rowVars, readVars, TypeOK
<1>2. CASE SetClock
  BY <1>2 DEF SetClock, rowVars, readVars, TypeOK
<1>3. ASSUME NEW w \in Writer, NEW o \in {"assert", "bind"}, NEW a \in Assertion,
             NEW p \in Assertion \cup {None}, Begin(w, o, a, p)
      PROVE  TypeOK'
  <2>1. task' \in [Writer -> [op : {"none", "assert", "bind"}, id : Assertion \cup {None},
                             prior : Assertion \cup {None}]]
    BY <1>3 DEF Begin, TypeOK
  <2> QED
    BY <1>3, <2>1 DEF Begin, rowVars, readVars, TypeOK
<1>4. ASSUME NEW w \in Writer, Allocate(w)
      PROVE  TypeOK'
  <2>1. NextSystemTime \in Tick
    BY <1>4 DEF Allocate, NextSystemTime, Latest, TypeOK, Tick, BitemporalAssumption
  <2> QED
    BY <1>4, <2>1 DEF Allocate, rowVars, readVars, TypeOK
<1>5. ASSUME NEW w \in Writer, PutAssertion(w)
      PROVE  TypeOK'
  <2>1. Finish(w) /\ Commit(w)
    BY <1>5 DEF PutAssertion, Commit
  <2>2. time[w] \in Tick
    BY DEF TypeOK
  <2>3. SystemTime(w) \in Time
    BY <2>2, MsTyped DEF SystemTime
  <2>4. /\ from' \in [Assertion -> Time \cup {None}]
        /\ to' \in [Assertion -> Time \cup {None}]
        /\ prior' \in [Assertion -> Assertion \cup {None}]
    <3>1. task[w].prior \in Assertion \cup {None}
      BY DEF TypeOK
    <3> QED
      BY <1>5, <2>3, <3>1 DEF PutAssertion, TypeOK
  <2>5. UNCHANGED <<now, bound, readVars>>
    BY <1>5 DEF PutAssertion
  <2> QED
    BY <2>1, <2>4, <2>5, FinishTyped, CommitTyped DEF TypeOK, readVars
<1>6. ASSUME NEW w \in Writer, BindEffect(w)
      PROVE  TypeOK'
  <2>1. Finish(w) /\ Commit(w)
    BY <1>6 DEF BindEffect, Commit
  <2>2. time[w] \in Tick
    BY DEF TypeOK
  <2>3. SystemTime(w) \in Time
    BY <2>2, MsTyped DEF SystemTime
  <2>4. bound' \subseteq Assertion \X Time
    BY <1>6, <2>3 DEF BindEffect, Current, Visible, TypeOK
  <2>5. UNCHANGED <<now, from, to, prior, readVars>>
    BY <1>6 DEF BindEffect
  <2> QED
    BY <2>1, <2>4, <2>5, FinishTyped, CommitTyped DEF TypeOK, readVars
<1>7. ASSUME NEW w \in Writer, Rollback(w)
      PROVE  TypeOK'
  <2>1. Finish(w)
    BY <1>7 DEF Rollback
  <2> QED
    BY <1>7, <2>1, FinishTyped DEF Rollback, TypeOK, rowVars, readVars
<1>8. ASSUME NEW r \in Reader, ReadClock(r)
      PROVE  TypeOK'
  <2>1. Latest(now, last) \in Tick
    BY DEF TypeOK, Latest, Tick, BitemporalAssumption
  <2>2. CurrentSystemTime \in Time /\ Committed \in SUBSET Assertion
    BY <2>1, MsTyped DEF CurrentSystemTime, Committed
  <2> QED
    BY <1>8, <2>2 DEF ReadClock, rowVars, TypeOK
<1>9. ASSUME NEW r \in Reader, Query(r)
      PROVE  TypeOK'
  <2>1. Visible(asked[r].at) \in SUBSET Assertion
    BY DEF Visible
  <2> QED
    BY <1>9, <2>1 DEF Query, rowVars, TypeOK
<1> QED
  BY <1>1, <1>2, <1>3, <1>4, <1>5, <1>6, <1>7, <1>8, <1>9 DEF Next

-----------------------------------------------------------------------------
(* The writes of PutAssertion *)

LEMMA PutHandsOver ==
    ASSUME BitemporalAssumption, StoreInv, NEW w \in Writer, PutAssertion(w)
    PROVE  VersionsHandOver'
<1>1. PICK a \in Assertion, p \in Assertion \cup {None}, t \in Time :
               /\ from[a] = None
               /\ p # None => /\ from[p] # None /\ to[p] = None /\ from[p] < t
               /\ \A x \in Assertion : /\ from'[x] = IF x = a THEN t ELSE from[x]
                                       /\ prior'[x] = IF x = a THEN p ELSE prior[x]
                                       /\ to'[x] = IF x = p THEN t ELSE to[x]
  BY PutFacts
<1>2. t # None /\ None \notin Assertion
  BY DEF BitemporalAssumption, Time
<1>3. \A x \in Assertion :
          /\ to[x] # None => /\ from[x] # None
                             /\ from[x] < to[x]
                             /\ \E b \in Assertion : prior[b] = x
          /\ \A b \in Assertion : prior[b] = x =>
                  /\ from[b] # None /\ from[b] = to[x]
                  /\ \A c \in Assertion : prior[c] = x => c = b
  BY DEF StoreInv, VersionsHandOver
<1>4. \A b \in Assertion : prior[b] # a /\ (p # None => prior[b] # p)
  BY <1>1, <1>3
<1> SUFFICES ASSUME NEW x \in Assertion
             PROVE  /\ to'[x] # None => /\ from'[x] # None
                                        /\ from'[x] < to'[x]
                                        /\ \E b \in Assertion : prior'[b] = x
                    /\ \A b \in Assertion : prior'[b] = x =>
                            /\ from'[b] # None /\ from'[b] = to'[x]
                            /\ \A c \in Assertion : prior'[c] = x => c = b
  BY DEF VersionsHandOver
<1>5. CASE x = p
  <2>1. a # p /\ from'[x] = from[x] /\ to'[x] = t /\ from[x] # None /\ from[x] < t
    BY <1>1, <1>2, <1>5
  <2>2. prior'[a] = x
    BY <1>1, <1>5
  <2>3. \A b \in Assertion : prior'[b] = x => b = a
    BY <1>1, <1>2, <1>4, <1>5
  <2>4. from'[a] = t
    BY <1>1
  <2> QED
    BY <1>2, <2>1, <2>2, <2>3, <2>4
<1>6. CASE x # p
  <2>1. to'[x] = to[x] /\ (x # a => from'[x] = from[x])
    BY <1>1, <1>6
  <2>2. \A b \in Assertion : prior'[b] = x <=> b # a /\ prior[b] = x
    BY <1>1, <1>4, <1>6
  <2>3. to[x] # None => x # a
    BY <1>1, <1>3
  <2>4. \A b \in Assertion : b # a => from'[b] = from[b]
    BY <1>1
  <2>5. \A b \in Assertion : prior[b] = x => b # a
    BY <1>1, <1>3
  <2> QED
    BY <1>3, <2>1, <2>2, <2>3, <2>4, <2>5
<1> QED
  BY <1>5, <1>6

LEMMA PutKeepsBound ==
    ASSUME BitemporalAssumption, StoreInv, NEW w \in Writer, PutAssertion(w)
    PROVE  Settled' /\ BoundWasCurrent'
<1>1. PICK a \in Assertion, p \in Assertion \cup {None}, t \in Time :
               /\ Ms(last) <= t /\ t <= Ms(last')
               /\ from[a] = None
               /\ \A x \in Assertion : /\ from'[x] = IF x = a THEN t ELSE from[x]
                                       /\ to'[x] = IF x = p THEN t ELSE to[x]
  BY PutFacts
<1>2. bound' = bound
  BY DEF PutAssertion
<1>3. Ms(last) \in Nat /\ Ms(last') \in Nat /\ t \in Nat
  <2>1. last \in Nat /\ last' \in Nat
    BY CommitTyped DEF PutAssertion, StoreInv, TypeOK, Tick
  <2> QED
    BY <2>1, MsFloor DEF Time
<1>4. \A x \in Assertion : from[x] # None => from[x] \in Nat
  BY DEF StoreInv, TypeOK, Time
<1>5. \A e \in bound : e[1] \in Assertion /\ e[2] \in Nat
  BY DEF StoreInv, TypeOK, Time
<1>6. Settled'
  BY <1>1, <1>2, <1>3, <1>4, <1>5 DEF StoreInv, Settled
<1>7. BoundWasCurrent'
  BY <1>1, <1>2, <1>3, <1>5 DEF StoreInv, Settled, BoundWasCurrent
<1> QED
  BY <1>6, <1>7

-----------------------------------------------------------------------------
\* The steps of the clock row.
LEMMA ClockInvariance ==
    ASSUME BitemporalAssumption, StoreInv, [Next]_storeVars
    PROVE  Clock' /\ Tasks' /\ last <= last'
<1> USE DEF StoreInv
<1>0. last \in Int /\ now \in Int /\ \A w \in Writer : time[w] \in Int
  BY DEF TypeOK, Tick, BitemporalAssumption
<1>1. CASE UNCHANGED <<pc, task, time, last>>
  BY <1>0, <1>1 DEF Clock, Tasks
<1>2. ASSUME NEW w \in Writer, NEW o \in {"assert", "bind"}, NEW a \in Assertion,
             NEW p \in Assertion \cup {None}, Begin(w, o, a, p)
      PROVE  Clock' /\ Tasks' /\ last <= last'
  <2>1. /\ \A v \in Writer : pc'[v] = IF v = w THEN "begun" ELSE pc[v]
        /\ \A v \in Writer : task'[v].id = IF v = w THEN a ELSE task[v].id
        /\ \A v \in Writer : task'[v].op = IF v = w THEN o ELSE task[v].op
        /\ last' = last /\ time' = time
    BY <1>2 DEF Begin, TypeOK
  <2> QED
    BY <1>0, <2>1 DEF Clock, Tasks
<1>3. ASSUME NEW w \in Writer, Allocate(w)
      PROVE  Clock' /\ Tasks' /\ last <= last'
  <2>1. /\ \A v \in Writer : pc'[v] = IF v = w THEN "timed" ELSE pc[v]
        /\ \A v \in Writer : time'[v] = IF v = w THEN NextSystemTime ELSE time[v]
        /\ last' = last /\ task' = task
        /\ \A v \in Writer : pc[v] # "timed"
    BY <1>3 DEF Allocate, ClockFree, TypeOK
  <2>2. NextSystemTime > last
    BY <1>0 DEF NextSystemTime, Latest
  <2> QED
    BY <1>0, <2>1, <2>2 DEF Clock, Tasks
<1>4. ASSUME NEW w \in Writer, Finish(w),
             \/ last' = last
             \/ pc[w] = "timed" /\ Commit(w)
      PROVE  Clock' /\ Tasks' /\ last <= last'
  <2>1. /\ \A v \in Writer : pc'[v] = IF v = w THEN "idle" ELSE pc[v]
        /\ \A v \in Writer : task'[v] = IF v = w THEN Idle ELSE task[v]
        /\ \A v \in Writer : time'[v] = IF v = w THEN 0 ELSE time[v]
    BY <1>4 DEF Finish, TypeOK
  <2>2. last <= last'
    BY <1>0, <1>4, CommitTyped DEF Clock, Tick
  <2>3. last' = last \/ \A v \in Writer : v # w => pc[v] # "timed"
    BY <1>4 DEF Clock
  <2> QED
    BY <2>1, <2>2, <2>3 DEF Clock, Tasks, Idle
<1>5. ASSUME NEW w \in Writer, PutAssertion(w) \/ BindEffect(w) \/ Rollback(w)
      PROVE  Clock' /\ Tasks' /\ last <= last'
  BY <1>4, <1>5 DEF PutAssertion, BindEffect, Rollback, Commit
<1> QED
  BY <1>1, <1>2, <1>3, <1>5 DEF Next, storeVars, SetClock, ReadClock, Query

-----------------------------------------------------------------------------
LEMMA StoreInvariance ==
    ASSUME BitemporalAssumption, StoreInv, [Next]_storeVars
    PROVE  StoreInv'
<1>1. TypeOK' /\ Clock' /\ Tasks' /\ last <= last'
  BY Typed, ClockInvariance
<1>2. last \in Nat /\ last' \in Nat
  BY <1>1 DEF StoreInv, TypeOK, Tick
<1>3. Ms(last) <= Ms(last') /\ Ms(last) \in Nat /\ Ms(last') \in Nat
  BY <1>1, <1>2, MsMonotone, MsFloor
<1>4. CASE UNCHANGED rowVars
  <2>1. VersionsHandOver' /\ BoundWasCurrent'
    BY <1>4 DEF rowVars, StoreInv, VersionsHandOver, BoundWasCurrent
  <2>2. Settled'
    <3>1. /\ \A a \in Assertion : from[a] # None => from[a] \in Nat
          /\ \A e \in bound : e[2] \in Nat
      BY DEF StoreInv, TypeOK, Time
    <3> QED
      BY <1>3, <1>4, <3>1 DEF rowVars, StoreInv, Settled
  <2> QED
    BY <1>1, <2>1, <2>2 DEF StoreInv
<1>5. ASSUME NEW w \in Writer, PutAssertion(w)
      PROVE  StoreInv'
  BY <1>1, <1>5, PutHandsOver, PutKeepsBound DEF StoreInv
<1>6. ASSUME NEW w \in Writer, BindEffect(w)
      PROVE  StoreInv'
  <2> DEFINE a == task[w].id
             t == SystemTime(w)
  <2>1. UNCHANGED <<from, to, prior>> /\ bound' = bound \cup {<<a, t>>} /\ a \in Visible(t)
    BY <1>6 DEF BindEffect, Current
  <2>2. /\ time[w] \in Nat /\ last < time[w] /\ time[w] <= last'
    <3>1. time[w] \in Tick /\ pc[w] = "timed" /\ Commit(w)
      BY <1>6 DEF BindEffect, StoreInv, TypeOK
    <3>2. last' > time[w]
      BY <3>1, CommitTyped DEF StoreInv
    <3> QED
      BY <1>2, <3>1, <3>2 DEF StoreInv, Clock, Tick
  <2>3. t \in Nat /\ t <= Ms(last')
    BY <1>2, <2>2, MsFloor, MsMonotone DEF SystemTime
  <2>4. VersionsHandOver'
    BY <2>1 DEF StoreInv, VersionsHandOver
  <2>5. Settled'
    <3>1. /\ \A x \in Assertion : from[x] # None => from[x] \in Nat
          /\ \A e \in bound : e[2] \in Nat
      BY DEF StoreInv, TypeOK, Time
    <3>2. \A e \in bound' : e[2] <= Ms(last')
      <4> HIDE DEF a, t
      <4> QED
        BY <1>3, <2>1, <2>3, <3>1 DEF StoreInv, Settled
    <3>3. \A x \in Assertion : from'[x] # None => from'[x] <= Ms(last')
      BY <1>3, <2>1, <3>1 DEF StoreInv, Settled
    <3> QED
      BY <3>2, <3>3 DEF Settled
  <2>6. BoundWasCurrent'
    <3>1. from[a] # None /\ from[a] <= t /\ (to[a] = None \/ to[a] >= t)
      <4>1. to[a] # None => to[a] \in Nat
        BY <2>1 DEF Visible, StoreInv, TypeOK, Time
      <4> QED
        BY <2>1, <2>3, <4>1 DEF Visible
    <3> HIDE DEF a, t
    <3> QED
      BY <2>1, <3>1 DEF StoreInv, BoundWasCurrent
  <2> QED
    BY <1>1, <2>4, <2>5, <2>6 DEF StoreInv
<1> QED
  BY <1>4, <1>5, <1>6 DEF Next, storeVars, rowVars, SetClock, Begin, Allocate, Rollback,
                          ReadClock, Query

\* All that is said of the rows and the clock holds in every state.
THEOREM StoreInvariant == Spec => []StoreInv
<1>1. Init => StoreInv
  BY StoreInitial, BitemporalAssumption
<1>2. StoreInv /\ [Next]_storeVars => StoreInv'
  BY StoreInvariance, BitemporalAssumption
<1> QED
  BY <1>1, <1>2, PTL DEF Spec

\* Clocks, rows and transactions keep their types.
THEOREM StoreTypeCorrect == Spec => []TypeOK
<1>1. StoreInv => TypeOK
  BY DEF StoreInv
<1> QED
  BY <1>1, StoreInvariant, PTL

\* putAssertion hands a fact over from version to version without gap, overlap
\* or fork.
THEOREM StoreHandsOver == Spec => []VersionsHandOver
<1>1. StoreInv => VersionsHandOver
  BY DEF StoreInv
<1> QED
  BY <1>1, StoreInvariant, PTL

\* request_effect binds to decisions that were current.
THEOREM StoreBindsCurrent == Spec => []BoundWasCurrent
<1>1. StoreInv => BoundWasCurrent
  BY DEF StoreInv
<1> QED
  BY <1>1, StoreInvariant, PTL

\* No write changes what is visible before the last committed time.
THEOREM StoreSettlesPast == Spec => PastIsStable
<1>1. ASSUME StoreInv, [Next]_storeVars
      PROVE  \A T \in Time : T < Ms(last) => Visible(T)' = Visible(T)
  <2> SUFFICES ASSUME NEW T \in Time, T < Ms(last)
               PROVE  Visible(T)' = Visible(T)
    OBVIOUS
  <2>1. CASE UNCHANGED <<from, to>>
    BY <2>1 DEF Visible
  <2>2. ASSUME NEW w \in Writer, PutAssertion(w)
        PROVE  Visible(T)' = Visible(T)
    <3>1. PICK a \in Assertion, p \in Assertion \cup {None}, t \in Time :
               /\ Ms(last) <= t
               /\ from[a] = None
               /\ p # None => to[p] = None
               /\ \A x \in Assertion : /\ from'[x] = IF x = a THEN t ELSE from[x]
                                       /\ to'[x] = IF x = p THEN t ELSE to[x]
      BY <1>1, <2>2, PutFacts, BitemporalAssumption
    <3>2. T < t /\ t # None
      <4>1. Ms(last) \in Nat /\ T \in Nat /\ t \in Nat
        BY <1>1, MsFloor, BitemporalAssumption DEF StoreInv, TypeOK, Tick, Time
      <4> QED
        BY <3>1, <4>1, BitemporalAssumption
    <3>3. ~(t <= T) /\ t > T
      BY <3>2 DEF Time
    <3> SUFFICES ASSUME NEW x \in Assertion
                 PROVE  (/\ from'[x] # None
                         /\ from'[x] <= T
                         /\ to'[x] = None \/ to'[x] > T)
                        <=> (/\ from[x] # None
                             /\ from[x] <= T
                             /\ to[x] = None \/ to[x] > T)
      BY DEF Visible
    <3>4. CASE x = a
      BY <3>1, <3>3, <3>4
    <3>5. CASE x # a
      BY <3>1, <3>3, <3>5, BitemporalAssumption DEF BitemporalAssumption
    <3> QED
      BY <3>4, <3>5
  <2> QED
    BY <1>1, <2>1, <2>2 DEF Next, storeVars, rowVars, SetClock, Begin, Allocate, BindEffect,
                            Rollback, ReadClock, Query
<1>2. StoreInv /\ [Next]_storeVars
        => [\A T \in Time : T < Ms(last) => Visible(T)' = Visible(T)]_storeVars
  BY <1>1
<1> QED
  BY <1>2, StoreInvariant, PTL DEF Spec, PastIsStable

-----------------------------------------------------------------------------
(* The versions that descend from one another *)

\* Descendants is the least set with the assertion and its successors.
LEMMA DescendantsLeast ==
    ASSUME NEW a \in Assertion
    PROVE  /\ a \in Descendants(a) /\ Descendants(a) \subseteq Assertion
           /\ HasSuccessors(Descendants(a))
           /\ \A S \in SUBSET Assertion : a \in S /\ HasSuccessors(S) => Descendants(a) \subseteq S
<1>1. HasSuccessors(Descendants(a))
  <2> SUFFICES ASSUME NEW b \in Assertion, prior[b] \in Descendants(a),
                      NEW S \in SUBSET Assertion, a \in S, HasSuccessors(S)
               PROVE  b \in S
    BY Zenon DEF HasSuccessors, Descendants
  <2>1. prior[b] \in S
    BY DEF Descendants
  <2> QED
    BY <2>1 DEF HasSuccessors
<1> QED
  BY <1>1 DEF Descendants

\* What descends from a descendant descends.
LEMMA DescendantsTransitive ==
    ASSUME NEW a \in Assertion, NEW x \in Descendants(a)
    PROVE  Descendants(x) \subseteq Descendants(a)
<1>1. /\ x \in Assertion /\ Descendants(a) \in SUBSET Assertion
      /\ HasSuccessors(Descendants(a))
  BY DescendantsLeast
<1> QED
  BY <1>1, DescendantsLeast

\* Any other descendant descends from a successor.
LEMMA SuccessorFirst ==
    ASSUME NEW x \in Assertion, NEW y \in Descendants(x), y # x
    PROVE  \E z \in Assertion : prior[z] = x /\ y \in Descendants(z)
<1> DEFINE S == {x} \cup {u \in Assertion : \E z \in Assertion : prior[z] = x /\ u \in Descendants(z)}
<1>1. HasSuccessors(S)
  <2> SUFFICES ASSUME NEW b \in Assertion, prior[b] \in S
               PROVE  b \in S
    BY DEF HasSuccessors
  <2>1. CASE prior[b] = x
    BY <2>1, DescendantsLeast
  <2>2. CASE prior[b] # x
    <3>1. PICK z \in Assertion : prior[z] = x /\ prior[b] \in Descendants(z)
      BY <2>2
    <3>2. b \in Descendants(z)
      BY <3>1, DescendantsLeast DEF HasSuccessors
    <3> QED
      BY <3>1, <3>2
  <2> QED
    BY <2>1, <2>2
<1>2. S \in SUBSET Assertion /\ x \in S
  OBVIOUS
<1>3. y \in S
  <2> HIDE DEF S
  <2> QED
    BY <1>1, <1>2, DescendantsLeast
<1> QED
  BY <1>3

\* A version begins before those that supersede it.
LEMMA DescendantsLater ==
    ASSUME BitemporalAssumption, StoreInv, NEW a \in Assertion, from[a] # None,
           NEW x \in Descendants(a)
    PROVE  /\ x \in Assertion /\ from[x] \in Int /\ from[x] # None
           /\ x # a => from[a] < from[x]
<1> DEFINE S == {u \in Assertion : from[u] # None /\ (u # a => from[a] < from[u])}
<1>0. \A u \in Assertion : from[u] # None => from[u] \in Int
  BY DEF StoreInv, TypeOK, Time
<1>1. HasSuccessors(S)
  <2> SUFFICES ASSUME NEW b \in Assertion, prior[b] \in S
               PROVE  b \in S
    BY DEF HasSuccessors
  <2> DEFINE u == prior[b]
  <2>1. from[b] # None /\ from[b] = to[u] /\ from[u] < to[u] /\ from[u] # None
    BY DEF StoreInv, VersionsHandOver
  <2>2. from[b] \in Int /\ from[u] \in Int /\ from[a] \in Int
    BY <1>0, <2>1
  <2>3. from[a] < from[b]
    <3>1. u = a \/ from[a] < from[u]
      OBVIOUS
    <3> HIDE DEF u
    <3> QED
      BY <2>1, <2>2, <3>1
  <2> QED
    BY <2>1, <2>3
<1>2. S \in SUBSET Assertion /\ a \in S
  OBVIOUS
<1>3. x \in S
  <2> HIDE DEF S
  <2> QED
    BY <1>1, <1>2, DescendantsLeast
<1> QED
  BY <1>0, <1>3

\* Nothing forks: of two descendants, one descends from the other.
LEMMA DescendantsLinear ==
    ASSUME BitemporalAssumption, StoreInv, NEW a \in Assertion,
           NEW x \in Descendants(a), NEW y \in Descendants(a)
    PROVE  y \in Descendants(x) \/ x \in Descendants(y)
<1> DEFINE S == {u \in Assertion : u \in Descendants(x) \/ x \in Descendants(u)}
<1>0. x \in Assertion
  BY DescendantsLeast
<1>1. HasSuccessors(S)
  <2> SUFFICES ASSUME NEW b \in Assertion, prior[b] \in S
               PROVE  b \in S
    BY DEF HasSuccessors
  <2>1. CASE prior[b] \in Descendants(x)
    BY <1>0, <2>1, DescendantsLeast DEF HasSuccessors
  <2>2. CASE x \in Descendants(prior[b]) /\ x = prior[b]
    <3>1. x \in Descendants(x)
      BY <1>0, DescendantsLeast
    <3> QED
      BY <1>0, <2>2, <3>1, DescendantsLeast DEF HasSuccessors
  <2>3. CASE x \in Descendants(prior[b]) /\ x # prior[b]
    <3>1. PICK z \in Assertion : prior[z] = prior[b] /\ x \in Descendants(z)
      BY <2>3, SuccessorFirst
    <3>2. z = b
      BY <3>1 DEF StoreInv, VersionsHandOver
    <3> QED
      BY <3>1, <3>2
  <2> QED
    BY <2>1, <2>2, <2>3
<1>2. S \in SUBSET Assertion /\ a \in S
  OBVIOUS
<1>3. y \in S
  <2> HIDE DEF S
  <2> QED
    BY <1>1, <1>2, DescendantsLeast
<1> QED
  BY <1>3

-----------------------------------------------------------------------------
(* One version at a time *)

\* Of the versions that had begun by T, the last is visible: each of the others
\* was superseded by one of them, and the first supersedes none of them.
LEMMA SomeVisible ==
    ASSUME BitemporalAssumption, StoreInv, IsFiniteSet(Committed),
           NEW a \in Assertion, from[a] # None, NEW T \in Time, from[a] <= T
    PROVE  Descendants(a) \cap Visible(T) # {}
<1> SUFFICES ASSUME Descendants(a) \cap Visible(T) = {}
             PROVE  FALSE
  OBVIOUS
<1> DEFINE C == {x \in Descendants(a) : from[x] <= T}
           f == [x \in C |-> CHOOSE b \in Assertion : prior[b] = x]
<1>1. C \subseteq Committed /\ IsFiniteSet(C)
  <2>1. C \subseteq Committed
    BY DescendantsLater DEF Committed
  <2> QED
    BY <2>1, FS_Subset
<1>2. a \in C
  BY DescendantsLeast
<1>3. ASSUME NEW x \in C
      PROVE  f[x] \in C \ {a} /\ prior[f[x]] = x
  <2>1. x \in Assertion /\ from[x] # None /\ from[x] \in Int
    BY DescendantsLater
  <2>2. x \notin Visible(T)
    OBVIOUS
  <2>3. to[x] # None /\ ~(to[x] > T)
    BY <2>1, <2>2 DEF Visible
  <2>4. \E b \in Assertion : prior[b] = x
    BY <2>1, <2>3 DEF StoreInv, VersionsHandOver
  <2>5. f[x] = CHOOSE b \in Assertion : prior[b] = x
    OBVIOUS
  <2> HIDE DEF f
  <2>6. f[x] \in Assertion /\ prior[f[x]] = x
    BY <2>4, <2>5
  <2>7. f[x] \in Descendants(a)
    BY <2>6, DescendantsLeast DEF HasSuccessors
  <2>8. from[f[x]] = to[x] /\ from[x] < to[x]
    BY <2>1, <2>3, <2>6 DEF StoreInv, VersionsHandOver
  <2>9. T \in Int /\ to[x] \in Int /\ from[a] \in Int
    BY <2>1, <2>3 DEF StoreInv, TypeOK, Time
  <2>10. from[f[x]] <= T
    BY <2>3, <2>8, <2>9
  <2>11. f[x] # a
    <3>1. x = a \/ from[a] < from[x]
      BY DescendantsLater
    <3> QED
      BY <2>1, <2>8, <2>9, <3>1
  <2> QED
    BY <2>6, <2>7, <2>10, <2>11
<1>4. f \in [C -> C \ {a}]
  <2>1. f = [x \in C |-> f[x]]
    OBVIOUS
  <2> HIDE DEF f, C
  <2> QED
    BY <1>3, <2>1, Zenon
<1>5. IsFiniteSet(C \ {a}) /\ Cardinality(C \ {a}) < Cardinality(C)
  <2> HIDE DEF C
  <2>1. Cardinality(C) \in Nat /\ Cardinality(C \ {a}) = Cardinality(C) - 1
    BY <1>1, <1>2, FS_CardinalityType, FS_RemoveElement
  <2> QED
    BY <1>1, <2>1, FS_RemoveElement
<1>6. \E x, y \in C : x # y /\ f[x] = f[y]
  <2> HIDE DEF f, C
  <2> QED
    BY <1>1, <1>4, <1>5, FS_PigeonHole
<1> HIDE DEF f, C
<1> QED
  BY <1>3, <1>6

\* Whatever descends from a visible version has not begun.
LEMMA NoLaterVisible ==
    ASSUME BitemporalAssumption, StoreInv, NEW T \in Time,
           NEW x \in Visible(T), NEW y \in Visible(T), y \in Descendants(x)
    PROVE  y = x
<1> SUFFICES ASSUME y # x
             PROVE  FALSE
  OBVIOUS
<1>1. x \in Assertion /\ from[y] <= T /\ (to[x] = None \/ to[x] > T)
  BY DEF Visible
<1>2. PICK z \in Assertion : prior[z] = x /\ y \in Descendants(z)
  BY <1>1, SuccessorFirst
<1>3. from[z] # None /\ from[z] = to[x]
  BY <1>1, <1>2 DEF StoreInv, VersionsHandOver
<1>4. from[y] \in Int /\ (y # z => from[z] < from[y])
  BY <1>2, <1>3, DescendantsLater
<1>5. from[z] \in Int /\ T \in Int
  BY <1>3 DEF StoreInv, TypeOK, Time
<1> QED
  BY <1>1, <1>3, <1>4, <1>5

\* From its first version on, a fact is visible once.
LEMMA OneVisible ==
    ASSUME BitemporalAssumption, StoreInv, IsFiniteSet(Committed)
    PROVE  OneVersionVisible
<1> SUFFICES ASSUME NEW a \in Assertion, from[a] # None, NEW T \in Time, from[a] <= T
             PROVE  Cardinality(Descendants(a) \cap Visible(T)) = 1
  <2>1. \A a \in Assertion : from[a] # None => from[a] \in Int
    BY DEF StoreInv, TypeOK, Time
  <2> QED
    BY <2>1 DEF OneVersionVisible, Time
<1>1. PICK x : x \in Descendants(a) \cap Visible(T)
  BY SomeVisible
<1>2. ASSUME NEW y \in Descendants(a) \cap Visible(T)
      PROVE  y = x
  <2>1. y \in Descendants(x) \/ x \in Descendants(y)
    BY <1>1, DescendantsLinear
  <2> QED
    BY <1>1, <2>1, NoLaterVisible
<1>3. Descendants(a) \cap Visible(T) = {x}
  BY <1>1, <1>2
<1> QED
  BY <1>3, FS_Singleton

-----------------------------------------------------------------------------
(* What reads see *)

\* The time a reader asks for is not before anything that was committed when it
\* took it, and what it saw has a version of each of those facts.
ReadInv ==
    /\ IsFiniteSet(Committed)
    /\ \A r \in Reader : asked[r] # None =>
           \A a \in asked[r].known : from[a] # None /\ from[a] <= asked[r].at
    /\ \A r \in Reader : seen[r] # None => asked[r] # None
    /\ ReadsSeeCommitted

\* Committed versions stay as they are but for their end.
LEMMA RowsStay ==
    ASSUME BitemporalAssumption, StoreInv, [Next]_storeVars
    PROVE  /\ \A x \in Assertion : from[x] # None => from'[x] = from[x]
           /\ \A x \in Assertion : prior[x] # None => prior'[x] = prior[x]
           /\ IsFiniteSet(Committed) => IsFiniteSet(Committed')
<1>1. CASE UNCHANGED <<from, prior>>
  BY <1>1 DEF Committed
<1>2. ASSUME NEW w \in Writer, PutAssertion(w)
      PROVE  /\ \A x \in Assertion : from[x] # None => from'[x] = from[x]
             /\ \A x \in Assertion : prior[x] # None => prior'[x] = prior[x]
             /\ IsFiniteSet(Committed) => IsFiniteSet(Committed')
  <2>1. PICK a \in Assertion, p \in Assertion \cup {None}, t \in Time :
               /\ from[a] = None
               /\ \A x \in Assertion : /\ from'[x] = IF x = a THEN t ELSE from[x]
                                       /\ prior'[x] = IF x = a THEN p ELSE prior[x]
    BY <1>2, PutFacts
  <2>2. \A x \in Assertion : prior[x] # None => prior[x] \in Assertion /\ from[x] # None
    BY DEF StoreInv, TypeOK, VersionsHandOver
  <2>3. Committed' \subseteq Committed \cup {a}
    BY <2>1 DEF Committed
  <2>4. IsFiniteSet(Committed) => IsFiniteSet(Committed')
    BY <2>3, FS_AddElement, FS_Subset
  <2> QED
    BY <2>1, <2>2, <2>4
<1> QED
  BY <1>1, <1>2 DEF Next, storeVars, rowVars, SetClock, Begin, Allocate, BindEffect, Rollback,
                    ReadClock, Query

\* No step takes a descendant away.
LEMMA DescendantsGrow ==
    ASSUME BitemporalAssumption, StoreInv, [Next]_storeVars, NEW a \in Assertion
    PROVE  Descendants(a) \subseteq Descendants(a)'
<1>1. \A x \in Assertion : prior[x] # None => prior'[x] = prior[x]
  BY RowsStay
<1>2. None \notin Assertion
  BY DEF BitemporalAssumption
<1> SUFFICES ASSUME NEW x \in Descendants(a), NEW S \in SUBSET Assertion, a \in S,
                    \A b \in Assertion : prior'[b] \in S => b \in S
             PROVE  x \in Assertion /\ x \in S
  BY Zenon DEF Descendants, HasSuccessors
<1>3. HasSuccessors(S)
  BY <1>1, <1>2 DEF HasSuccessors
<1> QED
  BY <1>3 DEF Descendants

LEMMA ReadInitial == ASSUME BitemporalAssumption, Init PROVE ReadInv
<1>1. Committed = {}
  BY DEF Init, Committed
<1>2. IsFiniteSet(Committed)
  BY <1>1, FS_EmptySet
<1> QED
  BY <1>2 DEF Init, ReadInv, ReadsSeeCommitted

LEMMA ReadInvariance ==
    ASSUME BitemporalAssumption, StoreInv, ReadInv, [Next]_storeVars
    PROVE  ReadInv'
<1>1. IsFiniteSet(Committed)'
  BY RowsStay DEF ReadInv, Committed
<1>2. \A x \in Assertion : from[x] # None => from'[x] = from[x]
  BY RowsStay
<1>3. ASSUME NEW r \in Reader, asked[r] # None
      PROVE  /\ asked[r].known \subseteq Assertion /\ asked[r].at \in Time
             /\ \A a \in asked[r].known : from[a] # None /\ from[a] <= asked[r].at
  BY <1>3 DEF StoreInv, TypeOK, ReadInv
<1>4. ASSUME NEW r \in Reader, asked'[r] = asked[r], seen'[r] = seen[r]
      PROVE  /\ asked'[r] # None =>
                    \A a \in asked'[r].known : from'[a] # None /\ from'[a] <= asked'[r].at
             /\ seen'[r] # None => asked'[r] # None
             /\ seen'[r] # None =>
                    \A a \in asked'[r].known : Descendants(a)' \cap seen'[r] # {}
  <2>1. asked'[r] # None =>
                    \A a \in asked'[r].known : from'[a] # None /\ from'[a] <= asked'[r].at
    BY <1>2, <1>3, <1>4
  <2>2. seen'[r] # None => asked'[r] # None
    BY <1>4 DEF ReadInv
  <2>3. ASSUME seen[r] # None, NEW a \in asked[r].known
        PROVE  Descendants(a)' \cap seen[r] # {}
    <3>1. a \in Assertion /\ Descendants(a) \cap seen[r] # {}
      BY <1>3, <2>3 DEF ReadInv, ReadsSeeCommitted
    <3>2. Descendants(a) \subseteq Descendants(a)'
      BY <3>1, DescendantsGrow
    <3> QED
      BY <3>1, <3>2
  <2> QED
    BY <1>4, <2>1, <2>2, <2>3
<1>5. ASSUME NEW r \in Reader, ReadClock(r)
      PROVE  /\ asked'[r] # None =>
                    \A a \in asked'[r].known : from'[a] # None /\ from'[a] <= asked'[r].at
             /\ seen'[r] = None
             /\ \A q \in Reader : q # r => asked'[q] = asked[q] /\ seen'[q] = seen[q]
  <2>1. /\ asked[r] = None /\ seen' = seen /\ from' = from
        /\ asked'[r] = [at |-> CurrentSystemTime, known |-> Committed]
        /\ \A q \in Reader : q # r => asked'[q] = asked[q]
    BY <1>5 DEF ReadClock, StoreInv, TypeOK, rowVars
  <2>2. seen'[r] = None
    BY <2>1 DEF ReadInv
  <2>3. last \in Nat /\ Latest(now, last) \in Nat /\ last <= Latest(now, last)
    BY DEF StoreInv, TypeOK, Tick, Latest, BitemporalAssumption
  <2>4. Ms(last) <= CurrentSystemTime /\ Ms(last) \in Int /\ CurrentSystemTime \in Int
    BY <2>3, MsMonotone, MsFloor DEF CurrentSystemTime
  <2>5. \A a \in Committed : from[a] # None /\ from[a] \in Int /\ from[a] <= Ms(last)
    BY DEF Committed, StoreInv, Settled, TypeOK, Time
  <2>6. \A a \in Committed : from'[a] # None /\ from'[a] <= CurrentSystemTime
    BY <2>1, <2>4, <2>5
  <2> QED
    BY <2>1, <2>2, <2>6
<1>6. ASSUME NEW r \in Reader, Query(r)
      PROVE  /\ asked' = asked /\ asked[r] # None
             /\ \A a \in asked[r].known : Descendants(a)' \cap seen'[r] # {}
             /\ \A q \in Reader : q # r => seen'[q] = seen[q]
  <2>1. /\ asked' = asked /\ asked[r] # None /\ prior' = prior
        /\ seen'[r] = Visible(asked[r].at)
        /\ \A q \in Reader : q # r => seen'[q] = seen[q]
    BY <1>6 DEF Query, StoreInv, TypeOK, rowVars
  <2>2. ASSUME NEW a \in asked[r].known
        PROVE  Descendants(a)' \cap seen'[r] # {}
    <3>1. a \in Assertion /\ from[a] # None /\ from[a] <= asked[r].at /\ asked[r].at \in Time
      BY <1>3, <2>1
    <3>2. Descendants(a) \cap Visible(asked[r].at) # {}
      BY <3>1, SomeVisible DEF ReadInv
    <3>3. Descendants(a) \subseteq Descendants(a)'
      BY <3>1, DescendantsGrow
    <3> QED
      BY <2>1, <3>2, <3>3
  <2> QED
    BY <2>1, <2>2
<1>7. CASE UNCHANGED readVars
  BY <1>1, <1>4, <1>7 DEF readVars, ReadInv, ReadsSeeCommitted
<1>8. CASE \E r \in Reader : ReadClock(r)
  BY <1>1, <1>4, <1>5, <1>8 DEF ReadInv, ReadsSeeCommitted
<1>9. CASE \E r \in Reader : Query(r)
  <2>1. PICK r \in Reader : Query(r)
    BY <1>9
  <2>2. /\ asked'[r] # None
        /\ \A a \in asked'[r].known : from'[a] # None /\ from'[a] <= asked'[r].at
    <3>1. asked' = asked /\ asked[r] # None
      BY <1>6, <2>1
    <3> QED
      BY <1>2, <1>3, <3>1
  <2> QED
    BY <1>1, <1>4, <1>6, <2>1, <2>2 DEF ReadInv, ReadsSeeCommitted
<1> QED
  BY <1>7, <1>8, <1>9 DEF Next, storeVars, readVars, SetClock, Begin, Allocate, PutAssertion,
                          BindEffect, Rollback

\* What readers ask for and see, in every state.
THEOREM ReadInvariant == Spec => []ReadInv
<1>1. Init => ReadInv
  BY ReadInitial, BitemporalAssumption
<1>2. StoreInv /\ ReadInv /\ [Next]_storeVars => ReadInv'
  BY ReadInvariance, BitemporalAssumption
<1> QED
  BY <1>1, <1>2, StoreInvariant, PTL DEF Spec

\* A fact is never missing from the store and never there twice, at any system
\* time from its first version on.
THEOREM StoreShowsOneVersion == Spec => []OneVersionVisible
<1>1. StoreInv /\ ReadInv => OneVersionVisible
  BY OneVisible, BitemporalAssumption DEF ReadInv
<1> QED
  BY <1>1, StoreInvariant, ReadInvariant, PTL

\* Whatever the wall clock shows, a read finds all that was committed before it.
THEOREM StoreReadsCommitted == Spec => []ReadsSeeCommitted
<1>1. ReadInv => ReadsSeeCommitted
  BY DEF ReadInv
<1> QED
  BY <1>1, ReadInvariant, PTL

-----------------------------------------------------------------------------
(* resolve: the best of finitely many rows *)

\* A strict order has a minimal element in every finite set: one with the fewest
\* elements below it.
LEMMA MinimalExists ==
    ASSUME NEW S, IsFiniteSet(S), S # {}, NEW R,
           \A x \in S : <<x, x>> \notin R,
           \A x, y, z \in S : <<x, y>> \in R /\ <<y, z>> \in R => <<x, z>> \in R
    PROVE  \E x \in S : \A y \in S : <<y, x>> \notin R
<1> DEFINE Below(x) == {y \in S : <<y, x>> \in R}
           B == {Below(x) : x \in S}
<1>1. B \subseteq FiniteSubsetsOf(S) /\ B # {}
  <2>1. FiniteSubsetsOf(S) = SUBSET S
    BY FS_FiniteSubsetsOfFinite
  <2>2. B \subseteq SUBSET S /\ B # {}
    <3>1. PICK x : x \in S
      OBVIOUS
    <3>2. Below(x) \in B
      BY <3>1, Zenon
    <3>3. \A T \in B : T \in SUBSET S
      OBVIOUS
    <3> HIDE DEF B
    <3> QED
      BY <3>2, <3>3
  <2> HIDE DEF B
  <2> QED
    BY <2>1, <2>2
<1>2. IsWellFoundedOn(StrictSubsetOrdering(S), FiniteSubsetsOf(S))
  BY FS_StrictSubsetOrderingWellFounded
<1>3. \E T \in B : \A U \in B : <<U, T>> \notin StrictSubsetOrdering(S)
  <2> HIDE DEF B
  <2> QED
    BY <1>1, <1>2, WFMin
<1>4. PICK x \in S : \A y \in S : <<Below(y), Below(x)>> \notin StrictSubsetOrdering(S)
  <2> HIDE DEF Below
  <2> QED
    BY <1>3, Zenon
<1>5. ASSUME NEW y \in S, <<y, x>> \in R
      PROVE  FALSE
  <2>1. Below(y) \subseteq Below(x) /\ y \in Below(x) /\ y \notin Below(y)
    BY <1>5
  <2>2. Below(y) # Below(x) /\ Below(y) \in SUBSET S /\ Below(x) \in SUBSET S
    BY <2>1
  <2> HIDE DEF Below
  <2>3. <<Below(y), Below(x)>> \in StrictSubsetOrdering(S)
    BY <2>1, <2>2 DEF StrictSubsetOrdering
  <2> QED
    BY <1>4, <2>3
<1> QED
  BY <1>5

\* The rows of a result are the candidates, each of them once.
LEMMA ResultRows ==
    ASSUME NEW S, IsFiniteSet(S), NEW rows \in SetToSeqs(S)
    PROVE  /\ DOMAIN rows = 1..Cardinality(S) /\ Cardinality(S) \in Nat
           /\ rows \in [DOMAIN rows -> S] /\ rows \in Seq(S)
           /\ ToSet(rows) = S
<1> DEFINE D == 1..Cardinality(S)
<1>1. Cardinality(S) \in Nat
  BY FS_CardinalityType
<1>2. rows \in [D -> S] /\ \A i, j \in D : i # j => rows[i] # rows[j]
  BY DEF SetToSeqs
<1>3. rows \in Injection(D, S)
  BY <1>2 DEF Injection, IsInjective
<1>4. Cardinality(D) = Cardinality(S)
  BY <1>1, FS_Interval
<1>5. rows \in Surjection(D, S)
  <2> HIDE DEF D
  <2> QED
    BY <1>3, <1>4, FS_Injection
<1>6. ToSet(rows) = S
  BY <1>2, <1>5 DEF ToSet, Surjection
<1>7. rows \in Seq(S)
  BY <1>1, <1>2
<1> QED
  BY <1>1, <1>2, <1>6, <1>7

\* The first of the best rows is one of the best.
LEMMA FirstOfBest ==
    ASSUME NEW S, NEW rows \in Seq(S), NEW best, NEW b \in ToSet(rows), b \in best
    PROVE  FirstOf(rows, best) \in best /\ FirstOf(rows, best) \in ToSet(rows)
<1> DEFINE I == {i \in 1..Len(rows) : rows[i] \in best}
           R == {e \in Int \X Int : e[1] < e[2]}
<1>1. Len(rows) \in Nat /\ DOMAIN rows = 1..Len(rows)
  OBVIOUS
<1>2. IsFiniteSet(I) /\ I # {} /\ I \subseteq Int
  <2>1. IsFiniteSet(1..Len(rows))
    BY <1>1, FS_Interval
  <2> QED
    BY <1>1, <2>1, FS_Subset DEF ToSet
<1>3. \E m \in I : \A n \in I : m <= n
  <2>1. PICK m \in I : \A n \in I : <<n, m>> \notin R
    <3> HIDE DEF I
    <3>1. /\ \A x \in I : <<x, x>> \notin R
          /\ \A x, y, z \in I : <<x, y>> \in R /\ <<y, z>> \in R => <<x, z>> \in R
      BY <1>2
    <3> HIDE DEF R
    <3> QED
      BY <1>2, <3>1, MinimalExists
  <2>2. m \in Int /\ I \subseteq Int
    BY <1>2
  <2> HIDE DEF I
  <2>3. \A n \in I : ~(n < m)
    BY <2>1, <2>2
  <2> QED
    BY <2>2, <2>3
<1>4. Min(I) \in I
  BY <1>3 DEF Min
<1>5. FirstOf(rows, best) = rows[Min(I)]
  BY <1>2 DEF FirstOf, SelectInSeq
<1> QED
  BY <1>1, <1>4, <1>5 DEF ToSet

\* What applies is finite, and typed.
LEMMA CandidatesTyped ==
    ASSUME BitemporalAssumption, StoreInv, IsFiniteSet(Committed), NEW T, NEW v
    PROVE  /\ IsFiniteSet(Candidates(T, v)) /\ None \notin Candidates(T, v)
           /\ Candidates(T, v) \subseteq Visible(T)
           /\ \A a \in Candidates(T, v) : a \in Assertion /\ from[a] \in Int
<1>1. Candidates(T, v) \subseteq Visible(T) /\ Visible(T) \subseteq Committed
  BY DEF Candidates, Visible, Committed
<1>2. \A a \in Committed : a \in Assertion /\ from[a] \in Int /\ a # None
  BY DEF Committed, StoreInv, TypeOK, Time, BitemporalAssumption
<1> QED
  BY <1>1, <1>2, FS_Subset

\* ChooseLatest takes a row that no other follows in system time.
LEMMA LatestIsLatest ==
    ASSUME BitemporalAssumption, StoreInv, IsFiniteSet(Committed), NEW T, NEW v,
           Candidates(T, v) # {}, NEW rows \in SetToSeqs(Candidates(T, v))
    PROVE  /\ ChooseLatest(rows) \in Candidates(T, v)
           /\ \A a \in Candidates(T, v) : from[a] <= from[ChooseLatest(rows)]
<1> DEFINE C == Candidates(T, v)
           best == {a \in C : \A b \in C : ~Later(b, a)}
           R == {e \in C \X C : Later(e[1], e[2])}
<1>1. /\ IsFiniteSet(C) /\ C # {} /\ rows \in SetToSeqs(C)
      /\ \A a \in C : from[a] \in Int
  BY CandidatesTyped
<1>2. rows \in Seq(C) /\ ToSet(rows) = C
  <2> HIDE DEF C
  <2> QED
    BY <1>1, ResultRows
<1>3. \E x \in C : \A y \in C : <<y, x>> \notin R
  <2> HIDE DEF C
  <2>1. /\ \A x \in C : <<x, x>> \notin R
        /\ \A x, y, z \in C : <<x, y>> \in R /\ <<y, z>> \in R => <<x, z>> \in R
    BY <1>1 DEF Later
  <2> HIDE DEF R
  <2> QED
    BY <1>1, <2>1, MinimalExists
<1>4. \E b \in C : b \in best
  <2> HIDE DEF C
  <2> QED
    BY <1>3
<1>5. ChooseLatest(rows) = FirstOf(rows, best)
  BY <1>2 DEF ChooseLatest
<1>6. ChooseLatest(rows) \in best
  <2> HIDE DEF C, best
  <2> QED
    BY <1>2, <1>4, <1>5, FirstOfBest
<1> HIDE DEF C
<1>7. ChooseLatest(rows) \in C /\ \A a \in C : from[a] <= from[ChooseLatest(rows)]
  BY <1>1, <1>6 DEF Later
<1> QED
  BY <1>7 DEF C

\* ChooseHighestAuthority takes a row of the greatest authority.
LEMMA HighestIsHighest ==
    ASSUME BitemporalAssumption, ResolutionAssumption, StoreInv, IsFiniteSet(Committed),
           NEW T, NEW v,
           Candidates(T, v) # {}, NEW rows \in SetToSeqs(Candidates(T, v))
    PROVE  /\ ChooseHighestAuthority(rows) \in Candidates(T, v)
           /\ \A a \in Candidates(T, v) :
                  Content[a].authority <= Content[ChooseHighestAuthority(rows)].authority
<1> DEFINE C == Candidates(T, v)
           best == {a \in C : \A b \in C : ~MoreAuthority(b, a)}
           R == {e \in C \X C : MoreAuthority(e[1], e[2])}
<1>1. /\ IsFiniteSet(C) /\ C # {} /\ rows \in SetToSeqs(C)
      /\ \A a \in C : from[a] \in Int /\ Content[a].authority \in Int
  BY CandidatesTyped DEF ResolutionAssumption
<1>2. rows \in Seq(C) /\ ToSet(rows) = C
  <2> HIDE DEF C
  <2> QED
    BY <1>1, ResultRows
<1>3. \E x \in C : \A y \in C : <<y, x>> \notin R
  <2> HIDE DEF C
  <2>1. /\ \A x \in C : <<x, x>> \notin R
        /\ \A x, y, z \in C : <<x, y>> \in R /\ <<y, z>> \in R => <<x, z>> \in R
    BY <1>1 DEF MoreAuthority
  <2> HIDE DEF R
  <2> QED
    BY <1>1, <2>1, MinimalExists
<1>4. \E b \in C : b \in best
  <2> HIDE DEF C
  <2> QED
    BY <1>3
<1>5. ChooseHighestAuthority(rows) = FirstOf(rows, best)
  BY <1>2 DEF ChooseHighestAuthority
<1>6. ChooseHighestAuthority(rows) \in best
  <2> HIDE DEF C, best
  <2> QED
    BY <1>2, <1>4, <1>5, FirstOfBest
<1> HIDE DEF C
<1>7. /\ ChooseHighestAuthority(rows) \in C
      /\ \A a \in C : Content[a].authority <= Content[ChooseHighestAuthority(rows)].authority
  BY <1>1, <1>6 DEF MoreAuthority
<1> QED
  BY <1>7 DEF C

\* One object is what all agree on.
LEMMA ObjectsAgree ==
    ASSUME NEW S, IsFiniteSet(S), S # {}
    PROVE  /\ Cardinality(Objects(S)) \in Nat /\ Cardinality(Objects(S)) >= 1
           /\ Cardinality(Objects(S)) = 1
                <=> \A a, b \in S : Content[a].object = Content[b].object
<1> DEFINE f == [a \in S |-> Content[a].object]
<1>1. f \in Surjection(S, Objects(S))
  BY DEF Surjection, Objects
<1>2. IsFiniteSet(Objects(S))
  <2> HIDE DEF f
  <2> QED
    BY <1>1, FS_Surjection
<1>3. PICK x : x \in S
  OBVIOUS
<1>4. Content[x].object \in Objects(S)
  BY <1>3 DEF Objects
<1>5. Cardinality(Objects(S)) \in Nat /\ Cardinality(Objects(S)) # 0
  BY <1>2, <1>4, FS_CardinalityType, FS_EmptySet
<1>6. Cardinality(Objects(S)) = 1 <=> \E o : Objects(S) = {o}
  BY <1>2, FS_Singleton
<1>7. (\E o : Objects(S) = {o}) <=> \A a, b \in S : Content[a].object = Content[b].object
  <2>1. ASSUME NEW o, Objects(S) = {o}
        PROVE  \A a, b \in S : Content[a].object = Content[b].object
    BY <2>1 DEF Objects
  <2>2. ASSUME \A a, b \in S : Content[a].object = Content[b].object
        PROVE  Objects(S) = {Content[x].object}
    BY <1>3, <2>2 DEF Objects
  <2> QED
    BY <2>1, <2>2
<1> QED
  BY <1>5, <1>6, <1>7

\* What resolveCandidates answers, from any order of the rows that the query allows.
LEMMA AnswerFollowsPolicy ==
    ASSUME BitemporalAssumption, ResolutionAssumption, StoreInv, IsFiniteSet(Committed),
           NEW T \in Time, NEW v, NEW policy \in Policy,
           NEW C, C = Candidates(T, v), NEW rows \in SetToSeqs(C),
           NEW agree \in BOOLEAN,
           agree <=> \A a, b \in C : Content[a].object = Content[b].object,
           NEW r, r = ResolveCandidates(rows, policy)
    PROVE  /\ r.status \in {"known", "unknown"} <=> agree
           /\ r.selected = None <=> C = {} \/ (~agree /\ policy = "none")
           /\ r.conflicts \subseteq C
           /\ r.selected # None =>
               /\ r.selected \in C
               /\ r.conflicts = {a \in C : Content[a].object # Content[r.selected].object}
               /\ \A a \in C :
                   IF ~agree /\ policy = "highest_authority"
                   THEN Content[a].authority <= Content[r.selected].authority
                   ELSE from[a] <= from[r.selected]
<1>1. IsFiniteSet(C) /\ None \notin C
  BY CandidatesTyped
<1>2. ToSet(rows) = C
  BY <1>1, ResultRows
<1>3. CASE C = {}
  <2>0. Objects(C) = {} /\ Cardinality(Objects(C)) = 0
    BY <1>3, FS_EmptySet DEF Objects
  <2>1. r = Answer("unknown", None, {})
    BY <1>2, <1>3, <2>0 DEF ResolveCandidates
  <2> QED
    BY <1>3, <2>1 DEF Answer
<1>4. ASSUME C # {}
      PROVE  /\ Cardinality(Objects(C)) \in Nat /\ Cardinality(Objects(C)) >= 1
             /\ Cardinality(Objects(C)) = 1 <=> agree
             /\ ChooseLatest(rows) \in C
             /\ \A a \in C : from[a] <= from[ChooseLatest(rows)]
             /\ ChooseHighestAuthority(rows) \in C
             /\ \A a \in C :
                    Content[a].authority <= Content[ChooseHighestAuthority(rows)].authority
  BY <1>1, <1>4, ObjectsAgree, LatestIsLatest, HighestIsHighest
<1>5. CASE C # {} /\ agree
  <2>1. r = Answer("known", ChooseLatest(rows), {})
    BY <1>2, <1>4, <1>5 DEF ResolveCandidates
  <2>2. r.status = "known" /\ r.selected = ChooseLatest(rows) /\ r.conflicts = {}
    BY <2>1 DEF Answer
  <2> QED
    BY <1>1, <1>4, <1>5, <2>2
<1>6. CASE C # {} /\ ~agree /\ policy = "none"
  <2>1. Cardinality(Objects(C)) > 1 /\ Cardinality(Objects(C)) # 1
    BY <1>4, <1>6
  <2>2. r = Answer("conflicted", None, C)
    BY <1>2, <1>6, <2>1 DEF ResolveCandidates
  <2>3. r.status = "conflicted" /\ r.selected = None /\ r.conflicts = C
    BY <2>2 DEF Answer
  <2> QED
    BY <1>6, <2>3
<1>7. CASE C # {} /\ ~agree /\ policy # "none"
  <2> DEFINE selected == IF policy = "latest" THEN ChooseLatest(rows)
                                              ELSE ChooseHighestAuthority(rows)
  <2>1. Cardinality(Objects(C)) # 1
    BY <1>4, <1>7
  <2>2. r = Answer("resolved_with_conflict", selected,
                   {a \in C : Content[a].object # Content[selected].object})
    BY <1>2, <1>7, <2>1, Zenon DEF ResolveCandidates
  <2>3. /\ r.status = "resolved_with_conflict" /\ r.selected = selected
        /\ r.conflicts = {a \in C : Content[a].object # Content[selected].object}
    <3> HIDE DEF selected
    <3> QED
      BY <2>2 DEF Answer
  <2>4. policy = "latest" \/ policy = "highest_authority"
    BY <1>7 DEF Policy
  <2>5. selected \in C
    BY <1>4, <1>7
  <2>6. \A a \in C : IF ~agree /\ policy = "highest_authority"
                     THEN Content[a].authority <= Content[selected].authority
                     ELSE from[a] <= from[selected]
    BY <1>4, <1>7, <2>4
  <2> HIDE DEF selected
  <2> QED
    BY <1>1, <1>7, <2>3, <2>5, <2>6
<1> QED
  BY <1>3, <1>5, <1>6, <1>7

\* resolve answers with a row that applies and that the policy prefers, tells all
\* that contradicts it, and never a version beside the one that superseded it.
THEOREM StoreResolves == Spec => []SelectionFollowsPolicy
<1>1. ASSUME StoreInv, IsFiniteSet(Committed)
      PROVE  SelectionFollowsPolicy
  <2> SUFFICES ASSUME NEW T \in Time, NEW v \in Time, NEW policy \in Policy,
                      NEW r \in Answers(T, v, policy)
               PROVE  LET C == Candidates(T, v)
                          agree == \A a, b \in C : Content[a].object = Content[b].object
                      IN
                      /\ r.status \in {"known", "unknown"} <=> agree
                      /\ r.selected = None <=> C = {} \/ (~agree /\ policy = "none")
                      /\ \A a \in r.conflicts : Descendants(a) \cap C = {a}
                      /\ r.selected # None =>
                          /\ r.selected \in C
                          /\ r.conflicts = {a \in C : Content[a].object
                                                        # Content[r.selected].object}
                          /\ \A a \in C :
                              IF ~agree /\ policy = "highest_authority"
                              THEN Content[a].authority <= Content[r.selected].authority
                              ELSE from[a] <= from[r.selected]
    BY Zenon DEF SelectionFollowsPolicy
  <2> DEFINE C == Candidates(T, v)
             agree == \A a, b \in C : Content[a].object = Content[b].object
  <2>1. PICK rows \in SetToSeqs(C) : r = ResolveCandidates(rows, policy)
    BY Zenon DEF Answers, Results
  <2>2. /\ C \subseteq Visible(T) /\ \A a \in C : a \in Assertion
    BY <1>1, CandidatesTyped, BitemporalAssumption
  <2>3. /\ agree \in BOOLEAN /\ C = Candidates(T, v)
        /\ agree <=> \A a, b \in C : Content[a].object = Content[b].object
    OBVIOUS
  <2>4. /\ r.status \in {"known", "unknown"} <=> agree
        /\ r.selected = None <=> C = {} \/ (~agree /\ policy = "none")
        /\ r.conflicts \subseteq C
        /\ r.selected # None =>
               /\ r.selected \in C
               /\ r.conflicts = {a \in C : Content[a].object # Content[r.selected].object}
               /\ \A a \in C :
                   IF ~agree /\ policy = "highest_authority"
                   THEN Content[a].authority <= Content[r.selected].authority
                   ELSE from[a] <= from[r.selected]
    <3> HIDE DEF C, agree
    <3> QED
      BY <1>1, <2>1, <2>3, AnswerFollowsPolicy, BitemporalAssumption, ResolutionAssumption
  <2>5. ASSUME NEW a \in C
        PROVE  Descendants(a) \cap C = {a}
    <3>1. a \in Assertion /\ a \in Visible(T)
      BY <2>2
    <3>2. a \in Descendants(a)
      BY <3>1, DescendantsLeast
    <3>3. \A y \in Descendants(a) \cap C : y = a
      BY <1>1, <2>2, <3>1, NoLaterVisible, BitemporalAssumption
    <3> HIDE DEF C
    <3> QED
      BY <2>5, <3>2, <3>3
  <2> QED
    BY <2>4, <2>5, Zenon
<1>2. StoreInv /\ ReadInv => SelectionFollowsPolicy
  BY <1>1 DEF ReadInv
<1> QED
  BY <1>2, StoreInvariant, ReadInvariant, PTL

=============================================================================
