------------------------ MODULE EmbeddedOrders_proofs ------------------------
(***************************************************************************)
(* Proofs about EmbeddedOrders for any number of orders, items, keys and   *)
(* processes, any stock, any holds and any wall clocks.                    *)
(***************************************************************************)
EXTENDS EmbeddedOrders, FiniteSetTheorems, TLAPS

\* An order has its item as long as it has a row.
ItemInv == \A o \in Order : machine[o] # "absent" => item[o] \in Item

Answers(o) == {s \in stored : s.key[1] = "outcome" /\ s.key[2] = o}

\* HistoryTellsAll in three parts. The rows of an order are a path in time.
Edges ==
    ({"reserved"} \X {"payment_pending", "cancelled"}) \cup
    ({"payment_pending"} \X {"payment_pending", "confirmed", "failed"})

PathInv(o) ==
    LET h == history[o] IN
    /\ h = <<>> <=> machine[o] = "absent"
    /\ h # <<>> => machine[o] = h[Len(h)].state
    /\ \A n \in DOMAIN h : h[n].at <= clock
    /\ \A n \in 1..(Len(h) - 1) :
          /\ h[n].at < h[n + 1].at
          /\ <<h[n].state, h[n + 1].state>> \in Edges

\* There is a row for the reservation, one for the request and one for each attempt.
LengthInv(o) ==
    /\ machine[o] = "reserved" => Len(history[o]) = 1
    /\ effect[o] # "absent" => Len(history[o]) = 2 + attempts[o]

\* An attempt has an answer, and while the payment is open an answer is an attempt.
AnswerInv(o) ==
    /\ IsFiniteSet(Answers(o))
    /\ attempts[o] <= Cardinality(Answers(o))
    /\ effect[o] \in {"planned", "unknown"} => attempts[o] = Cardinality(Answers(o))
    /\ effect[o] = "absent" => attempts[o] = 0 /\ Answers(o) = {}

IInv ==
    /\ TypeOK
    /\ ItemInv
    /\ TablesAgree
    /\ \A o \in Order : PathInv(o) /\ LengthInv(o) /\ AnswerInv(o)

\* The logical clock moves on, whatever the wall clock shows.
LEMMA WriteTimeAdvances ==
    ASSUME clock \in Nat, NEW c \in Nat
    PROVE  WriteTime(c) \in Nat /\ WriteTime(c) > clock
BY DEF WriteTime

-----------------------------------------------------------------------------
(* Types and tables *)

\* The typing of the orders' state, and their items.
LEMMA StepType ==
    ASSUME TypeOK, ItemInv, [Next]_vars
    PROVE  TypeOK' /\ ItemInv'
<1> USE EmbeddedAssumption
    DEF TypeOK, ItemInv, MachineStates, PaymentStatus, Enter, stockVars, orderVars
<1>1. ASSUME NEW c \in Nat, NEW i \in Item, NEW n \in 0..MaxStock, SeedInventory(i, n, c)
      PROVE  TypeOK' /\ ItemInv'
  <2>1. WriteTime(c) \in Nat /\ n \in Nat
    BY WriteTimeAdvances
  <2>2. /\ clock' = WriteTime(c) /\ seeded' = seeded \cup {i} /\ onHand' = [onHand EXCEPT ![i] = n]
        /\ UNCHANGED <<held, machine, orderVars, history, timer, effect, attempts, due>>
    BY <1>1 DEF SeedInventory
  <2>3. onHand' \in [Item -> Nat]
    BY <2>1, <2>2
  <2> QED
    BY <2>1, <2>2, <2>3
<1>2. ASSUME NEW c \in Nat, NEW k \in Key, NEW o \in Order, NEW i \in Item,
             NEW n \in 1..MaxQuantity, NEW h \in 1..MaxHold, ReserveInventory(k, o, i, n, h, c)
      PROVE  TypeOK' /\ ItemInv'
  <2>1. WriteTime(c) \in Nat /\ n \in 0..MaxQuantity /\ n \in Nat /\ WriteTime(c) + h \in Nat
    <3>1. clock \in Nat /\ h \in Nat /\ n \in 0..MaxQuantity /\ n \in Nat
      OBVIOUS
    <3> HIDE DEF TypeOK, ItemInv
    <3>2. WriteTime(c) \in Nat
      BY <3>1, WriteTimeAdvances
    <3> QED
      BY <3>1, <3>2
  <2>2. held' \in [Item -> Nat]
    BY <1>2, <2>1 DEF ReserveInventory
  <2>3. item' \in [Order -> Item \cup {None}] /\ ItemInv'
    BY <1>2 DEF ReserveInventory
  <2>4. quantity' \in [Order -> 0..MaxQuantity] /\ expiresAt' \in [Order -> Nat]
    BY <1>2, <2>1 DEF ReserveInventory
  <2>5. history' \in [Order -> Seq([state : MachineStates, at : Nat])] /\ clock' \in Nat
    BY <1>2, <2>1 DEF ReserveInventory
  <2>6. /\ machine' \in [Order -> MachineStates]
        /\ timer' \in [Order -> {"absent", "pending", "fired", "cancelled"}]
        /\ UNCHANGED <<seeded, onHand, effect, attempts, due>>
    BY <1>2 DEF ReserveInventory
  <2> QED
    BY <2>2, <2>3, <2>4, <2>5, <2>6
<1>3. ASSUME NEW c \in Nat, NEW k \in Key, NEW o \in Order, RequestPayment(k, o, c)
      PROVE  TypeOK' /\ ItemInv'
  <2>1. WriteTime(c) \in Nat
    BY WriteTimeAdvances
  <2> QED
    BY <1>3, <2>1 DEF RequestPayment
<1>4. ASSUME NEW o \in Order, machine[o] # "absent", Release(o) \/ Commit(o)
      PROVE  /\ seeded' \subseteq Item
             /\ onHand' \in [Item -> Nat]
             /\ held' \in [Item -> Nat]
  <2>1. item[o] \in Item /\ quantity[o] \in Nat
    BY <1>4
  <2>2. held' \in [Item -> Nat]
    <3>1. held[item[o]] >= quantity[o] /\ held' = [held EXCEPT ![item[o]] = @ - quantity[o]]
      BY <1>4 DEF Release, Commit
    <3>2. held \in [Item -> Nat]
      OBVIOUS
    <3> HIDE DEF TypeOK, ItemInv
    <3> QED
      BY <2>1, <3>1, <3>2
  <2>3. onHand' \in [Item -> Nat]
    <3>1. \/ UNCHANGED onHand
          \/ /\ onHand[item[o]] >= quantity[o]
             /\ onHand' = [onHand EXCEPT ![item[o]] = @ - quantity[o]]
      BY <1>4 DEF Release, Commit
    <3>2. onHand \in [Item -> Nat]
      OBVIOUS
    <3> HIDE DEF TypeOK, ItemInv
    <3> QED
      BY <2>1, <3>1, <3>2
  <2>4. seeded' = seeded
    BY <1>4 DEF Release, Commit
  <2> QED
    BY <2>2, <2>3, <2>4
<1>5. ASSUME NEW c \in Nat, NEW k \in Key, NEW o \in Order, NEW s \in PaymentStatus,
             RecordPaymentOutcome(k, o, s, c)
      PROVE  TypeOK' /\ ItemInv'
  <2>1. WriteTime(c) \in Nat
    BY WriteTimeAdvances
  <2>2. /\ seeded' \subseteq Item
        /\ onHand' \in [Item -> Nat]
        /\ held' \in [Item -> Nat]
    BY <1>4, <1>5 DEF RecordPaymentOutcome, Settle
  <2>3. \E m \in MachineStates \ {"absent"} : Enter(o, m, WriteTime(c))
    BY <1>5 DEF RecordPaymentOutcome, Settle
  <2>4. /\ machine[o] = "payment_pending"
        /\ effect' = [effect EXCEPT ![o] = s]
        /\ attempts' = [attempts EXCEPT ![o] = @ + 1]
        /\ clock' = WriteTime(c)
        /\ UNCHANGED <<item, quantity, expiresAt, timer, due>>
    BY <1>5 DEF RecordPaymentOutcome
  <2> QED
    BY <2>1, <2>2, <2>3, <2>4
<1>6. ASSUME NEW c \in Nat, NEW k \in Key, NEW o \in Order, NEW s \in PaymentStatus,
             RepeatPaymentOutcome(k, o, s, c)
      PROVE  TypeOK' /\ ItemInv'
  BY <1>6, WriteTimeAdvances DEF RepeatPaymentOutcome
<1>7. ASSUME NEW p \in Process, NEW asOf, ReadDueTimers(p, asOf)
      PROVE  TypeOK' /\ ItemInv'
  BY <1>7 DEF ReadDueTimers
<1>8. ASSUME NEW p \in Process, NEW o \in Order, NEW c \in Nat, ProcessTimer(p, o, c)
      PROVE  TypeOK' /\ ItemInv'
  <2>1. WriteTime(c) \in Nat
    BY WriteTimeAdvances
  <2>2. CASE machine[o] = "reserved"
    <3>1. /\ seeded' \subseteq Item
          /\ onHand' \in [Item -> Nat]
          /\ held' \in [Item -> Nat]
      BY <1>4, <1>8, <2>2 DEF ProcessTimer
    <3>2. /\ Enter(o, "cancelled", WriteTime(c))
          /\ timer' = [timer EXCEPT ![o] = "fired"]
          /\ due' = [due EXCEPT ![p] = @ \ {o}]
          /\ clock' = WriteTime(c)
          /\ UNCHANGED <<orderVars, effect, attempts>>
      BY <1>8, <2>2 DEF ProcessTimer
    <3> QED
      BY <2>1, <2>2, <3>1, <3>2
  <2>3. CASE machine[o] # "reserved"
    BY <1>8, <2>1, <2>3 DEF ProcessTimer
  <2> QED
    BY <2>2, <2>3
<1>9. ASSUME NEW p \in Process, Crash(p)
      PROVE  TypeOK' /\ ItemInv'
  BY <1>9 DEF Crash
<1>10. CASE UNCHANGED vars
  BY <1>10 DEF vars
<1>11. 0..MaxTime \subseteq Nat
  OBVIOUS
<1> HIDE DEF TypeOK, ItemInv, PaymentStatus
<1> QED
  BY <1>1, <1>2, <1>3, <1>5, <1>6, <1>7, <1>8, <1>9, <1>10, <1>11
  DEF Next, AgentStep, TimerStep

\* The tables of an order agree after each step.
LEMMA StepTables ==
    ASSUME TypeOK, TablesAgree, [Next]_vars
    PROVE  TablesAgree'
<1> USE DEF TypeOK, TablesAgree, Enter, stockVars, orderVars, MachineStates, PaymentStatus
<1>1. ASSUME NEW c, NEW k \in Key, NEW o \in Order, NEW i \in Item, NEW n, NEW h,
             ReserveInventory(k, o, i, n, h, c)
      PROVE  TablesAgree'
  BY <1>1 DEF ReserveInventory
<1>2. ASSUME NEW c, NEW k \in Key, NEW o \in Order, RequestPayment(k, o, c)
      PROVE  TablesAgree'
  BY <1>2 DEF RequestPayment
<1>3. ASSUME NEW c, NEW k \in Key, NEW o \in Order, NEW s \in PaymentStatus,
             RecordPaymentOutcome(k, o, s, c)
      PROVE  TablesAgree'
  BY <1>3 DEF RecordPaymentOutcome, Settle
<1>4. ASSUME NEW p \in Process, NEW o \in Order, NEW c, ProcessTimer(p, o, c)
      PROVE  TablesAgree'
  BY <1>4 DEF ProcessTimer
<1>5. ASSUME UNCHANGED <<machine, timer, effect>>
      PROVE  TablesAgree'
  BY <1>5
<1>6. ASSUME \/ \E i, n, c : SeedInventory(i, n, c)
             \/ \E k, o, s, c : RepeatPaymentOutcome(k, o, s, c)
             \/ \E p : Crash(p) \/ \E asOf : ReadDueTimers(p, asOf)
             \/ UNCHANGED vars
      PROVE  UNCHANGED <<machine, timer, effect>>
  BY <1>6 DEF SeedInventory, RepeatPaymentOutcome, Crash, ReadDueTimers, vars
<1> HIDE DEF TypeOK, TablesAgree, PaymentStatus
<1> QED
  BY <1>1, <1>2, <1>3, <1>4, <1>5, <1>6 DEF Next, AgentStep, TimerStep

-----------------------------------------------------------------------------
(* Histories *)

Row == [state : MachineStates, at : Nat]

\* What appending a row to a history does.
LEMMA Appended ==
    ASSUME NEW h \in Seq(Row), NEW row \in Row
    PROVE  /\ Len(Append(h, row)) = Len(h) + 1 /\ Len(h) \in Nat
           /\ DOMAIN Append(h, row) = 1..(Len(h) + 1) /\ DOMAIN h = 1..Len(h)
           /\ \A n \in 1..Len(h) : Append(h, row)[n] = h[n] /\ h[n] \in Row /\ h[n].at \in Nat
           /\ Append(h, row)[Len(h) + 1] = row
<1>1. \A n \in 1..Len(h) : h[n] \in Row
  OBVIOUS
<1>2. \A r \in Row : r.at \in Nat
  BY DEF Row
<1> QED
  BY <1>1, <1>2

\* A row that enters an order's next state continues its path.
LEMMA EnterContinues ==
    ASSUME TypeOK, NEW o \in Order, PathInv(o), NEW t \in Nat, t > clock, clock' = t,
           NEW state \in MachineStates \ {"absent"},
           machine[o] = "absent" \/ <<machine[o], state>> \in Edges,
           Enter(o, state, t)
    PROVE  PathInv(o)' /\ Len(history'[o]) = Len(history[o]) + 1
<1> DEFINE h == history[o]
           row == [state |-> state, at |-> t]
<1>1. h \in Seq(Row) /\ clock \in Nat /\ row \in Row
  BY DEF TypeOK, Row
<1>2. history'[o] = Append(h, row) /\ machine'[o] = state
  BY DEF Enter, TypeOK
<1>3. /\ Len(Append(h, row)) = Len(h) + 1 /\ Len(h) \in Nat
      /\ DOMAIN Append(h, row) = 1..(Len(h) + 1) /\ DOMAIN h = 1..Len(h)
      /\ \A n \in 1..Len(h) : Append(h, row)[n] = h[n] /\ h[n].at \in Nat
      /\ Append(h, row)[Len(h) + 1] = row
  <2> HIDE DEF h, row
  <2> QED
    BY <1>1, Appended
<1>4. /\ h = <<>> <=> machine[o] = "absent"
      /\ h # <<>> => machine[o] = h[Len(h)].state
      /\ \A n \in 1..Len(h) : h[n].at <= clock
      /\ \A n \in 1..(Len(h) - 1) : h[n].at < h[n + 1].at /\ <<h[n].state, h[n + 1].state>> \in Edges
  BY <1>3 DEF PathInv
<1>5. row.state = state /\ row.at = t
  OBVIOUS
<1>6. Len(h) # 0 <=> h # <<>>
  <2> HIDE DEF h
  <2> QED
    BY <1>1
<1>7. ASSUME NEW n \in 1..Len(h)
      PROVE  /\ Append(h, row)[n].at < Append(h, row)[n + 1].at
             /\ <<Append(h, row)[n].state, Append(h, row)[n + 1].state>> \in Edges
  <2>1. CASE n = Len(h)
    <3>1. Append(h, row)[n] = h[n] /\ Append(h, row)[n + 1] = row
      BY <1>3, <2>1
    <3>2. h[n].at <= clock /\ h[n].at \in Nat
      BY <1>3, <1>4
    <3>3. <<h[n].state, state>> \in Edges
      <4>1. h # <<>>
        BY <1>3, <1>6
      <4> QED
        BY <1>4, <2>1, <4>1
    <3>4. h[n].at < row.at
      BY <1>1, <1>5, <3>2
    <3> HIDE DEF row, h
    <3> QED
      BY <1>5, <3>1, <3>3, <3>4
  <2>2. CASE n # Len(h)
    <3>1. n \in 1..(Len(h) - 1) /\ n + 1 \in 1..Len(h)
      BY <1>3, <2>2
    <3> HIDE DEF row, h
    <3> QED
      BY <1>3, <1>4, <3>1
  <2> QED
    BY <2>1, <2>2
<1>8. \A n \in 1..(Len(h) + 1) : Append(h, row)[n].at <= t
  <2> SUFFICES ASSUME NEW n \in 1..(Len(h) + 1) PROVE Append(h, row)[n].at <= t
    OBVIOUS
  <2>1. CASE n = Len(h) + 1
    BY <1>3, <1>5, <2>1
  <2>2. CASE n # Len(h) + 1
    <3>1. n \in 1..Len(h)
      BY <1>3, <2>2
    <3>2. Append(h, row)[n].at \in Nat /\ Append(h, row)[n].at <= clock
      BY <1>3, <1>4, <3>1
    <3> HIDE DEF row, h
    <3> QED
      BY <1>1, <3>2
  <2> QED
    BY <2>1, <2>2
<1>9. Append(h, row) # <<>>
  <2> HIDE DEF row, h
  <2> QED
    BY <1>3
<1> HIDE DEF row
<1> QED
  BY <1>2, <1>3, <1>5, <1>7, <1>8, <1>9 DEF PathInv

\* A later clock alone keeps every path.
LEMMA PathStill ==
    ASSUME TypeOK, NEW o \in Order, PathInv(o), clock' \in Nat, clock' >= clock,
           machine'[o] = machine[o], history'[o] = history[o]
    PROVE  PathInv(o)'
<1>1. \A n \in DOMAIN history[o] : history[o][n].at \in Nat
  <2>1. history[o] \in Seq(Row)
    BY DEF TypeOK, Row
  <2>2. PICK row : row \in Row
    <3>1. [state |-> "absent", at |-> 0] \in Row
      BY DEF Row, MachineStates
    <3> QED
      BY <3>1
  <2> QED
    BY <2>1, <2>2, Appended
<1> QED
  BY <1>1 DEF PathInv, TypeOK

-----------------------------------------------------------------------------
(* Answers *)

\* An answer stored under a fresh key is one answer more.
LEMMA AnswerAdded ==
    ASSUME NEW o \in Order, NEW k, NEW r, IsFiniteSet(Answers(o)),
           Fresh(<<"outcome", o, k>>, r), Store(<<"outcome", o, k>>, r)
    PROVE  /\ IsFiniteSet(Answers(o)')
           /\ Cardinality(Answers(o)') = Cardinality(Answers(o)) + 1
           /\ Cardinality(Answers(o)) \in Nat
           /\ \A q \in Order \ {o} : Answers(q)' = Answers(q)
<1> DEFINE a == [key |-> <<"outcome", o, k>>, request |-> r]
<1>1. a.key = <<"outcome", o, k>> /\ a \notin stored
  BY DEF Fresh
<1>2. Answers(o)' = Answers(o) \cup {a}
  BY <1>1 DEF Answers, Store
<1>3. a \notin Answers(o)
  BY <1>1 DEF Answers
<1>4. \A q \in Order \ {o} : Answers(q)' = Answers(q)
  BY <1>1 DEF Answers, Store
<1> HIDE DEF a
<1> QED
  BY <1>2, <1>3, <1>4, FS_AddElement, FS_CardinalityType

\* The other operations store no answers.
LEMMA OtherKeys ==
    ASSUME NEW q \in Order, NEW name \in {"reserve", "payment"}, NEW k, NEW r, Store(<<name, k>>, r)
    PROVE  Answers(q)' = Answers(q)
BY DEF Answers, Store

\* A step that adds no answer, no attempt and no row keeps what is said of them.
LEMMA HistoryStill ==
    ASSUME NEW q \in Order, LengthInv(q), AnswerInv(q),
           machine'[q] = machine[q], history'[q] = history[q], effect'[q] = effect[q],
           attempts'[q] = attempts[q], Answers(q)' = Answers(q)
    PROVE  LengthInv(q)' /\ AnswerInv(q)'
BY DEF LengthInv, AnswerInv

\* Every step keeps the histories, the attempts and the answers together.
LEMMA StepHistory ==
    ASSUME IInv, TypeOK', [Next]_vars
    PROVE  \A q \in Order : PathInv(q)' /\ LengthInv(q)' /\ AnswerInv(q)'
<1> SUFFICES ASSUME NEW q \in Order
             PROVE  PathInv(q)' /\ LengthInv(q)' /\ AnswerInv(q)'
  OBVIOUS
<1>0. /\ TypeOK /\ TablesAgree /\ clock \in Nat
      /\ \A o \in Order : PathInv(o) /\ LengthInv(o) /\ AnswerInv(o)
  BY DEF IInv, TypeOK
<1>c. \A c \in Nat : WriteTime(c) \in Nat /\ WriteTime(c) > clock
  BY <1>0, WriteTimeAdvances
<1>e. \A o \in Order : Len(history[o]) \in Nat /\ attempts[o] \in Nat /\ (history[o] = <<>> => Len(history[o]) = 0)
  BY <1>0 DEF TypeOK
<1>1. ASSUME clock' \in Nat, clock' >= clock,
             machine'[q] = machine[q], history'[q] = history[q], effect'[q] = effect[q],
             attempts'[q] = attempts[q], Answers(q)' = Answers(q)
      PROVE  PathInv(q)' /\ LengthInv(q)' /\ AnswerInv(q)'
  BY <1>0, <1>1, PathStill, HistoryStill
<1>2. ASSUME NEW c \in Nat, NEW i, NEW n, SeedInventory(i, n, c)
      PROVE  PathInv(q)' /\ LengthInv(q)' /\ AnswerInv(q)'
  BY <1>c, <1>0, <1>1, <1>2 DEF SeedInventory, Answers
<1>3. ASSUME NEW c \in Nat, NEW k \in Key, NEW o \in Order, NEW i \in Item, NEW n, NEW h,
             ReserveInventory(k, o, i, n, h, c)
      PROVE  PathInv(q)' /\ LengthInv(q)' /\ AnswerInv(q)'
  <2> DEFINE t == WriteTime(c)
  <2>1. /\ machine[o] = "absent" /\ Enter(o, "reserved", t) /\ clock' = t
        /\ Store(<<"reserve", k>>, <<o, i, n, h>>) /\ UNCHANGED <<effect, attempts>>
    BY <1>3 DEF ReserveInventory
  <2>2. t \in Nat /\ t > clock
    BY <1>c
  <2>3. Answers(q)' = Answers(q)
    BY <2>1, OtherKeys
  <2>4. CASE q # o
    BY <1>0, <1>1, <2>1, <2>2, <2>3, <2>4 DEF Enter, TypeOK
  <2>5. CASE q = o
    <3> HIDE DEF t
    <3>1. PathInv(o)' /\ Len(history'[o]) = Len(history[o]) + 1
      BY <1>0, <2>1, <2>2, EnterContinues DEF MachineStates
    <3>2. Len(history[o]) = 0
      BY <1>0, <1>e, <2>1 DEF PathInv
    <3>3. LengthInv(o)'
      <4>1. effect'[o] = "absent"
        BY <1>0, <2>1 DEF TablesAgree
      <4> QED
        BY <3>1, <3>2, <4>1 DEF LengthInv
    <3>4. AnswerInv(o)'
      BY <1>0, <2>1, <2>3, <2>5 DEF AnswerInv
    <3> QED
      BY <2>5, <3>1, <3>3, <3>4
  <2> QED
    BY <2>4, <2>5
<1>4. ASSUME NEW c \in Nat, NEW k \in Key, NEW o \in Order, RequestPayment(k, o, c)
      PROVE  PathInv(q)' /\ LengthInv(q)' /\ AnswerInv(q)'
  <2> DEFINE t == WriteTime(c)
  <2>1. /\ machine[o] = "reserved" /\ Enter(o, "payment_pending", t) /\ clock' = t
        /\ effect' = [effect EXCEPT ![o] = "planned"]
        /\ Store(<<"payment", k>>, <<o>>) /\ UNCHANGED attempts
    BY <1>4 DEF RequestPayment
  <2>2. t \in Nat /\ t > clock
    BY <1>c
  <2>3. Answers(q)' = Answers(q)
    BY <2>1, OtherKeys
  <2>4. CASE q # o
    BY <1>0, <1>1, <2>1, <2>2, <2>3, <2>4 DEF Enter, TypeOK
  <2>5. CASE q = o
    <3> HIDE DEF t
    <3>0. <<"reserved", "payment_pending">> \in Edges
      BY DEF Edges
    <3>1. PathInv(o)' /\ Len(history'[o]) = Len(history[o]) + 1
      BY <1>0, <2>1, <2>2, <3>0, EnterContinues DEF MachineStates
    <3>2. Len(history[o]) = 1 /\ effect[o] = "absent" /\ attempts[o] = 0 /\ Answers(o) = {}
          /\ IsFiniteSet(Answers(o))
      BY <1>0, <2>1 DEF LengthInv, TablesAgree, AnswerInv
    <3>3. machine'[o] = "payment_pending" /\ effect'[o] = "planned" /\ attempts'[o] = 0
      BY <1>0, <2>1, <3>2 DEF Enter, TypeOK
    <3>4. LengthInv(o)'
      BY <3>1, <3>2, <3>3 DEF LengthInv
    <3>5. AnswerInv(o)'
      BY <2>3, <2>5, <3>2, <3>3, FS_EmptySet DEF AnswerInv
    <3> QED
      BY <2>5, <3>1, <3>4, <3>5
  <2> QED
    BY <2>4, <2>5
<1>5. ASSUME NEW c \in Nat, NEW k \in Key, NEW o \in Order, NEW s \in PaymentStatus,
             RecordPaymentOutcome(k, o, s, c)
      PROVE  PathInv(q)' /\ LengthInv(q)' /\ AnswerInv(q)'
  <2> DEFINE t == WriteTime(c)
  <2>1. /\ Fresh(<<"outcome", o, k>>, <<s>>) /\ Store(<<"outcome", o, k>>, <<s>>)
        /\ machine[o] = "payment_pending" /\ effect[o] \in {"planned", "unknown"} /\ clock' = t
        /\ effect' = [effect EXCEPT ![o] = s] /\ attempts' = [attempts EXCEPT ![o] = @ + 1]
    BY <1>5 DEF RecordPaymentOutcome
  <2>2. PICK m \in {"payment_pending", "confirmed", "failed"} : Enter(o, m, t)
    BY <1>5 DEF RecordPaymentOutcome, Settle
  <2>3. t \in Nat /\ t > clock
    BY <1>c
  <2>4. /\ IsFiniteSet(Answers(o)') /\ Cardinality(Answers(o)') = Cardinality(Answers(o)) + 1
        /\ Cardinality(Answers(o)) \in Nat
        /\ \A p \in Order \ {o} : Answers(p)' = Answers(p)
    BY <1>0, <2>1, AnswerAdded DEF AnswerInv
  <2>5. CASE q # o
    BY <1>0, <1>1, <2>1, <2>2, <2>3, <2>4, <2>5 DEF Enter, TypeOK
  <2>6. CASE q = o
    <3> HIDE DEF t
    <3>0. <<"payment_pending", m>> \in Edges /\ m \in MachineStates \ {"absent"}
      BY DEF Edges, MachineStates
    <3>1. PathInv(o)' /\ Len(history'[o]) = Len(history[o]) + 1
      BY <1>0, <2>1, <2>2, <2>3, <3>0, EnterContinues
    <3>2. machine'[o] = m /\ effect'[o] = s /\ attempts'[o] = attempts[o] + 1
      BY <1>0, <2>1, <2>2 DEF Enter, TypeOK
    <3>3. Len(history[o]) = 2 + attempts[o] /\ attempts[o] = Cardinality(Answers(o))
      BY <1>0, <2>1 DEF LengthInv, AnswerInv
    <3>4. LengthInv(o)'
      BY <1>e, <3>1, <3>2, <3>3 DEF LengthInv
    <3>5. AnswerInv(o)'
      BY <2>4, <3>2, <3>3 DEF AnswerInv, PaymentStatus
    <3> QED
      BY <2>6, <3>1, <3>4, <3>5
  <2> QED
    BY <2>5, <2>6
<1>6. ASSUME NEW c \in Nat, NEW k \in Key, NEW o \in Order, NEW s \in PaymentStatus,
             RepeatPaymentOutcome(k, o, s, c)
      PROVE  PathInv(q)' /\ LengthInv(q)' /\ AnswerInv(q)'
  <2>1. /\ Fresh(<<"outcome", o, k>>, <<s>>) /\ Store(<<"outcome", o, k>>, <<s>>)
        /\ effect[o] \in {"succeeded", "failed"} /\ clock' = WriteTime(c)
        /\ UNCHANGED <<machine, history, effect, attempts>>
    BY <1>6 DEF RepeatPaymentOutcome
  <2>2. clock' \in Nat /\ clock' > clock
    BY <1>c, <2>1
  <2>3. /\ IsFiniteSet(Answers(o)') /\ Cardinality(Answers(o)') = Cardinality(Answers(o)) + 1
        /\ Cardinality(Answers(o)) \in Nat
        /\ \A p \in Order \ {o} : Answers(p)' = Answers(p)
    BY <1>0, <2>1, AnswerAdded DEF AnswerInv
  <2>4. CASE q # o
    BY <1>0, <1>1, <2>1, <2>2, <2>3, <2>4
  <2>5. CASE q = o
    <3>1. PathInv(o)'
      BY <1>0, <2>1, <2>2, PathStill
    <3>2. LengthInv(o)'
      BY <1>0, <2>1 DEF LengthInv
    <3>3. AnswerInv(o)'
      BY <1>0, <1>e, <2>1, <2>3 DEF AnswerInv
    <3> QED
      BY <2>5, <3>1, <3>2, <3>3
  <2> QED
    BY <2>4, <2>5
<1>7. ASSUME NEW p \in Process, NEW o \in Order, NEW c \in Nat, ProcessTimer(p, o, c)
      PROVE  PathInv(q)' /\ LengthInv(q)' /\ AnswerInv(q)'
  <2> DEFINE t == WriteTime(c)
  <2>1. clock' = t /\ UNCHANGED <<effect, attempts>> /\ Answers(q)' = Answers(q)
    BY <1>7 DEF ProcessTimer, Answers
  <2>2. t \in Nat /\ t > clock
    BY <1>c
  <2>3. CASE q # o \/ machine[o] # "reserved"
    <3>1. machine'[q] = machine[q] /\ history'[q] = history[q]
      BY <1>0, <1>7, <2>3 DEF ProcessTimer, Enter, TypeOK
    <3> QED
      BY <1>1, <1>0, <2>1, <2>2, <3>1
  <2>4. CASE q = o /\ machine[o] = "reserved"
    <3>0. Enter(o, "cancelled", t)
      BY <1>7, <2>4 DEF ProcessTimer
    <3> HIDE DEF t
    <3>1. <<"reserved", "cancelled">> \in Edges
      BY DEF Edges
    <3>2. PathInv(o)'
      BY <1>0, <2>1, <2>2, <2>4, <3>0, <3>1, EnterContinues DEF MachineStates
    <3>3. effect'[o] = "absent" /\ machine'[o] = "cancelled"
      BY <1>0, <2>1, <2>4, <3>0 DEF TablesAgree, Enter, TypeOK
    <3>4. LengthInv(o)'
      BY <3>3 DEF LengthInv
    <3>5. AnswerInv(o)'
      BY <1>0, <2>1, <2>4 DEF AnswerInv
    <3> QED
      BY <2>4, <3>2, <3>4, <3>5
  <2> QED
    BY <2>3, <2>4
<1>8. ASSUME UNCHANGED <<clock, machine, history, effect, attempts, stored>>
      PROVE  PathInv(q)' /\ LengthInv(q)' /\ AnswerInv(q)'
  BY <1>0, <1>1, <1>8 DEF Answers
<1>9. ASSUME \/ UNCHANGED vars
             \/ \E p \in Process : Crash(p) \/ \E asOf \in 0..(MaxTime + MaxHold) : ReadDueTimers(p, asOf)
      PROVE  UNCHANGED <<clock, machine, history, effect, attempts, stored>>
  BY <1>9 DEF Crash, ReadDueTimers, vars
<1>10. 0..MaxTime \subseteq Nat
  OBVIOUS
<1> QED
  BY <1>2, <1>3, <1>4, <1>5, <1>6, <1>7, <1>8, <1>9, <1>10 DEF Next, AgentStep, TimerStep

-----------------------------------------------------------------------------
(* The contract *)

PhaseOf == [o \in Order |-> Phase(o)]
FreeOf  == [i \in Item |-> onHand[i] - held[i]]

\* Nothing is promised of an item that is not seeded.
UnseededInv == \A i \in Item \ seeded : held[i] = 0

LEMMA StepUnseeded ==
    ASSUME IInv, UnseededInv, [Next]_vars
    PROVE  UnseededInv'
<1>0. /\ held \in [Item -> Nat] /\ quantity \in [Order -> Nat]
      /\ \A o \in Order : machine[o] # "absent" => item[o] \in Item
  BY EmbeddedAssumption DEF IInv, TypeOK, ItemInv
<1>1. ASSUME NEW c, NEW i \in Item, NEW n, SeedInventory(i, n, c)
      PROVE  UnseededInv'
  BY <1>1 DEF SeedInventory, UnseededInv
<1>2. ASSUME NEW c, NEW k \in Key, NEW o \in Order, NEW i \in Item, NEW n, NEW h,
             ReserveInventory(k, o, i, n, h, c)
      PROVE  UnseededInv'
  BY <1>0, <1>2 DEF ReserveInventory, UnseededInv
<1>3. ASSUME NEW o \in Order, machine[o] # "absent", Release(o) \/ Commit(o)
      PROVE  UnseededInv'
  <2>1. /\ held[item[o]] >= quantity[o] /\ seeded' = seeded
        /\ held' = [held EXCEPT ![item[o]] = @ - quantity[o]]
    BY <1>3 DEF Release, Commit
  <2>2. item[o] \in Item /\ quantity[o] \in Nat
    BY <1>0, <1>3
  <2> SUFFICES ASSUME NEW i \in Item \ seeded PROVE held'[i] = 0
    BY <2>1 DEF UnseededInv
  <2>3. held[i] = 0
    BY DEF UnseededInv
  <2>4. CASE i = item[o]
    BY <1>0, <2>1, <2>2, <2>3, <2>4
  <2>5. CASE i # item[o]
    BY <1>0, <2>1, <2>3, <2>5
  <2> QED
    BY <2>4, <2>5
<1>4. CASE UNCHANGED <<seeded, held>>
  BY <1>4 DEF UnseededInv
<1>5. ASSUME NEW c, NEW k \in Key, NEW o \in Order, NEW s \in PaymentStatus,
             RecordPaymentOutcome(k, o, s, c)
      PROVE  UnseededInv'
  BY <1>3, <1>4, <1>5 DEF RecordPaymentOutcome, Settle, stockVars
<1>6. ASSUME NEW p \in Process, NEW o \in Order, NEW c, ProcessTimer(p, o, c)
      PROVE  UnseededInv'
  BY <1>3, <1>4, <1>6 DEF ProcessTimer, stockVars
<1>7. ASSUME \/ \E k, o, c : RequestPayment(k, o, c)
             \/ \E k, o, s, c : RepeatPaymentOutcome(k, o, s, c)
             \/ \E p : Crash(p) \/ \E asOf : ReadDueTimers(p, asOf)
             \/ UNCHANGED vars
      PROVE  UNCHANGED <<seeded, held>>
  BY <1>7 DEF RequestPayment, RepeatPaymentOutcome, Crash, ReadDueTimers, vars, stockVars
<1> QED
  BY <1>1, <1>2, <1>4, <1>5, <1>6, <1>7 DEF Next, AgentStep, TimerStep

\* What the contract counts of one order.
LEMMA ContractUnitsOfOne ==
    ASSUME TypeOK, NEW o \in Order, NEW i \in Item
    PROVE  Contract!Units({o}, i) = IF item[o] = i THEN quantity[o] ELSE 0
<1> DEFINE units == {u \in Order \X (1..MaxQuantity) :
                        u[1] \in {o} /\ item[u[1]] = i /\ u[2] <= quantity[u[1]]}
<1>1. Contract!Units({o}, i) = Cardinality(units)
  BY DEF Contract!Units, Contract!Cardinality, Cardinality
<1>2. quantity[o] \in 0..MaxQuantity /\ MaxQuantity \in Nat
  BY EmbeddedAssumption DEF TypeOK
<1>3. CASE item[o] = i
  <2>1. units = {o} \X (1..quantity[o])
    BY <1>2, <1>3
  <2>2. /\ IsFiniteSet({o}) /\ Cardinality({o}) = 1
        /\ IsFiniteSet(1..quantity[o]) /\ Cardinality(1..quantity[o]) = quantity[o]
    <3>1. quantity[o] \in Nat
      BY <1>2
    <3>2. PICK q \in Nat : q = quantity[o]
      BY <3>1
    <3>3. IsFiniteSet(1..q) /\ Cardinality(1..q) = IF 1 > q THEN 0 ELSE q - 1 + 1
      BY FS_Interval
    <3>4. IsFiniteSet({o}) /\ Cardinality({o}) = 1
      BY FS_Singleton, Zenon
    <3>5. IsFiniteSet(1..quantity[o]) /\ Cardinality(1..quantity[o]) = quantity[o]
      BY <3>2, <3>3
    <3> QED
      BY <3>4, <3>5
  <2>3. Cardinality({o} \X (1..quantity[o])) = 1 * quantity[o]
    BY <2>2, FS_Product
  <2> HIDE DEF units
  <2> QED
    BY <1>1, <1>2, <1>3, <2>1, <2>3
<1>4. CASE item[o] # i
  <2>1. units = {}
    BY <1>4
  <2> HIDE DEF units
  <2> QED
    BY <1>1, <1>4, <2>1, FS_EmptySet
<1> QED
  BY <1>3, <1>4

\* What the contract says of a release of one order.
LEMMA ReleaseOne ==
    ASSUME IInv, NEW o \in Order, machine[o] \in {"reserved", "payment_pending"},
           NEW state \in {"failed", "cancelled"}, machine' = [machine EXCEPT ![o] = state],
           Release(o), UNCHANGED <<item, quantity>>
    PROVE  Contract!Release({o})
<1>1. /\ held \in [Item -> Nat] /\ onHand \in [Item -> Nat] /\ machine \in [Order -> MachineStates]
      /\ item[o] \in Item /\ quantity[o] \in Nat /\ TypeOK
  <2>1. TypeOK /\ ItemInv
    BY DEF IInv
  <2>2. quantity[o] \in Nat
    BY <2>1, EmbeddedAssumption DEF TypeOK
  <2>3. item[o] \in Item
    BY <2>1 DEF ItemInv
  <2>4. held \in [Item -> Nat] /\ onHand \in [Item -> Nat] /\ machine \in [Order -> MachineStates]
    BY <2>1 DEF TypeOK
  <2> QED
    BY <2>1, <2>2, <2>3, <2>4
<1>2. PhaseOf[o] \in {"held", "paying"}
  BY DEF PhaseOf, Phase
<1>3. PhaseOf' = [p \in Order |-> IF p \in {o} THEN "released" ELSE PhaseOf[p]]
  <2>1. \A p \in Order : machine'[p] = IF p = o THEN state ELSE machine[p]
    BY <1>1
  <2> QED
    BY <2>1 DEF PhaseOf, Phase
<1>4. FreeOf' = [i \in Item |-> FreeOf[i] + Contract!Units({o}, i)]
  <2>1. \A i \in Item : onHand'[i] - held'[i] = (onHand[i] - held[i]) + Contract!Units({o}, i)
    <3> SUFFICES ASSUME NEW i \in Item
                 PROVE  onHand'[i] - held'[i] = (onHand[i] - held[i]) + Contract!Units({o}, i)
      OBVIOUS
    <3>1. Contract!Units({o}, i) = IF item[o] = i THEN quantity[o] ELSE 0
      BY <1>1, ContractUnitsOfOne
    <3>2. /\ held'[i] = IF i = item[o] THEN held[i] - quantity[o] ELSE held[i]
          /\ onHand'[i] = onHand[i] /\ onHand[i] \in Nat /\ held[i] \in Nat
      BY <1>1 DEF Release
    <3> QED
      BY <1>1, <3>1, <3>2
  <2> QED
    BY <2>1 DEF FreeOf
<1> QED
  BY <1>2, <1>3, <1>4 DEF Release, Contract!Release, PhaseOf, FreeOf

\* Every step is one of the contract, or none: reads, repeated answers, outcomes that
\* stay unknown, timers of orders that went on, and processes that end.
LEMMA EmbeddedStepRefines ==
    ASSUME IInv, UnseededInv, [Next]_vars
    PROVE  [Contract!Next]_(Contract!contractVars)
<1>0. /\ held \in [Item -> Nat] /\ onHand \in [Item -> Nat] /\ machine \in [Order -> MachineStates]
      /\ \A o \in Order : machine[o] # "absent" => item[o] \in Item /\ quantity[o] \in Nat
  <2>1. /\ held \in [Item -> Nat] /\ onHand \in [Item -> Nat]
        /\ machine \in [Order -> MachineStates]
        /\ \A o \in Order : machine[o] # "absent" => item[o] \in Item
    BY DEF IInv, TypeOK, ItemInv
  <2>2. \A o \in Order : quantity[o] \in Nat
    BY EmbeddedAssumption DEF IInv, TypeOK
  <2> QED
    BY <2>1, <2>2
<1> DEFINE Stutter == UNCHANGED <<PhaseOf, item, quantity, seeded, onHand, FreeOf>>
<1>00. Stutter => UNCHANGED Contract!contractVars
  BY DEF Contract!contractVars, PhaseOf, FreeOf
<1>1. ASSUME NEW c, NEW i \in Item, NEW n \in 0..MaxStock, SeedInventory(i, n, c)
      PROVE  Contract!Seed(i, n)
  <2>1. held[i] = 0 /\ n \in Nat
    BY <1>1 DEF UnseededInv, SeedInventory
  <2>2. FreeOf' = [FreeOf EXCEPT ![i] = n]
    <3>1. held' = held /\ onHand' = [onHand EXCEPT ![i] = n]
      BY <1>1 DEF SeedInventory
    <3>2. \A j \in Item : onHand'[j] - held'[j] = IF j = i THEN n ELSE onHand[j] - held[j]
      BY <1>0, <2>1, <3>1
    <3> QED
      BY <3>2 DEF FreeOf
  <2>3. UNCHANGED PhaseOf
    BY <1>1 DEF SeedInventory, PhaseOf, Phase
  <2> QED
    BY <1>1, <2>2, <2>3 DEF SeedInventory, orderVars, Contract!Seed, PhaseOf, FreeOf
<1>2. ASSUME NEW c, NEW k \in Key, NEW o \in Order, NEW i \in Item, NEW n \in 1..MaxQuantity, NEW h,
             ReserveInventory(k, o, i, n, h, c)
      PROVE  Contract!Hold(o, i, n)
  <2>1. PhaseOf[o] = "new" /\ i \in seeded /\ n \in Nat
    BY <1>2, EmbeddedAssumption DEF ReserveInventory, PhaseOf, Phase
  <2>2. n <= FreeOf[i]
    BY <1>0, <1>2, <2>1 DEF ReserveInventory, FreeOf
  <2>3. PhaseOf' = [PhaseOf EXCEPT ![o] = "held"]
    <3>1. \A p \in Order : machine'[p] = IF p = o THEN "reserved" ELSE machine[p]
      BY <1>0, <1>2 DEF ReserveInventory, Enter
    <3> QED
      BY <3>1 DEF PhaseOf, Phase
  <2>4. FreeOf' = [FreeOf EXCEPT ![i] = @ - n]
    <3>1. onHand' = onHand /\ held' = [held EXCEPT ![i] = @ + n]
      BY <1>2 DEF ReserveInventory
    <3>2. \A j \in Item : onHand'[j] - held'[j] = IF j = i THEN (onHand[j] - held[j]) - n
                                                        ELSE onHand[j] - held[j]
      BY <1>0, <2>1, <3>1
    <3> QED
      BY <3>2 DEF FreeOf
  <2> QED
    BY <1>2, <2>1, <2>2, <2>3, <2>4 DEF ReserveInventory, Contract!Hold, PhaseOf, FreeOf
<1>3. ASSUME NEW c, NEW k \in Key, NEW o \in Order, RequestPayment(k, o, c)
      PROVE  Contract!Pay(o)
  <2>1. PhaseOf[o] = "held"
    BY <1>3 DEF RequestPayment, PhaseOf, Phase
  <2>2. PhaseOf' = [PhaseOf EXCEPT ![o] = "paying"]
    <3>1. \A p \in Order : machine'[p] = IF p = o THEN "payment_pending" ELSE machine[p]
      BY <1>0, <1>3 DEF RequestPayment, Enter
    <3> QED
      BY <3>1 DEF PhaseOf, Phase
  <2>3. UNCHANGED FreeOf
    BY <1>3 DEF RequestPayment, stockVars, FreeOf
  <2> QED
    BY <1>3, <2>1, <2>2, <2>3
    DEF RequestPayment, stockVars, orderVars, Contract!Pay, PhaseOf, FreeOf
<1>4. ASSUME NEW o \in Order, machine[o] = "payment_pending", Commit(o), UNCHANGED orderVars,
             machine' = [machine EXCEPT ![o] = "confirmed"]
      PROVE  Contract!Sell(o)
  <2>1. PhaseOf[o] = "paying" /\ PhaseOf' = [PhaseOf EXCEPT ![o] = "sold"]
    <3>1. \A p \in Order : machine'[p] = IF p = o THEN "confirmed" ELSE machine[p]
      BY <1>0, <1>4
    <3>2. PhaseOf[o] = "paying"
      BY <1>4 DEF PhaseOf, Phase
    <3>3. PhaseOf' = [PhaseOf EXCEPT ![o] = "sold"]
      BY <3>1 DEF PhaseOf, Phase
    <3> QED
      BY <3>2, <3>3
  <2>2. FreeOf' = FreeOf
    <3> SUFFICES ASSUME NEW i \in Item PROVE onHand'[i] - held'[i] = onHand[i] - held[i]
      BY DEF FreeOf
    <3>1. item[o] \in Item /\ quantity[o] \in Nat
      BY <1>0, <1>4
    <3>2. /\ held'[i] = IF i = item[o] THEN held[i] - quantity[o] ELSE held[i]
          /\ onHand'[i] = IF i = item[o] THEN onHand[i] - quantity[o] ELSE onHand[i]
          /\ held[i] \in Nat /\ onHand[i] \in Nat
      BY <1>0, <1>4 DEF Commit
    <3> QED
      BY <3>1, <3>2
  <2> QED
    BY <1>4, <2>1, <2>2 DEF Commit, orderVars, Contract!Sell, PhaseOf, FreeOf
<1>5. ASSUME NEW c, NEW k \in Key, NEW o \in Order, NEW s \in PaymentStatus,
             RecordPaymentOutcome(k, o, s, c)
      PROVE  Stutter \/ Contract!Sell(o) \/ Contract!Release({o})
  <2>1. /\ machine[o] = "payment_pending" /\ Settle(o, s, WriteTime(c))
        /\ UNCHANGED orderVars
    BY <1>5 DEF RecordPaymentOutcome
  <2>2. CASE s = "succeeded"
    BY <1>4, <2>1, <2>2 DEF Settle, Enter
  <2>3. CASE s = "failed"
    BY <2>1, <2>3, ReleaseOne DEF Settle, Enter, orderVars
  <2>4. CASE s = "unknown"
    <3>1. UNCHANGED <<machine, onHand, held, seeded>>
      BY <1>0, <2>1, <2>4 DEF Settle, Enter, stockVars
    <3> QED
      BY <2>1, <3>1 DEF orderVars, PhaseOf, Phase, FreeOf
  <2> HIDE DEF Stutter
  <2> QED
    BY <2>2, <2>3, <2>4 DEF PaymentStatus
<1>6. ASSUME NEW p \in Process, NEW o \in Order, NEW c, ProcessTimer(p, o, c)
      PROVE  Stutter \/ Contract!Release({o})
  <2>1. CASE machine[o] = "reserved"
    <3>1. /\ Release(o) /\ machine' = [machine EXCEPT ![o] = "cancelled"]
          /\ UNCHANGED <<item, quantity>>
      BY <1>6, <2>1 DEF ProcessTimer, Enter, orderVars
    <3> HIDE DEF Stutter
    <3> QED
      BY <2>1, <3>1, ReleaseOne
  <2>2. CASE machine[o] # "reserved"
    BY <1>6, <2>2 DEF ProcessTimer, stockVars, orderVars, PhaseOf, Phase, FreeOf
  <2> QED
    BY <2>1, <2>2
<1>7. ASSUME \/ \E k, o, s, c : RepeatPaymentOutcome(k, o, s, c)
             \/ \E p : Crash(p) \/ \E asOf : ReadDueTimers(p, asOf)
             \/ UNCHANGED vars
      PROVE  Stutter
  <2>1. UNCHANGED <<stockVars, machine, orderVars>>
    BY <1>7 DEF RepeatPaymentOutcome, Crash, ReadDueTimers, vars
  <2> QED
    BY <2>1 DEF stockVars, orderVars, PhaseOf, Phase, FreeOf
<1>8. \A o \in Order : Contract!Release({o}) => Contract!Next
  BY DEF Contract!Next
<1>9. \A o \in Order : Contract!Sell(o) \/ Contract!Pay(o) => Contract!Next
  BY DEF Contract!Next
<1>10. \A i \in Item, n \in 0..MaxStock : Contract!Seed(i, n) => Contract!Next
  BY DEF Contract!Next
<1>11. \A o \in Order, i \in Item, n \in 1..MaxQuantity : Contract!Hold(o, i, n) => Contract!Next
  BY DEF Contract!Next
<1> HIDE DEF Stutter
<1> QED
  BY <1>00, <1>1, <1>2, <1>3, <1>5, <1>6, <1>7, <1>8, <1>9, <1>10, <1>11 DEF Next, AgentStep, TimerStep

-----------------------------------------------------------------------------
(* The theorems *)

\* The inductive invariant holds in every reachable state.
THEOREM EmbeddedInvariance == Spec => []IInv
<1>1. Init => IInv
  <2> SUFFICES ASSUME Init PROVE IInv
    OBVIOUS
  <2>1. TypeOK
    BY EmbeddedAssumption DEF Init, TypeOK, MachineStates, PaymentStatus
  <2>2. ItemInv /\ TablesAgree
    BY DEF Init, ItemInv, TablesAgree
  <2>3. ASSUME NEW o \in Order
        PROVE  PathInv(o) /\ LengthInv(o) /\ AnswerInv(o)
    <3>1. Answers(o) = {}
      BY DEF Init, Answers
    <3>2. PathInv(o) /\ LengthInv(o)
      BY DEF Init, PathInv, LengthInv
    <3>3. AnswerInv(o)
      BY <3>1, FS_EmptySet DEF Init, AnswerInv
    <3> QED
      BY <3>2, <3>3
  <2> QED
    BY <2>1, <2>2, <2>3 DEF IInv
<1>2. IInv /\ [Next]_vars => IInv'
  BY StepType, StepTables, StepHistory DEF IInv
<1> QED
  BY <1>1, <1>2, PTL DEF Spec

\* Type correctness.
THEOREM EmbeddedTypeCorrect == Spec => []TypeOK
<1>1. IInv => TypeOK
  BY DEF IInv
<1> QED
  BY <1>1, EmbeddedInvariance, PTL

\* Order, timer and payment agree, whatever two processes do with old timers.
THEOREM TablesSafety == Spec => []TablesAgree
<1>1. IInv => TablesAgree
  BY DEF IInv
<1> QED
  BY <1>1, EmbeddedInvariance, PTL

\* Histories are complete, in the order of time, and count each answer once.
THEOREM HistorySafety == Spec => []HistoryTellsAll
<1>1. IInv => HistoryTellsAll
  <2> SUFFICES ASSUME IInv PROVE HistoryTellsAll
    OBVIOUS
  <2>1. ASSUME NEW o \in Order
        PROVE  /\ machine[o] = IF history[o] = <<>> THEN "absent"
                                ELSE history[o][Len(history[o])].state
               /\ \A n \in DOMAIN history[o] : history[o][n].at <= clock
               /\ \A n \in 1..(Len(history[o]) - 1) :
                     /\ history[o][n].at < history[o][n + 1].at
                     /\ <<history[o][n].state, history[o][n + 1].state>> \in Edges
    BY DEF IInv, PathInv
  <2>2. ASSUME NEW o \in Order
        PROVE  /\ effect[o] # "absent" => Len(history[o]) = 2 + attempts[o]
               /\ attempts[o] <= Cardinality(Answers(o))
               /\ effect[o] \in {"planned", "unknown"} => attempts[o] = Cardinality(Answers(o))
    BY DEF IInv, LengthInv, AnswerInv
  <2> QED
    BY <2>1, <2>2, Zenon DEF HistoryTellsAll, Answers, Edges
<1> QED
  BY <1>1, EmbeddedInvariance, PTL

\* The orders of the SQLite profile keep the contract that both kernels share.
THEOREM EmbeddedImplementsOrders == Spec => ImplementsOrders
<1>1. Init => UnseededInv /\ Contract!Init
  <2> SUFFICES ASSUME Init PROVE UnseededInv /\ Contract!Init
    OBVIOUS
  <2>1. [o \in Order |-> Phase(o)] = [o \in Order |-> "new"]
    BY DEF Init, Phase
  <2>2. [i \in Item |-> onHand[i] - held[i]] = [i \in Item |-> 0]
    BY DEF Init
  <2>3. UnseededInv
    BY DEF Init, UnseededInv
  <2> QED
    BY <2>1, <2>2, <2>3 DEF Init, Contract!Init
<1>2. IInv /\ UnseededInv /\ [Next]_vars => UnseededInv'
  BY StepUnseeded
<1>3. IInv /\ UnseededInv /\ [Next]_vars => [Contract!Next]_(Contract!contractVars)
  BY EmbeddedStepRefines
<1> QED
  BY <1>1, <1>2, <1>3, EmbeddedInvariance, PTL DEF Spec, ImplementsOrders, Contract!Spec

=============================================================================
