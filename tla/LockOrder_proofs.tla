--------------------------- MODULE LockOrder_proofs ---------------------------
(***************************************************************************)
(* Where requests of API clients can deadlock, for any number of sessions, *)
(* orders, keys and items.  Every lock has a rank; most requests ask for   *)
(* locks of rising rank, so that in a circle of them the rank would rise   *)
(* for ever.  The few that do not are in a circle only with those that     *)
(* hold what they ask for too late.                                        *)
(***************************************************************************)
EXTENDS LockOrder, SequenceTheorems, TLAPS

Kinds == {"clock", "key", "machine", "timer", "effect", "inventory", "provider", "artifact"}
Lock  == Kinds \X (Order \cup Key \cup Item \cup {None})

Rank(l) ==
    IF l[1] = "machine" THEN IF l[2] \in Generic THEN 2 ELSE 0
    ELSE IF l[1] = "provider" THEN 1
    ELSE IF l[1] \in {"effect", "inventory", "artifact"} THEN 2
    ELSE IF l[1] = "clock" THEN 3
    ELSE IF l[1] = "key" THEN 4
    ELSE 5

LockTyping ==
    /\ op    \in [Txn -> AllOps \cup {"none"}]
    /\ batch \in [Txn -> Seq(Order)]
    /\ wants \in [Txn -> Seq(Lock)]
    /\ holds \in [Txn -> SUBSET Lock]
    /\ phase \in [Order -> Phases]

Rising(s) == \A i, j \in DOMAIN s : i < j => Rank(s[i]) < Rank(s[j])

\* Of the locks that W lists the first n are held and the others wanted.
InPart(W, n, w, H) ==
    /\ n \in 0..Len(W)
    /\ Len(w) = Len(W) - n
    /\ \A i \in 1..Len(w) : w[i] = W[n + i]
    /\ H = {W[i] : i \in 1..n}

\* A request that asks for locks that it has not in rising rank.
LateOps == {"assert", "link", "misdirect"}

\* A request is somewhere on its way through the locks that Wants lists.
OnTheWay(t) ==
    /\ batch[t] \in Batches(op[t])
    /\ op[t] = "advance" => batch[t][1] \in Generic
    /\ op[t] = "misdirect" => batch[t][1] \notin Generic
    /\ \E n \in Nat : InPart(Wants(op[t], batch[t]), n, wants[t], holds[t])

RequestsAsk == \A t \in Txn : op[t] \in RequestOps => OnTheWay(t)

LockInv == LockTyping /\ RequestsAsk

-----------------------------------------------------------------------------
LEMMA BatchTyped ==
    ASSUME NEW p \in AllOps, NEW s \in Batches(p)
    PROVE  s \in Seq(Order) /\ Len(s) \in 1..2 /\ s[1] \in Order
                            /\ (Len(s) = 2 => s[2] \in Order)
<1>1. CASE \E o \in Order : s = <<o>>
  BY <1>1
<1>2. CASE \E o, q \in Order : s = <<o, q>>
  <2>1. PICK o \in Order, q \in Order : s = <<o, q>>
    BY <1>2
  <2> QED
    BY <2>1
<1> QED
  BY <1>1, <1>2 DEF Batches

LEMMA PairTyped ==
    ASSUME NEW p \in {"replay", "misdirect"}, NEW s \in Batches(p)
    PROVE  s[1] \in Order /\ s[2] \in Order
  BY DEF Batches

LEMMA LocksTyped ==
    ASSUME LockAssumption, NEW o \in Order
    PROVE  clock \in Lock /\ key(o) \in Lock /\ machine(o) \in Lock
           /\ timer(o) \in Lock /\ effect(o) \in Lock /\ inventory(o) \in Lock
           /\ provider(o) \in Lock /\ artifact(o) \in Lock
<1>1. KeyOf[o] \in Key /\ ItemOf[o] \in Item
  BY DEF LockAssumption
<1> QED
  BY <1>1 DEF Lock, Kinds, clock, key, machine, timer, effect, inventory, provider, artifact

LEMMA RanksOf ==
    ASSUME NEW o \in Order
    PROVE  Rank(machine(o)) = (IF o \in Generic THEN 2 ELSE 0) /\ Rank(provider(o)) = 1
           /\ Rank(effect(o)) = 2 /\ Rank(inventory(o)) = 2 /\ Rank(artifact(o)) = 2
           /\ Rank(clock) = 3 /\ Rank(key(o)) = 4 /\ Rank(timer(o)) = 5
  BY DEF Rank, clock, key, machine, timer, effect, inventory, provider, artifact

LEMMA RankBound == \A l : Rank(l) \in 0..5
  BY DEF Rank

-----------------------------------------------------------------------------
(* What a transaction asks for. *)

LEMMA OutcomeTyped ==
    ASSUME LockAssumption, NEW o \in Order
    PROVE  Outcome(o) \in Seq(Lock) /\ Payment(o) \in Seq(Lock) /\ Expiry(o) \in Seq(Lock)
<1>1. clock \in Lock /\ key(o) \in Lock /\ machine(o) \in Lock
      /\ timer(o) \in Lock /\ inventory(o) \in Lock /\ provider(o) \in Lock
  BY LocksTyped
<1> HIDE DEF Lock
<1> QED
  BY <1>1 DEF Outcome, Payment, Expiry

LEMMA WantsTyped ==
    ASSUME LockAssumption, NEW p \in AllOps, NEW s \in Batches(p)
    PROVE  Wants(p, s) \in Seq(Lock) /\ Taken(p, s) \in SUBSET Lock
<1>1. s \in Seq(Order) /\ Len(s) \in 1..2 /\ s[1] \in Order
      /\ (Len(s) = 2 => s[2] \in Order)
  BY BatchTyped
<1>2. \A o \in Order : /\ clock \in Lock /\ key(o) \in Lock /\ machine(o) \in Lock
                       /\ timer(o) \in Lock /\ effect(o) \in Lock /\ inventory(o) \in Lock
                       /\ provider(o) \in Lock /\ artifact(o) \in Lock
                       /\ Outcome(o) \in Seq(Lock) /\ Payment(o) \in Seq(Lock)
                       /\ Expiry(o) \in Seq(Lock)
  BY LocksTyped, OutcomeTyped
<1> HIDE DEF Lock, clock, key, machine, timer, effect, inventory, provider, artifact, Outcome,
             Payment, Expiry, Replay
<1>3. <<clock>> \in Seq(Lock) /\ <<effect(s[1]), clock>> \in Seq(Lock)
      /\ <<inventory(s[1]), clock>> \in Seq(Lock)
      /\ <<machine(s[1]), clock>> \in Seq(Lock)
      /\ <<artifact(s[1]), clock>> \in Seq(Lock)
      /\ <<clock, artifact(s[1])>> \in Seq(Lock)
      /\ <<clock, effect(s[1])>> \in Seq(Lock)
      /\ <<key(s[1])>> \in Seq(Lock)
  BY <1>1, <1>2
<1>4. Wants(p, s) \in Seq(Lock)
  <2>1. CASE p \in {"reserve", "advance", "pay", "put", "assert", "link", "revoke", "lease",
                    "retry"}
    BY <2>1, <1>1, <1>2, <1>3 DEF Wants
  <2>5. CASE p = "replay"
    <3>1. s[1] \in Order /\ s[2] \in Order /\ Wants(p, s) = Replay(s[1], s[2])
      BY <2>5, PairTyped DEF Wants
    <3>2. /\ machine(s[1]) \in Lock /\ provider(s[2]) \in Lock
          /\ effect(s[2]) \in Lock /\ clock \in Lock
      BY <3>1, <1>2
    <3>3. /\ <<provider(s[2]), effect(s[2]), clock>> \in Seq(Lock)
          /\ <<provider(s[2]), effect(s[2])>> \in Seq(Lock)
          /\ <<machine(s[1]), provider(s[2]), effect(s[2]), clock>> \in Seq(Lock)
          /\ <<machine(s[1]), provider(s[2]), effect(s[2])>> \in Seq(Lock)
      BY <3>2
    <3>4. Replay(s[1], s[2]) \in Seq(Lock)
      BY <3>3, Zenon DEF Replay
    <3> QED
      BY <3>1, <3>4
  <2>6. CASE p = "misdirect"
    <3>1. s[1] \in Order /\ s[2] \in Order /\ Wants(p, s) = <<provider(s[2]), machine(s[1])>>
      BY <2>6, PairTyped DEF Wants
    <3> QED
      BY <3>1, <1>2
  <2>2. CASE p = "expire"
    <3>1. Wants(p, s) = IF Len(s) = 1 THEN Expiry(s[1]) ELSE Expiry(s[1]) \o Expiry(s[2])
      BY <2>2 DEF Wants
    <3> QED
      BY <3>1, <1>1, <1>2, ConcatProperties
  <2>3. CASE p = "cancel"
    <3>1. Wants(p, s) = <<clock>> \o Outcome(s[1])
      BY <2>3 DEF Wants
    <3> QED
      BY <3>1, <1>1, <1>2, <1>3, ConcatProperties
  <2>4. CASE p = "settle"
    <3>1. Wants(p, s) = <<effect(s[1]), clock>> \o Outcome(s[1]) \o <<key(s[1])>>
      BY <2>4 DEF Wants
    <3>2. <<effect(s[1]), clock>> \o Outcome(s[1]) \in Seq(Lock)
      BY <1>1, <1>2, <1>3, ConcatProperties
    <3> QED
      BY <3>1, <3>2, <1>3, ConcatProperties
  <2> QED
    BY <2>1, <2>2, <2>3, <2>4, <2>5, <2>6 DEF AllOps, RequestOps, WorkerOps
<1>5. Taken(p, s) \in SUBSET Lock
  <2>1. \A i \in DOMAIN s : s[i] \in Order
    BY <1>1
  <2> QED
    BY <2>1, <1>1, <1>2 DEF Taken
<1> QED
  BY <1>4, <1>5

LEMMA RequestsAskInOrder ==
    ASSUME NEW p \in RequestOps \ LateOps, NEW s \in Batches(p)
    PROVE  Rising(Wants(p, s))
<1>1. s[1] \in Order
  BY BatchTyped DEF AllOps
<1>2. /\ Rank(machine(s[1])) = (IF s[1] \in Generic THEN 2 ELSE 0) /\ Rank(provider(s[1])) = 1
      /\ Rank(effect(s[1])) = 2 /\ Rank(inventory(s[1])) = 2 /\ Rank(artifact(s[1])) = 2
      /\ Rank(clock) = 3 /\ Rank(key(s[1])) = 4 /\ Rank(timer(s[1])) = 5
  BY <1>1, RanksOf
<1>3. CASE p \in {"reserve", "advance", "put", "revoke"}
  <2> HIDE DEF Rank, clock, key, machine, timer, effect, inventory, provider, artifact
  <2> QED
    BY <1>2, <1>3 DEF Wants, Rising
<1>4. CASE p = "pay"
  <2> HIDE DEF Rank, clock, key, machine, timer, effect, inventory, provider, artifact
  <2> QED
    BY <1>2, <1>4 DEF Wants, Rising, Payment
<1>5. CASE p = "replay"
  <2>1. /\ s[2] \in Order
        /\ Wants(p, s) = Replay(s[1], s[2])
        /\ Rank(provider(s[2])) = 1 /\ Rank(effect(s[2])) = 2
    BY <1>5, PairTyped, RanksOf DEF Wants
  <2> HIDE DEF Rank, clock, key, machine, timer, effect, inventory, provider, artifact
  <2>2. Rising(Replay(s[1], s[2]))
    BY <1>2, <2>1 DEF Rising, Replay
  <2> QED
    BY <2>1, <2>2
<1> QED
  BY <1>3, <1>4, <1>5 DEF RequestOps, LateOps

LEMMA RequestsTakeNothing ==
    ASSUME NEW p \in RequestOps, NEW s
    PROVE  Taken(p, s) = {}
  BY DEF RequestOps, Taken

-----------------------------------------------------------------------------
(* The way of a request through its locks. *)

LEMMA PartBegins ==
    ASSUME NEW W \in Seq(Lock)
    PROVE  InPart(W, 0, W, {})
  BY DEF InPart

LEMMA PartGoesOn ==
    ASSUME NEW W \in Seq(Lock), NEW n \in Nat, NEW w \in Seq(Lock), NEW H,
           InPart(W, n, w, H), w # <<>>
    PROVE  InPart(W, n + 1, Tail(w), H \cup {Head(w)})
<1>1. Len(w) = Len(W) - n /\ Len(w) > 0 /\ Len(W) \in Nat
  BY DEF InPart
<1>2. Head(w) = W[n + 1] /\ Len(Tail(w)) = Len(W) - (n + 1)
  BY <1>1 DEF InPart
<1>3. \A i \in 1..Len(Tail(w)) : Tail(w)[i] = W[(n + 1) + i]
  <2> SUFFICES ASSUME NEW i \in 1..Len(Tail(w))
               PROVE  Tail(w)[i] = W[(n + 1) + i]
    OBVIOUS
  <2>1. Tail(w)[i] = w[i + 1] /\ i + 1 \in 1..Len(w)
    BY <1>1
  <2>2. w[i + 1] = W[n + (i + 1)]
    BY <2>1 DEF InPart
  <2>3. n + (i + 1) = (n + 1) + i
    OBVIOUS
  <2> QED
    BY <2>1, <2>2, <2>3
<1>4. H \cup {Head(w)} = {W[i] : i \in 1..(n + 1)}
  <2>1. 1..(n + 1) = (1..n) \cup {n + 1}
    OBVIOUS
  <2>2. H = {W[i] : i \in 1..n}
    BY DEF InPart
  <2> QED
    BY <2>1, <2>2, <1>2
<1> QED
  BY <1>1, <1>2, <1>3, <1>4 DEF InPart

\* Nothing that such a request holds is as high as what it waits for.
LEMMA PartRises ==
    ASSUME NEW W \in Seq(Lock), NEW n \in Nat, NEW w \in Seq(Lock), NEW H,
           InPart(W, n, w, H), w # <<>>, Rising(W), NEW l \in H
    PROVE  Rank(l) < Rank(Head(w))
<1>1. Len(w) > 0 /\ Len(w) = Len(W) - n
  BY DEF InPart
<1>2. Head(w) = W[n + 1] /\ n + 1 \in DOMAIN W
  BY <1>1 DEF InPart
<1>3. PICK i \in 1..n : l = W[i]
  BY DEF InPart
<1>4. i \in DOMAIN W /\ i < n + 1
  BY <1>1, <1>3
<1> QED
  BY <1>2, <1>3, <1>4 DEF Rising

-----------------------------------------------------------------------------
LEMMA LockInitial == LockAssumption /\ Init => LockInv
  BY DEF Init, LockInv, LockTyping, RequestsAsk, AllOps, RequestOps, WorkerOps, Phases

LEMMA EndKeeps ==
    ASSUME LockInv, NEW t \in Txn, End(t), phase' \in [Order -> Phases]
    PROVE  LockInv'
<1>1. LockTyping'
  BY DEF LockInv, LockTyping, End
<1>2. RequestsAsk'
  <2> SUFFICES ASSUME NEW u \in Txn, op'[u] \in RequestOps
               PROVE  OnTheWay(u)'
    BY DEF RequestsAsk
  <2>1. /\ u # t
        /\ op'[u] = op[u] /\ batch'[u] = batch[u] /\ wants'[u] = wants[u] /\ holds'[u] = holds[u]
    BY DEF End, LockInv, LockTyping, RequestOps
  <2>2. OnTheWay(u)
    BY <2>1 DEF LockInv, RequestsAsk
  <2> QED
    BY <2>1, <2>2 DEF OnTheWay
<1> QED
  BY <1>1, <1>2 DEF LockInv

LEMMA LockInvariance ==
    ASSUME LockAssumption, LockInv, [Next]_lockVars
    PROVE  LockInv'
<1>1. CASE UNCHANGED lockVars
  BY <1>1 DEF lockVars, LockInv, LockTyping, RequestsAsk, OnTheWay
<1>2. ASSUME NEW t \in Txn, NEW p \in Ops, NEW s \in Batches(p), Begin(t, p, s)
      PROVE  LockInv'
  <2>0. p \in AllOps
    BY DEF LockAssumption
  <2>1. /\ s \in Seq(Order)
        /\ Wants(p, s) \in Seq(Lock)
        /\ Taken(p, s) \in SUBSET Lock
    BY <2>0, BatchTyped, WantsTyped
  <2>2. LockTyping'
    BY <1>2, <2>0, <2>1 DEF LockInv, LockTyping, Begin
  <2>3. ASSUME NEW u \in Txn, op'[u] \in RequestOps
        PROVE  OnTheWay(u)'
    <3>1. CASE u = t
      <4>1. op'[u] = p /\ batch'[u] = s /\ wants'[u] = Wants(p, s) /\ holds'[u] = {}
        BY <3>1, <2>3, <1>2, RequestsTakeNothing DEF Begin, LockInv, LockTyping
      <4>2. InPart(Wants(p, s), 0, Wants(p, s), {})
        BY <2>1, PartBegins
      <4>3. (p = "advance" => s[1] \in Generic) /\ (p = "misdirect" => s[1] \notin Generic)
        BY <1>2 DEF Begin, Finds, From
      <4> QED
        BY <4>1, <4>2, <4>3 DEF OnTheWay
    <3>2. CASE u # t
      <4>1. /\ op'[u] = op[u] /\ batch'[u] = batch[u]
            /\ wants'[u] = wants[u] /\ holds'[u] = holds[u]
        BY <3>2, <1>2 DEF Begin, LockInv, LockTyping
      <4> QED
        BY <4>1, <2>3 DEF LockInv, RequestsAsk, OnTheWay
    <3> QED
      BY <3>1, <3>2
  <2> QED
    BY <2>2, <2>3 DEF LockInv, RequestsAsk
<1>3. ASSUME NEW t \in Txn, Acquire(t)
      PROVE  LockInv'
  <2> DEFINE h == Head(wants[t])
             w == Tail(wants[t])
  <2>1. wants[t] \in Seq(Lock) /\ wants[t] # <<>>
    BY <1>3 DEF Acquire, LockInv, LockTyping
  <2>2. h \in Lock /\ w \in Seq(Lock)
    BY <2>1
  <2>3. LockTyping'
    BY <1>3, <2>2 DEF Acquire, LockInv, LockTyping
  <2>4. ASSUME NEW u \in Txn, op'[u] \in RequestOps
        PROVE  OnTheWay(u)'
    <3>0. op'[u] = op[u] /\ batch'[u] = batch[u] /\ OnTheWay(u)
      BY <2>4, <1>3 DEF Acquire, LockInv, RequestsAsk
    <3>1. CASE u = t
      <4>1. wants'[u] = w /\ holds'[u] = holds[u] \cup {h}
        BY <3>1, <1>3 DEF Acquire, LockInv, LockTyping
      <4>2. PICK n \in Nat : InPart(Wants(op[u], batch[u]), n, wants[u], holds[u])
        BY <3>0 DEF OnTheWay
      <4>3. Wants(op[u], batch[u]) \in Seq(Lock)
        <5>1. op[u] \in AllOps
          BY <2>4, <3>0 DEF AllOps
        <5> QED
          BY <5>1, <3>0, WantsTyped DEF OnTheWay
      <4>4. InPart(Wants(op[u], batch[u]), n + 1, w, holds[u] \cup {h})
        BY <4>2, <4>3, <3>1, <2>1, PartGoesOn
      <4> QED
        BY <4>1, <4>4, <3>0 DEF OnTheWay
    <3>2. CASE u # t
      <4>1. wants'[u] = wants[u] /\ holds'[u] = holds[u]
        BY <3>2, <1>3 DEF Acquire, LockInv, LockTyping
      <4> QED
        BY <4>1, <3>0 DEF OnTheWay
    <3> QED
      BY <3>1, <3>2
  <2> QED
    BY <2>3, <2>4 DEF LockInv, RequestsAsk
<1>4. ASSUME NEW t \in Txn, Refuse(t) \/ Abort(t)
      PROVE  LockInv'
  <2>1. End(t) /\ phase' = phase
    BY <1>4 DEF Refuse, Abort
  <2> QED
    BY <2>1, EndKeeps DEF LockInv, LockTyping
<1>5. ASSUME NEW t \in Txn, Commit(t)
      PROVE  LockInv'
  <2>1. \A o \in Order : To(op[t], o) \in Phases
    BY <1>5 DEF Commit, LockInv, LockTyping, To, Phases, AllOps, RequestOps, WorkerOps
  <2>2. End(t) /\ phase' \in [Order -> Phases]
    BY <1>5, <2>1 DEF Commit, LockInv, LockTyping
  <2> QED
    BY <2>2, EndKeeps
<1> QED
  BY <1>1, <1>2, <1>3, <1>4, <1>5 DEF Next

\* Every request holds what RequestsAsk says, whatever is committed,
\* refused or rolled back.
THEOREM LockInvariant == Spec => []LockInv
<1>1. Init => LockInv
  BY LockInitial, LockAssumption
<1>2. LockInv /\ [Next]_lockVars => LockInv'
  BY LockInvariance, LockAssumption
<1> QED
  BY <1>1, <1>2, PTL DEF Spec

-----------------------------------------------------------------------------
\* Only a request that stores again locks an artifact or an effect before its end.
LEMMA OtherLocks ==
    ASSUME NEW p \in RequestOps \ {"put", "replay"}, NEW s \in Batches(p),
           NEW j \in Nat \ {0}, j < Len(Wants(p, s))
    PROVE  Wants(p, s)[j][1] \notin {"artifact", "effect"}
<1>1. CASE p = "pay"
  BY <1>1 DEF Wants, Payment, provider, machine, clock, key, timer
<1>2. CASE p # "pay"
  <2>1. Len(Wants(p, s)) <= 2 /\ (j = 1 => Wants(p, s)[j][1] \notin {"artifact", "effect"})
    BY <1>2 DEF Wants, RequestOps, inventory, machine, clock, provider, key
  <2> QED
    BY <2>1
<1> QED
  BY <1>1, <1>2

\* Only a payment locks the machine row of an order before its end.
LEMMA OtherMachines ==
    ASSUME NEW p \in RequestOps \ {"pay", "replay"}, NEW s \in Batches(p),
           NEW j \in Nat \ {0}, j < Len(Wants(p, s)),
           p = "advance" => s[1] \in Generic,
           Wants(p, s)[j][1] = "machine"
    PROVE  Wants(p, s)[j][2] \in Generic
<1>1. Len(Wants(p, s)) <= 2
  BY DEF Wants, RequestOps
<1>2. j = 1
  BY <1>1
<1> QED
  BY <1>2 DEF Wants, RequestOps, inventory, machine, clock, provider, key, artifact

\* Of two locks one is held and the other is wanted, if one is held and one wanted.
LEMMA SecondWanted ==
    ASSUME NEW a, NEW b, NEW n \in Nat, n # 0, NEW H,
           NEW w \in Seq(Lock), w # <<>>, InPart(<<a, b>>, n, w, H)
    PROVE  n = 1 /\ Head(w) = b
<1>1. n \in 0..2 /\ Len(w) = 2 - n
  BY DEF InPart
<1>2. Len(w) \in Nat \ {0}
  OBVIOUS
<1>3. n = 1 /\ 1 \in 1..Len(w)
  BY <1>1, <1>2
<1>4. w[1] = <<a, b>>[2]
  BY <1>3 DEF InPart
<1> QED
  BY <1>3, <1>4

\* A request that asks late waits for what it asks late, in a circle without
\* crossed locks, only if it holds nothing.
LEMMA NobodyLate ==
    ASSUME LockInv, NEW t \in Txn, NEW u \in Txn,
           op[t] \in LateOps, op[u] \in RequestOps,
           Waits(t, u), wants[u] # <<>>, ~CrossedLocks(t, u)
    PROVE  holds[t] = {}
<1> DEFINE o == batch[t][1]
           q == batch[t][2]
<1>1. OnTheWay(t) /\ OnTheWay(u)
  BY DEF LockInv, RequestsAsk, LateOps, RequestOps
<1>2. PICK n \in Nat : InPart(Wants(op[t], batch[t]), n, wants[t], holds[t])
  BY <1>1 DEF OnTheWay
<1>3. PICK k \in Nat : InPart(Wants(op[u], batch[u]), k, wants[u], holds[u])
  BY <1>1 DEF OnTheWay
<1> DEFINE W == Wants(op[u], batch[u])
<1>4. W \in Seq(Lock) /\ wants[u] \in Seq(Lock) /\ wants[t] \in Seq(Lock)
  <2>1. op[u] \in AllOps
    BY DEF AllOps
  <2> QED
    BY <2>1, <1>1, WantsTyped, LockAssumption DEF OnTheWay, LockInv, LockTyping
<1>5. wants[t] # <<>> /\ Head(wants[t]) \in holds[u]
  BY DEF Waits
<1>6. PICK j \in 1..k : Head(wants[t]) = W[j]
  BY <1>3, <1>5 DEF InPart
<1>7. j < Len(W)
  BY <1>3, <1>4, <1>6 DEF InPart
<1> HIDE DEF W
<1>8. CASE op[t] \in {"assert", "link"}
  <2>1. \E l \in {artifact(o), effect(o)} : Wants(op[t], batch[t]) = <<clock, l>>
    BY <1>8 DEF Wants
  <2>2. PICK l \in {artifact(o), effect(o)} : Wants(op[t], batch[t]) = <<clock, l>>
    BY <2>1
  <2>3. CASE n = 0
    BY <2>3, <1>2 DEF InPart
  <2>4. CASE n # 0
    <3>1. n = 1 /\ Head(wants[t]) = l
      BY <2>2, <2>4, <1>2, <1>4, <1>5, SecondWanted
    <3>2. W[j] = l /\ l[1] \in {"artifact", "effect"}
      BY <3>1, <1>6 DEF artifact, effect
    <3>3. op[u] \notin {"put", "replay"}
      BY <1>8 DEF CrossedLocks
    <3>4. FALSE
      <4>1. op[u] \in RequestOps \ {"put", "replay"} /\ batch[u] \in Batches(op[u])
            /\ j \in Nat \ {0}
        BY <3>3, <1>1, <1>6 DEF OnTheWay
      <4>2. Wants(op[u], batch[u])[j][1] \notin {"artifact", "effect"}
        BY <4>1, <1>7, OtherLocks DEF W
      <4> QED
        BY <4>2, <3>2 DEF W
    <3> QED
      BY <3>4
  <2> QED
    BY <2>3, <2>4
<1>9. CASE op[t] = "misdirect"
  <2>1. Wants(op[t], batch[t]) = <<provider(q), machine(o)>> /\ o \notin Generic
    BY <1>9, <1>1 DEF Wants, OnTheWay
  <2>3. CASE n = 0
    BY <2>3, <1>2 DEF InPart
  <2>4. CASE n # 0
    <3>1. n = 1 /\ Head(wants[t]) = machine(o)
      BY <2>1, <2>4, <1>2, <1>4, <1>5, SecondWanted
    <3>2. W[j] = machine(o) /\ W[j][1] = "machine" /\ W[j][2] \notin Generic
      BY <3>1, <1>6, <2>1 DEF machine
    <3>3. op[u] \notin {"pay", "replay"}
      BY <1>9 DEF CrossedLocks
    <3>4. FALSE
      BY <3>2, <3>3, <1>7, <1>1, OtherMachines DEF W, OnTheWay
    <3> QED
      BY <3>4
  <2> QED
    BY <2>3, <2>4
<1> QED
  BY <1>8, <1>9 DEF LateOps

LEMMA CircleIsCrossed == LockInv => RequestsRarelyDeadlock
<1> SUFFICES ASSUME LockInv,
                    NEW T \in SUBSET {t \in Txn : op[t] \in RequestOps},
                    Deadlocked(T),
                    \A t \in T, u \in T : ~CrossedLocks(t, u)
             PROVE  FALSE
  BY DEF RequestsRarelyDeadlock
<1> DEFINE R(t) == Rank(Head(wants[t]))
<1>1. \A t \in T : \E u \in T : R(t) < R(u)
  <2> SUFFICES ASSUME NEW t \in T
               PROVE  \E u \in T : R(t) < R(u)
    OBVIOUS
  <2>1. PICK u \in T : Waits(t, u)
    BY DEF Deadlocked
  <2>2. PICK v \in T : Waits(u, v) /\ wants[v] # <<>>
    BY DEF Deadlocked, Waits
  <2>3. wants[u] # <<>> /\ wants[u] \in Seq(Lock) /\ Head(wants[t]) \in holds[u]
    BY <2>1, <2>2 DEF Waits, LockInv, LockTyping
  <2>4. op[u] \notin LateOps
    BY <2>2, <2>3, NobodyLate
  <2>5. OnTheWay(u) /\ op[u] \in RequestOps \ LateOps /\ op[u] \in AllOps
    BY <2>4 DEF LockInv, RequestsAsk, AllOps
  <2>6. Rising(Wants(op[u], batch[u])) /\ Wants(op[u], batch[u]) \in Seq(Lock)
    BY <2>5, RequestsAskInOrder, WantsTyped, LockAssumption DEF OnTheWay
  <2>7. R(t) < R(u)
    BY <2>3, <2>5, <2>6, PartRises DEF OnTheWay
  <2> QED
    BY <2>7
<1>2. \A t \in T : R(t) \in 0..5
  BY RankBound
<1>3. T # {}
  BY DEF Deadlocked
<1> HIDE DEF R
<1>4. \A t \in T : R(t) # 5
  BY <1>1, <1>2
<1>5. \A t \in T : R(t) # 4
  BY <1>1, <1>2, <1>4
<1>6. \A t \in T : R(t) # 3
  BY <1>1, <1>2, <1>4, <1>5
<1>7. \A t \in T : R(t) # 2
  BY <1>1, <1>2, <1>4, <1>5, <1>6
<1>8. \A t \in T : R(t) # 1
  BY <1>1, <1>2, <1>4, <1>5, <1>6, <1>7
<1> QED
  BY <1>1, <1>2, <1>3, <1>4, <1>5, <1>6, <1>7, <1>8

\* Requests of API clients deadlock among themselves only over crossed locks,
\* however many run, and whatever the worker and the timers do beside them.
THEOREM RequestDeadlocks == Spec => []RequestsRarelyDeadlock
  BY LockInvariant, CircleIsCrossed, PTL

-----------------------------------------------------------------------------
(* Locks exclude each other, and a session without a transaction has none. *)

LEMMA EndKeepsExclusion ==
    ASSUME LockInv, TypeOK, NEW t \in Txn, End(t), phase' \in [Order -> Phases]
    PROVE  TypeOK'
<1>1. \A u \in Txn : /\ op'[u] = IF u = t THEN "none" ELSE op[u]
                     /\ batch'[u] = IF u = t THEN <<>> ELSE batch[u]
                     /\ wants'[u] = IF u = t THEN <<>> ELSE wants[u]
                     /\ holds'[u] = IF u = t THEN {} ELSE holds[u]
  BY DEF End, LockInv, LockTyping
<1>2. op' \in [Txn -> AllOps \cup {"none"}]
  BY DEF End, TypeOK
<1> QED
  BY <1>1, <1>2 DEF TypeOK

LEMMA ExclusionInvariance ==
    ASSUME LockAssumption, LockInv, TypeOK, [Next]_lockVars
    PROVE  TypeOK'
<1>1. CASE UNCHANGED lockVars
  BY <1>1 DEF lockVars, TypeOK
<1>2. ASSUME NEW t \in Txn, NEW p \in Ops, NEW s \in Batches(p), Begin(t, p, s)
      PROVE  TypeOK'
  <2>1. p \in AllOps /\ p # "none" /\ s # <<>>
    <3>1. p \in AllOps
      BY DEF LockAssumption
    <3> QED
      BY <3>1, BatchTyped DEF AllOps, RequestOps, WorkerOps
  <2>2. \A u \in Txn : /\ op'[u] = IF u = t THEN p ELSE op[u]
                       /\ batch'[u] = IF u = t THEN s ELSE batch[u]
                       /\ wants'[u] = IF u = t THEN Wants(p, s) ELSE wants[u]
                       /\ holds'[u] = IF u = t THEN Taken(p, s) ELSE holds[u]
    BY <1>2 DEF Begin, LockInv, LockTyping
  <2>3. \A u \in Txn : Taken(p, s) \cap holds[u] = {}
    BY <1>2 DEF Begin, Free
  <2>4. op' \in [Txn -> AllOps \cup {"none"}] /\ phase' = phase
    BY <1>2, <2>1 DEF Begin, TypeOK
  <2> QED
    BY <2>1, <2>2, <2>3, <2>4 DEF TypeOK
<1>3. ASSUME NEW t \in Txn, Acquire(t)
      PROVE  TypeOK'
  <2>1. op' = op /\ batch' = batch /\ phase' = phase /\ op[t] # "none"
    BY <1>3 DEF Acquire, TypeOK
  <2>2. \A u \in Txn : /\ u # t => wants'[u] = wants[u]
                       /\ holds'[u] = IF u = t THEN holds[u] \cup {Head(wants[t])} ELSE holds[u]
                       /\ u # t => Head(wants[t]) \notin holds[u]
    BY <1>3 DEF Acquire, LockInv, LockTyping
  <2> QED
    BY <2>1, <2>2 DEF TypeOK
<1>4. ASSUME NEW t \in Txn, Refuse(t) \/ Abort(t)
      PROVE  TypeOK'
  <2>1. End(t) /\ phase' = phase
    BY <1>4 DEF Refuse, Abort
  <2> QED
    BY <2>1, EndKeepsExclusion DEF LockInv, LockTyping
<1>5. ASSUME NEW t \in Txn, Commit(t)
      PROVE  TypeOK'
  <2>1. \A o \in Order : To(op[t], o) \in Phases
    BY <1>5 DEF Commit, LockInv, LockTyping, To, Phases, AllOps, RequestOps, WorkerOps
  <2>2. End(t) /\ phase' \in [Order -> Phases]
    BY <1>5, <2>1 DEF Commit, LockInv, LockTyping
  <2> QED
    BY <2>2, EndKeepsExclusion
<1> QED
  BY <1>1, <1>2, <1>3, <1>4, <1>5 DEF Next

\* No two transactions hold the same row, and none outlives its session's
\* return to the pool.
THEOREM LockTypeCorrect == Spec => []TypeOK
<1>1. Init => TypeOK
  BY DEF Init, TypeOK, AllOps, Phases
<1>2. LockInv /\ TypeOK /\ [Next]_lockVars => TypeOK'
  BY ExclusionInvariance, LockAssumption
<1> QED
  BY <1>1, <1>2, LockInvariant, PTL DEF Spec

=============================================================================
