----------------------------- MODULE Explain_proofs -----------------------------
(***************************************************************************)
(* explain tells the truth in both kernels: for every lineage between       *)
(* records, every root and depth, and all limits, an answer holds nothing   *)
(* outside the neighborhood, and all of it unless it says it is truncated.  *)
(***************************************************************************)
EXTENDS Explain, FiniteSetTheorems, SequenceTheorems, TLAPS

(* Recursive functions *)

\* Every nonempty set of numbers has a least one: what the inductions below rest on.
LEMMA LeastNumber ==
    ASSUME NEW S \in SUBSET Nat, S # {}
    PROVE  \E m \in S : \A n \in S : m <= n
<1> DEFINE R == OpToRel(<, Nat)
<1>1. IsWellFoundedOn(R, Nat)
  BY NatLessThanWellFounded
<1>2. PICK m \in S : \A n \in S : <<n, m>> \notin R
  <2> HIDE DEF R
  <2> QED BY <1>1, WFMin
<1>3. \A n \in S : ~(n < m)
  BY <1>2 DEF OpToRel
<1> QED
  BY <1>3

\* Induction over 0..N, for the numbers that a set holds.
LEMMA UpTo ==
    ASSUME NEW N \in Nat, NEW S, 0 \in S, \A n \in 0..(N - 1) : n \in S => n + 1 \in S
    PROVE  0..N \subseteq S
<1> SUFFICES ASSUME NEW k \in 0..N, k \notin S PROVE FALSE
  OBVIOUS
<1> DEFINE Out == {n \in 0..N : n \notin S}
<1>1. PICK m \in Out : \A n \in Out : m <= n
  <2>1. Out \in SUBSET Nat /\ Out # {}
    OBVIOUS
  <2> HIDE DEF Out
  <2> QED
    BY <2>1, LeastNumber
<1>2. m - 1 \in 0..(N - 1)
  BY <1>1
<1>3. m - 1 \in S
  BY <1>1, <1>2
<1> QED
  BY <1>1, <1>2, <1>3

\* What two ends an edge has.
Ends(e) == {e.from, e.to}

\* All edges of a lineage lead between the records.
Between(lineage, records) == \A e \in ToSet(lineage) : Ends(e) \subseteq records

\* The edges at a set of nodes.
At(lineage, S) == {e \in ToSet(lineage) : Touching(S, e)}

\* The neighbors of a set of nodes.
Around(lineage, S) == UNION {Ends(e) : e \in At(lineage, S)}

\* Balls satisfies the equation that defines it.
LEMMA BallsAre ==
    ASSUME NEW lineage, NEW root, NEW M \in Nat
    PROVE  LET ball == Balls(lineage, root, M) IN
           /\ ball[0] = {root}
           /\ \A d \in 0..(M - 1) : ball[d + 1] = ball[d] \cup Around(lineage, ball[d])
<1> DEFINE Step(S) == S \cup UNION {{e.from, e.to} : e \in {f \in ToSet(lineage) : Touching(S, f)}}
           Ball(g, k) == g = [d \in 0..k |-> IF d = 0 THEN {root} ELSE Step(g[d - 1])]
           Known == {k \in Nat : \E g : Ball(g, k)}
<1>1. 0 \in Known
  <2> DEFINE g == [d \in 0..0 |-> {root}]
  <2>1. Ball(g, 0)
    OBVIOUS
  <2> QED
    BY <2>1
<1>2. ASSUME NEW k \in Nat, k \in Known PROVE k + 1 \in Known
  <2> HIDE DEF Step
  <2>1. PICK g : Ball(g, k)
    BY <1>2
  <2> DEFINE h == [d \in 0..(k + 1) |-> IF d = k + 1 THEN Step(g[k]) ELSE g[d]]
  <2>2. ASSUME NEW d \in 0..(k + 1) PROVE h[d] = IF d = 0 THEN {root} ELSE Step(h[d - 1])
    <3>1. CASE d = k + 1
      <4>1. h[d] = Step(g[k]) /\ h[d - 1] = g[k]
        BY <3>1
      <4> QED
        BY <3>1, <4>1
    <3>2. CASE d = 0
      BY <2>1, <3>2
    <3>3. CASE d \in 1..k
      <4>1. h[d] = g[d] /\ h[d - 1] = g[d - 1]
        BY <3>3
      <4>2. d \in 0..k /\ d # 0
        BY <3>3
      <4>3. g[d] = IF d = 0 THEN {root} ELSE Step(g[d - 1])
        BY <2>1, <4>2, Zenon
      <4> QED
        BY <4>1, <4>2, <4>3
    <3> QED
      BY <3>1, <3>2, <3>3
  <2>3. Ball(h, k + 1)
    BY <2>2
  <2> HIDE DEF Ball
  <2> QED
    BY <2>3
<1>3. M \in Known
  <2> HIDE DEF Known
  <2>1. 0..M \subseteq Known
    BY <1>1, <1>2, UpTo
  <2> QED
    BY <2>1
<1>4. Ball(Balls(lineage, root, M), M)
  BY <1>3 DEF Balls
<1>5. \A S : Step(S) = S \cup Around(lineage, S)
  BY DEF Around, At, Ends
<1> DEFINE ball == Balls(lineage, root, M)
<1>6. ball[0] = {root} /\ \A d \in 0..(M - 1) : ball[d + 1] = Step(ball[d])
  <2> HIDE DEF Step
  <2>1. ball = [d \in 0..M |-> IF d = 0 THEN {root} ELSE Step(ball[d - 1])]
    BY <1>4
  <2> HIDE DEF ball
  <2>2. ball[0] = {root}
    BY <2>1
  <2>3. ASSUME NEW d \in 0..(M - 1) PROVE ball[d + 1] = Step(ball[d])
    <3>1. d + 1 \in 0..M /\ d + 1 # 0 /\ (d + 1) - 1 = d
      OBVIOUS
    <3>2. ball[d + 1] = IF d + 1 = 0 THEN {root} ELSE Step(ball[(d + 1) - 1])
      BY <2>1, <3>1, Zenon
    <3> QED
      BY <3>1, <3>2
  <2> QED
    BY <2>2, <2>3
<1> QED
  <2> HIDE DEF Step
  <2> QED
    BY <1>5, <1>6

\* Including satisfies its equation too.
LEMMA IncludingIs ==
    ASSUME NEW lineage, lineage \in Seq(ToSet(lineage)), NEW places, NEW s
    PROVE  LET after == Including(lineage, places, s) IN
           /\ after[0] = s
           /\ \A n \in 0..(Len(lineage) - 1) : after[n + 1] = IF n + 1 \in places THEN IncludeEdge(after[n], lineage[n + 1]) ELSE after[n]
<1> DEFINE Step(n, x) == IF n \in places THEN IncludeEdge(x, lineage[n]) ELSE x
           Is(g, k) == g = [n \in 0..k |-> IF n = 0 THEN s ELSE Step(n, g[n - 1])]
           Known == {k \in Nat : \E g : Is(g, k)}
<1>1. 0 \in Known
  <2> DEFINE g == [n \in 0..0 |-> s]
  <2>1. Is(g, 0)
    OBVIOUS
  <2> QED
    BY <2>1
<1>2. ASSUME NEW k \in Nat, k \in Known PROVE k + 1 \in Known
  <2> HIDE DEF Step
  <2>1. PICK g : Is(g, k)
    BY <1>2
  <2> DEFINE h == [n \in 0..(k + 1) |-> IF n = k + 1 THEN Step(n, g[k]) ELSE g[n]]
  <2>2. ASSUME NEW n \in 0..(k + 1) PROVE h[n] = IF n = 0 THEN s ELSE Step(n, h[n - 1])
    <3>1. CASE n = k + 1
      <4>1. h[n] = Step(n, g[k]) /\ h[n - 1] = g[k]
        BY <3>1
      <4> QED
        BY <3>1, <4>1
    <3>2. CASE n = 0
      BY <2>1, <3>2
    <3>3. CASE n \in 1..k
      <4>1. h[n] = g[n] /\ h[n - 1] = g[n - 1]
        BY <3>3
      <4>2. n \in 0..k /\ n # 0
        BY <3>3
      <4>3. g[n] = IF n = 0 THEN s ELSE Step(n, g[n - 1])
        BY <2>1, <4>2, Zenon
      <4> QED
        BY <4>1, <4>2, <4>3
    <3> QED
      BY <3>1, <3>2, <3>3
  <2>3. Is(h, k + 1)
    BY <2>2
  <2> HIDE DEF Is
  <2> QED
    BY <2>3
<1>3. Len(lineage) \in Known
  <2>1. Len(lineage) \in Nat
    BY LenProperties
  <2> HIDE DEF Known
  <2>2. 0..Len(lineage) \subseteq Known
    BY <1>1, <1>2, <2>1, UpTo
  <2> QED
    BY <2>1, <2>2
<1>4. Is(Including(lineage, places, s), Len(lineage))
  BY <1>3 DEF Including
<1> DEFINE after == Including(lineage, places, s)
<1>5. after[0] = s /\ \A n \in 0..(Len(lineage) - 1) : after[n + 1] = Step(n + 1, after[n])
  <2> HIDE DEF Step
  <2>1. after = [n \in 0..Len(lineage) |-> IF n = 0 THEN s ELSE Step(n, after[n - 1])]
    BY <1>4
  <2>2. Len(lineage) \in Nat
    BY LenProperties
  <2> HIDE DEF after
  <2>3. after[0] = s
    BY <2>1, <2>2
  <2>4. ASSUME NEW n \in 0..(Len(lineage) - 1) PROVE after[n + 1] = Step(n + 1, after[n])
    <3>1. n + 1 \in 0..Len(lineage) /\ n + 1 # 0 /\ (n + 1) - 1 = n
      BY <2>2
    <3>2. after[n + 1] = IF n + 1 = 0 THEN s ELSE Step(n + 1, after[(n + 1) - 1])
      BY <2>1, <3>1, Zenon
    <3> QED
      BY <3>1, <3>2
  <2> QED
    BY <2>3, <2>4
<1>6. \A n \in Nat : \A x : Step(n + 1, x) = IF n + 1 \in places THEN IncludeEdge(x, lineage[n + 1]) ELSE x
  OBVIOUS
<1> QED
  <2>1. Len(lineage) \in Nat
    BY LenProperties
  <2> HIDE DEF Step
  <2> QED
    BY <1>5, <1>6, <2>1

\* So does Levels.
LEMMA LevelsAre ==
    ASSUME NEW records, NEW lineage, NEW root, NEW M \in Nat
    PROVE  LET level == Levels(records, lineage, root, M) IN
           /\ level[0] = Search(root, root)
           /\ \A n \in 0..((M + 1) - 1) : level[n + 1] = Level(records, lineage, M, level[n], n)
<1> DEFINE Step(n, x) == Level(records, lineage, M, x, n - 1)
           Is(g, k) == g = [n \in 0..k |-> IF n = 0 THEN Search(root, root) ELSE Step(n, g[n - 1])]
           Known == {k \in Nat : \E g : Is(g, k)}
<1>1. 0 \in Known
  <2> DEFINE g == [n \in 0..0 |-> Search(root, root)]
  <2>1. Is(g, 0)
    OBVIOUS
  <2> QED
    BY <2>1
<1>2. ASSUME NEW k \in Nat, k \in Known PROVE k + 1 \in Known
  <2> HIDE DEF Step
  <2>1. PICK g : Is(g, k)
    BY <1>2
  <2> DEFINE h == [n \in 0..(k + 1) |-> IF n = k + 1 THEN Step(n, g[k]) ELSE g[n]]
  <2>2. ASSUME NEW n \in 0..(k + 1) PROVE h[n] = IF n = 0 THEN Search(root, root) ELSE Step(n, h[n - 1])
    <3>1. CASE n = k + 1
      <4>1. h[n] = Step(n, g[k]) /\ h[n - 1] = g[k]
        BY <3>1
      <4> QED
        BY <3>1, <4>1
    <3>2. CASE n = 0
      BY <2>1, <3>2
    <3>3. CASE n \in 1..k
      <4>1. h[n] = g[n] /\ h[n - 1] = g[n - 1]
        BY <3>3
      <4>2. n \in 0..k /\ n # 0
        BY <3>3
      <4>3. g[n] = IF n = 0 THEN Search(root, root) ELSE Step(n, g[n - 1])
        BY <2>1, <4>2, Zenon
      <4> QED
        BY <4>1, <4>2, <4>3
    <3> QED
      BY <3>1, <3>2, <3>3
  <2>3. Is(h, k + 1)
    BY <2>2
  <2> HIDE DEF Is
  <2> QED
    BY <2>3
<1>3. (M + 1) \in Known
  <2>1. (M + 1) \in Nat
    OBVIOUS
  <2> HIDE DEF Known
  <2>2. 0..(M + 1) \subseteq Known
    BY <1>1, <1>2, <2>1, UpTo
  <2> QED
    BY <2>1, <2>2
<1>4. Is(Levels(records, lineage, root, M), (M + 1))
  BY <1>3 DEF Levels
<1> DEFINE level == Levels(records, lineage, root, M)
<1>5. level[0] = Search(root, root) /\ \A n \in 0..((M + 1) - 1) : level[n + 1] = Step(n + 1, level[n])
  <2> HIDE DEF Step
  <2>1. level = [n \in 0..(M + 1) |-> IF n = 0 THEN Search(root, root) ELSE Step(n, level[n - 1])]
    BY <1>4
  <2>2. (M + 1) \in Nat
    OBVIOUS
  <2> HIDE DEF level
  <2>3. level[0] = Search(root, root)
    BY <2>1, <2>2
  <2>4. ASSUME NEW n \in 0..((M + 1) - 1) PROVE level[n + 1] = Step(n + 1, level[n])
    <3>1. n + 1 \in 0..(M + 1) /\ n + 1 # 0 /\ (n + 1) - 1 = n
      BY <2>2
    <3>2. level[n + 1] = IF n + 1 = 0 THEN Search(root, root) ELSE Step(n + 1, level[(n + 1) - 1])
      BY <2>1, <3>1, Zenon
    <3> QED
      BY <3>1, <3>2
  <2> QED
    BY <2>3, <2>4
<1>6. \A n \in Nat : \A x : Step(n + 1, x) = Level(records, lineage, M, x, n)
  OBVIOUS
<1> QED
  <2>1. (M + 1) \in Nat
    OBVIOUS
  <2> HIDE DEF Step
  <2> QED
    BY <1>5, <1>6, <2>1

\* And Visits.
LEMMA VisitsAre ==
    ASSUME NEW records, NEW lineage, NEW root, NEW M \in Nat
    PROVE  LET visit == Visits(records, lineage, root, M) IN
           /\ visit[0] = Search(root, [ref |-> root, depth |-> 0])
           /\ \A n \in 0..(MaxNodes - 1) : visit[n + 1] = Visit(records, lineage, M, visit[n])
<1> DEFINE Step(n, x) == Visit(records, lineage, M, x)
           Is(g, k) == g = [n \in 0..k |-> IF n = 0 THEN Search(root, [ref |-> root, depth |-> 0]) ELSE Step(n, g[n - 1])]
           Known == {k \in Nat : \E g : Is(g, k)}
<1>1. 0 \in Known
  <2> DEFINE g == [n \in 0..0 |-> Search(root, [ref |-> root, depth |-> 0])]
  <2>1. Is(g, 0)
    OBVIOUS
  <2> QED
    BY <2>1
<1>2. ASSUME NEW k \in Nat, k \in Known PROVE k + 1 \in Known
  <2> HIDE DEF Step
  <2>1. PICK g : Is(g, k)
    BY <1>2
  <2> DEFINE h == [n \in 0..(k + 1) |-> IF n = k + 1 THEN Step(n, g[k]) ELSE g[n]]
  <2>2. ASSUME NEW n \in 0..(k + 1) PROVE h[n] = IF n = 0 THEN Search(root, [ref |-> root, depth |-> 0]) ELSE Step(n, h[n - 1])
    <3>1. CASE n = k + 1
      <4>1. h[n] = Step(n, g[k]) /\ h[n - 1] = g[k]
        BY <3>1
      <4> QED
        BY <3>1, <4>1
    <3>2. CASE n = 0
      BY <2>1, <3>2
    <3>3. CASE n \in 1..k
      <4>1. h[n] = g[n] /\ h[n - 1] = g[n - 1]
        BY <3>3
      <4>2. n \in 0..k /\ n # 0
        BY <3>3
      <4>3. g[n] = IF n = 0 THEN Search(root, [ref |-> root, depth |-> 0]) ELSE Step(n, g[n - 1])
        BY <2>1, <4>2, Zenon
      <4> QED
        BY <4>1, <4>2, <4>3
    <3> QED
      BY <3>1, <3>2, <3>3
  <2>3. Is(h, k + 1)
    BY <2>2
  <2> HIDE DEF Is
  <2> QED
    BY <2>3
<1>3. MaxNodes \in Known
  <2>1. MaxNodes \in Nat
    BY ExplainAssumption
  <2> HIDE DEF Known
  <2>2. 0..MaxNodes \subseteq Known
    BY <1>1, <1>2, <2>1, UpTo
  <2> QED
    BY <2>1, <2>2
<1>4. Is(Visits(records, lineage, root, M), MaxNodes)
  BY <1>3 DEF Visits
<1> DEFINE visit == Visits(records, lineage, root, M)
<1>5. visit[0] = Search(root, [ref |-> root, depth |-> 0]) /\ \A n \in 0..(MaxNodes - 1) : visit[n + 1] = Step(n + 1, visit[n])
  <2> HIDE DEF Step
  <2>1. visit = [n \in 0..MaxNodes |-> IF n = 0 THEN Search(root, [ref |-> root, depth |-> 0]) ELSE Step(n, visit[n - 1])]
    BY <1>4
  <2>2. MaxNodes \in Nat
    BY ExplainAssumption
  <2> HIDE DEF visit
  <2>3. visit[0] = Search(root, [ref |-> root, depth |-> 0])
    BY <2>1, <2>2
  <2>4. ASSUME NEW n \in 0..(MaxNodes - 1) PROVE visit[n + 1] = Step(n + 1, visit[n])
    <3>1. n + 1 \in 0..MaxNodes /\ n + 1 # 0 /\ (n + 1) - 1 = n
      BY <2>2
    <3>2. visit[n + 1] = IF n + 1 = 0 THEN Search(root, [ref |-> root, depth |-> 0]) ELSE Step(n + 1, visit[(n + 1) - 1])
      BY <2>1, <3>1, Zenon
    <3> QED
      BY <3>1, <3>2
  <2> QED
    BY <2>3, <2>4
<1>6. \A n \in Nat : \A x : Step(n + 1, x) = Visit(records, lineage, M, x)
  OBVIOUS
<1> QED
  <2>1. MaxNodes \in Nat
    BY ExplainAssumption
  <2> HIDE DEF Step
  <2> QED
    BY <1>5, <1>6, <2>1

-----------------------------------------------------------------------------
(* Including edges *)

\* What an operation of a sequence does to its elements.
LEMMA Elements ==
    ASSUME NEW S
    PROVE  /\ ToSet(<<>>) = {}
           /\ \A x : ToSet(<<x>>) = {x}
           /\ \A p, q \in Seq(S) : ToSet(p \o q) = ToSet(p) \cup ToSet(q)
           /\ \A p \in Seq(S) : ToSet(p) \subseteq S
           /\ \A p \in Seq(S) : p # <<>> => ToSet(p) = {Head(p)} \cup ToSet(Tail(p))
<1>1. ToSet(<<>>) = {}
  BY DEF ToSet
<1>2. ASSUME NEW x PROVE ToSet(<<x>>) = {x}
  BY DEF ToSet
<1>3. ASSUME NEW p \in Seq(S), NEW q \in Seq(S) PROVE ToSet(p \o q) = ToSet(p) \cup ToSet(q)
  <2>1. /\ DOMAIN (p \o q) = 1..(Len(p) + Len(q)) /\ DOMAIN p = 1..Len(p) /\ DOMAIN q = 1..Len(q)
        /\ \A i \in 1..Len(p) : (p \o q)[i] = p[i]
        /\ \A i \in 1..Len(q) : (p \o q)[Len(p) + i] = q[i]
    OBVIOUS
  <2>2. ASSUME NEW i \in DOMAIN (p \o q) PROVE (p \o q)[i] \in ToSet(p) \cup ToSet(q)
    <3>1. CASE i \in 1..Len(p)
      BY <2>1, <3>1 DEF ToSet
    <3>2. CASE i - Len(p) \in 1..Len(q)
      <4>1. (p \o q)[i] = q[i - Len(p)]
        BY <2>1, <3>2
      <4> QED
        BY <2>1, <3>2, <4>1 DEF ToSet
    <3> QED
      BY <2>1, <3>1, <3>2
  <2>3. ASSUME NEW i \in DOMAIN p PROVE p[i] \in ToSet(p \o q)
    BY <2>1 DEF ToSet
  <2>4. ASSUME NEW i \in DOMAIN q PROVE q[i] \in ToSet(p \o q)
    <3>1. Len(p) + i \in DOMAIN (p \o q) /\ (p \o q)[Len(p) + i] = q[i]
      BY <2>1
    <3> QED
      BY <3>1 DEF ToSet
  <2> QED
    BY <2>2, <2>3, <2>4 DEF ToSet
<1>4. ASSUME NEW p \in Seq(S) PROVE ToSet(p) \subseteq S
  BY DEF ToSet
<1>5. ASSUME NEW p \in Seq(S), p # <<>> PROVE ToSet(p) = {Head(p)} \cup ToSet(Tail(p))
  <2>1. <<Head(p)>> \in Seq(S) /\ Tail(p) \in Seq(S) /\ p = <<Head(p)>> \o Tail(p)
    BY <1>5
  <2> QED
    BY <1>2, <1>3, <2>1
<1> QED
  BY <1>1, <1>2, <1>3, <1>4, <1>5

\* Searches of the edges of a lineage, between nodes of R, with a frontier of F.
Answers(R, lineage, F) ==
    [nodes : SUBSET [ref : R, depth : Nat], edges : SUBSET ToSet(lineage), queued : SUBSET R,
     truncated : BOOLEAN, missing : BOOLEAN, frontier : Seq(F), next : Seq(R)]

\* What holds of a search at any time: it keeps to the limits, and has queued what it
\* returns and what its edges lead to.
Sound(R, lineage, F, s) ==
    /\ s \in Answers(R, lineage, F)
    /\ IsFiniteSet(s.queued) /\ Cardinality(s.queued) <= MaxNodes
    /\ IsFiniteSet(s.edges) /\ Cardinality(s.edges) <= MaxEdges
    /\ \A e \in s.edges : Ends(e) \subseteq s.queued
    /\ \A p \in s.nodes : p.ref \in s.queued

\* What including edges does to a search: what is queued is what comes next.
Grown(s, r) ==
    /\ r.nodes = s.nodes /\ r.missing = s.missing /\ r.frontier = s.frontier
    /\ s.edges \subseteq r.edges /\ s.queued \subseteq r.queued
    /\ s.truncated => r.truncated
    /\ ToSet(r.next) = ToSet(s.next) \cup (r.queued \ s.queued)
    /\ Len(r.next) + Cardinality(s.queued) = Len(s.next) + Cardinality(r.queued)

\* r is s after edges E were included.
Includes(R, lineage, F, s, r, E) ==
    /\ Sound(R, lineage, F, r)
    /\ Grown(s, r)
    /\ r.edges \subseteq s.edges \cup E
    /\ r.queued \subseteq s.queued \cup (UNION {Ends(e) : e \in E})
    /\ ~r.truncated => E \subseteq r.edges

\* An edge with one end queued: it is included with the other, or the answer says
\* that it is truncated.
LEMMA OneEdge ==
    ASSUME NEW R, NEW lineage, NEW F, NEW s, Sound(R, lineage, F, s),
           NEW e \in ToSet(lineage), Ends(e) \subseteq R, Touching(s.queued, e)
    PROVE  Includes(R, lineage, F, s, IncludeEdge(s, e), {e})
<1> DEFINE new == NewNeighbors(s, e)
           r == IncludeEdge(s, e)
           others == Ends(e) \ s.queued
           grown == [s EXCEPT !.edges = @ \cup {e}, !.queued = @ \cup ToSet(new),
                              !.next = @ \o new]
<1> SUFFICES Includes(R, lineage, F, s, r, {e})
  OBVIOUS
<1>1. /\ s \in Answers(R, lineage, F) /\ e.from \in R /\ e.to \in R
      /\ IsFiniteSet(s.queued) /\ Cardinality(s.queued) <= MaxNodes
      /\ IsFiniteSet(s.edges) /\ Cardinality(s.edges) <= MaxEdges
      /\ \A f \in s.edges : Ends(f) \subseteq s.queued
      /\ \A p \in s.nodes : p.ref \in s.queued
  BY DEF Sound, Ends
<1>2. Cardinality(s.queued) \in Nat /\ Cardinality(s.edges) \in Nat /\ MaxEdges \in Nat /\ MaxNodes \in Nat
  BY <1>1, FS_CardinalityType, ExplainAssumption
<1>3. /\ new \in Seq(R) /\ ToSet(new) = others
      /\ IsFiniteSet(s.queued \cup others)
      /\ Cardinality(s.queued \cup others) = Cardinality(s.queued) + Len(new)
  <2>1. CASE e.from \in s.queued /\ e.to \in s.queued
    <3>1. new = <<>> /\ others = {}
      BY <2>1 DEF NewNeighbors, Ends
    <3>2. ToSet(new) = {} /\ new \in Seq(R) /\ Len(new) = 0 /\ s.queued \cup others = s.queued
      BY <3>1, Elements
    <3> HIDE DEF new, others
    <3> QED
      BY <1>1, <1>2, <3>1, <3>2
  <2>2. ASSUME NEW x \in Ends(e), x \notin s.queued, new = <<x>>, others = {x}
        PROVE  /\ new \in Seq(R) /\ ToSet(new) = others
               /\ IsFiniteSet(s.queued \cup others)
               /\ Cardinality(s.queued \cup others) = Cardinality(s.queued) + Len(new)
    <3>1. ToSet(new) = {x} /\ new \in Seq(R) /\ Len(new) = 1
      BY <1>1, <2>2, Elements DEF Ends
    <3>2. IsFiniteSet(s.queued \cup {x}) /\ Cardinality(s.queued \cup {x}) = Cardinality(s.queued) + 1
      BY <1>1, <2>2, FS_AddElement
    <3> QED
      BY <2>2, <3>1, <3>2
  <2>3. CASE e.from \in s.queued /\ e.to \notin s.queued
    <3>1. new = <<e.to>> /\ others = {e.to} /\ e.to \in Ends(e)
      BY <2>3 DEF NewNeighbors, Ends
    <3> QED
      BY <2>2, <2>3, <3>1
  <2>4. CASE e.from \notin s.queued /\ e.to \in s.queued
    <3>1. new = <<e.from>> /\ others = {e.from} /\ e.from \in Ends(e)
      BY <2>4 DEF NewNeighbors, Ends
    <3> QED
      BY <2>2, <2>4, <3>1
  <2> QED
    BY <2>1, <2>3, <2>4 DEF Touching
<1>4. CASE r = s /\ e \in s.edges
  <2>1. Grown(s, s)
    BY <1>1, <1>2 DEF Grown, Answers
  <2> HIDE DEF r
  <2> QED
    BY <1>4, <2>1 DEF Includes
<1>5. CASE r = [s EXCEPT !.truncated = TRUE]
  <2> HIDE DEF r
  <2>1. /\ r \in Answers(R, lineage, F) /\ r.truncated
        /\ r.nodes = s.nodes /\ r.missing = s.missing /\ r.frontier = s.frontier
        /\ r.edges = s.edges /\ r.queued = s.queued /\ r.next = s.next /\ s.next \in Seq(R)
    BY <1>1, <1>5 DEF Answers
  <2>2. Sound(R, lineage, F, r)
    BY <1>1, <2>1 DEF Sound
  <2>3. Grown(s, r)
    BY <1>2, <2>1 DEF Grown
  <2> QED
    BY <2>1, <2>2, <2>3 DEF Includes
<1>6. CASE /\ r = grown /\ Cardinality(s.edges) < MaxEdges
           /\ Cardinality(s.queued) + Len(new) <= MaxNodes
  <2> HIDE DEF r, new
  <2>1. s.next \in Seq(R) /\ s.next \o new \in Seq(R) /\ Len(s.next \o new) = Len(s.next) + Len(new)
    BY <1>1, <1>3 DEF Answers
  <2>2. /\ r.nodes = s.nodes /\ r.missing = s.missing /\ r.frontier = s.frontier
        /\ r.edges = s.edges \cup {e} /\ r.queued = s.queued \cup others /\ r.next = s.next \o new
        /\ r.truncated = s.truncated
    <3> HIDE DEF others
    <3> QED
      BY <1>1, <1>3, <1>6 DEF Answers
  <2>3. r \in Answers(R, lineage, F)
    <3>1. s.queued \cup others \subseteq R /\ s.edges \cup {e} \subseteq ToSet(lineage)
      BY <1>1 DEF Answers, Ends
    <3> HIDE DEF others
    <3> QED
      BY <1>1, <1>3, <1>6, <2>1, <3>1 DEF Answers
  <2>4. ToSet(r.next) = ToSet(s.next) \cup (r.queued \ s.queued)
    <3>1. ToSet(r.next) = ToSet(s.next) \cup ToSet(new)
      BY <1>3, <2>1, <2>2, Elements
    <3>2. r.queued \ s.queued = others
      BY <2>2
    <3> QED
      BY <1>3, <3>1, <3>2
  <2>5. Len(r.next) + Cardinality(s.queued) = Len(s.next) + Cardinality(r.queued)
    <3>1. Len(s.next) \in Nat /\ Len(new) \in Nat
      BY <1>3, <2>1
    <3> HIDE DEF others
    <3> QED
      BY <1>2, <1>3, <2>1, <2>2, <3>1
  <2>6. IsFiniteSet(r.edges) /\ Cardinality(r.edges) <= MaxEdges
    <3>1. IsFiniteSet(s.edges \cup {e}) /\ Cardinality(s.edges \cup {e}) =
              IF e \in s.edges THEN Cardinality(s.edges) ELSE Cardinality(s.edges) + 1
      BY <1>1, FS_AddElement
    <3> QED
      BY <1>2, <1>6, <2>2, <3>1
  <2>7. \A f \in r.edges : Ends(f) \subseteq r.queued
    BY <1>1, <2>2, Zenon
  <2>8. IsFiniteSet(r.queued) /\ Cardinality(r.queued) <= MaxNodes
    <3> HIDE DEF others
    <3> QED
      BY <1>3, <1>6, <2>2
  <2>9. Sound(R, lineage, F, r)
    <3>1. \A p \in r.nodes : p.ref \in r.queued
      BY <1>1, <2>2
    <3> QED
      BY <2>3, <2>6, <2>7, <2>8, <3>1 DEF Sound
  <2>10. Grown(s, r)
    BY <2>2, <2>4, <2>5 DEF Grown
  <2>11. r.edges \subseteq s.edges \cup {e} /\ e \in r.edges
    BY <2>2
  <2>12. r.queued \subseteq s.queued \cup (UNION {Ends(f) : f \in {e}})
    BY <2>2
  <2> HIDE DEF others, grown
  <2> QED
    BY <2>9, <2>10, <2>11, <2>12 DEF Includes
<1>7. \/ r = s /\ e \in s.edges
      \/ r = [s EXCEPT !.truncated = TRUE]
      \/ r = grown /\ Cardinality(s.edges) < MaxEdges /\ Cardinality(s.queued) + Len(new) <= MaxNodes
  <2>1. Len(new) \in Nat
    BY <1>3
  <2>2. CASE e \in s.edges
    BY <2>2 DEF IncludeEdge
  <2>3. CASE e \notin s.edges /\ Cardinality(s.edges) >= MaxEdges
    BY <1>2, <2>1, <2>3 DEF IncludeEdge
  <2>4. CASE e \notin s.edges /\ Cardinality(s.edges) < MaxEdges /\ Cardinality(s.queued) + Len(new) > MaxNodes
    BY <1>2, <2>1, <2>4 DEF IncludeEdge
  <2>5. CASE e \notin s.edges /\ Cardinality(s.edges) < MaxEdges /\ Cardinality(s.queued) + Len(new) <= MaxNodes
    BY <1>2, <2>1, <2>5 DEF IncludeEdge
  <2> QED
    BY <1>2, <2>1, <2>2, <2>3, <2>4, <2>5
<1> QED
  BY <1>4, <1>5, <1>6, <1>7

\* Including no edges changes nothing.
LEMMA IncludesNone ==
    ASSUME NEW R, NEW lineage, NEW F, NEW s, Sound(R, lineage, F, s)
    PROVE  Includes(R, lineage, F, s, s, {})
<1>1. s.next \in Seq(R) /\ Len(s.next) \in Nat /\ Cardinality(s.queued) \in Nat
  BY FS_CardinalityType DEF Sound, Answers
<1> QED
  BY <1>1 DEF Includes, Grown

\* Including some edges, then others, includes both.
LEMMA IncludesMore ==
    ASSUME NEW R, NEW lineage, NEW F, NEW s, NEW r, NEW q, NEW D, NEW E,
           Sound(R, lineage, F, s),
           Includes(R, lineage, F, s, r, D), Includes(R, lineage, F, r, q, E)
    PROVE  Includes(R, lineage, F, s, q, D \cup E)
<1>1. /\ Grown(s, r) /\ Grown(r, q) /\ Sound(R, lineage, F, r) /\ Sound(R, lineage, F, q)
      /\ r.edges \subseteq s.edges \cup D /\ q.edges \subseteq r.edges \cup E
      /\ r.queued \subseteq s.queued \cup (UNION {Ends(e) : e \in D})
      /\ q.queued \subseteq r.queued \cup (UNION {Ends(e) : e \in E})
      /\ ~r.truncated => D \subseteq r.edges
      /\ ~q.truncated => E \subseteq q.edges
  BY Zenon DEF Includes
<1>2. /\ s.next \in Seq(R) /\ r.next \in Seq(R) /\ q.next \in Seq(R)
      /\ Cardinality(s.queued) \in Nat /\ Cardinality(r.queued) \in Nat /\ Cardinality(q.queued) \in Nat
  BY <1>1, FS_CardinalityType DEF Sound, Answers
<1>3. Len(s.next) \in Nat /\ Len(r.next) \in Nat /\ Len(q.next) \in Nat
  BY <1>2
<1>4. Len(q.next) + Cardinality(s.queued) = Len(s.next) + Cardinality(q.queued)
  <2>1. /\ Len(r.next) + Cardinality(s.queued) = Len(s.next) + Cardinality(r.queued)
        /\ Len(q.next) + Cardinality(r.queued) = Len(r.next) + Cardinality(q.queued)
    BY <1>1, Zenon DEF Grown
  <2> DEFINE a == Len(s.next)
             b == Len(r.next)
             c == Len(q.next)
             d == Cardinality(s.queued)
             e == Cardinality(r.queued)
             f == Cardinality(q.queued)
  <2>2. b + d = a + e /\ c + e = b + f
    BY <2>1
  <2>3. a \in Nat /\ b \in Nat /\ c \in Nat /\ d \in Nat /\ e \in Nat /\ f \in Nat
    BY <1>2, <1>3
  <2>4. c + d = a + f
    <3> HIDE DEF a, b, c, d, e, f
    <3> QED
      BY <2>2, <2>3
  <2> QED
    BY <2>4
<1>5. /\ q.nodes = s.nodes /\ q.missing = s.missing /\ q.frontier = s.frontier
      /\ s.edges \subseteq q.edges /\ s.queued \subseteq q.queued
      /\ s.truncated => q.truncated
      /\ r.edges \subseteq q.edges /\ (r.truncated => q.truncated)
  BY <1>1 DEF Grown
<1>6. ToSet(q.next) = ToSet(s.next) \cup (q.queued \ s.queued)
  BY <1>1 DEF Grown
<1>7. q.edges \subseteq s.edges \cup (D \cup E)
  BY <1>1
<1>8. q.queued \subseteq s.queued \cup (UNION {Ends(e) : e \in D \cup E})
  BY <1>1, Zenon
<1>9. ~q.truncated => (D \cup E) \subseteq q.edges
  BY <1>1, <1>5
<1> QED
  BY <1>1, <1>4, <1>5, <1>6, <1>7, <1>8, <1>9, Zenon DEF Includes, Grown

\* The edges at the places of a result.
Placed(lineage, places) == {lineage[i] : i \in places}

\* The edges of a result, each with an end that was queued before: all of them are
\* included with their ends, or the answer says that it is truncated.
LEMMA AllEdges ==
    ASSUME NEW R, NEW lineage, lineage \in Seq(ToSet(lineage)), Between(lineage, R), NEW F,
           NEW s, Sound(R, lineage, F, s), NEW places \in SUBSET (DOMAIN lineage),
           \A i \in places : Touching(s.queued, lineage[i])
    PROVE  Includes(R, lineage, F, [s EXCEPT !.next = <<>>], IncludeEdges(lineage, places, s),
                    Placed(lineage, places))
<1> DEFINE start == [s EXCEPT !.next = <<>>]
           after == Including(lineage, places, start)
           upto(n) == places \cap (1..n)
           Holds(n) == Includes(R, lineage, F, start, after[n], Placed(lineage, upto(n)))
           Good == {n \in Nat : n <= Len(lineage) => Holds(n)}
<1>1. Len(lineage) \in Nat /\ DOMAIN lineage = 1..Len(lineage)
  BY LenProperties
<1>2. Sound(R, lineage, F, start) /\ start.queued = s.queued
  <2>1. /\ start \in Answers(R, lineage, F) /\ start.queued = s.queued /\ start.edges = s.edges
        /\ start.nodes = s.nodes
    <3>1. s \in Answers(R, lineage, F) /\ <<>> \in Seq(R)
      BY DEF Sound
    <3>2. \A empty \in Seq(R) : LET t == [s EXCEPT !.next = empty] IN
             t \in Answers(R, lineage, F) /\ t.queued = s.queued /\ t.edges = s.edges /\ t.nodes = s.nodes
      BY <3>1 DEF Answers
    <3> QED
      BY <3>1, <3>2
  <2> HIDE DEF start
  <2> QED
    BY <2>1 DEF Sound
<1>3. /\ after[0] = start
      /\ \A n \in 0..(Len(lineage) - 1) :
            after[n + 1] = IF n + 1 \in places THEN IncludeEdge(after[n], lineage[n + 1]) ELSE after[n]
  BY IncludingIs
<1> HIDE DEF start, after
<1>4. 0 \in Good
  <2>1. Placed(lineage, upto(0)) = {}
    BY DEF Placed
  <2> QED
    BY <1>2, <1>3, <2>1, IncludesNone
<1>5. ASSUME NEW n \in 0..(Len(lineage) - 1), n \in Good PROVE n + 1 \in Good
  <2>1. Holds(n) /\ n + 1 \in DOMAIN lineage /\ n \in Nat
    BY <1>1, <1>5
  <2>2. CASE n + 1 \in places
    <3>1. after[n + 1] = IncludeEdge(after[n], lineage[n + 1])
      BY <1>3, <2>2
    <3>2. Sound(R, lineage, F, after[n]) /\ start.queued \subseteq after[n].queued
      BY <2>1 DEF Includes, Grown
    <3>3. lineage[n + 1] \in ToSet(lineage) /\ Ends(lineage[n + 1]) \subseteq R
      BY <2>1 DEF ToSet, Between
    <3>4. Touching(after[n].queued, lineage[n + 1])
      BY <1>2, <2>2, <3>2 DEF Touching
    <3>5. Includes(R, lineage, F, after[n], after[n + 1], {lineage[n + 1]})
      BY <3>1, <3>2, <3>3, <3>4, OneEdge
    <3>6. Placed(lineage, upto(n + 1)) = Placed(lineage, upto(n)) \cup {lineage[n + 1]}
      <4>1. upto(n + 1) = upto(n) \cup {n + 1}
        BY <2>1, <2>2
      <4> HIDE DEF upto
      <4> QED
        BY <4>1 DEF Placed
    <3>7. Holds(n + 1)
      <4>1. Includes(R, lineage, F, start, after[n], Placed(lineage, upto(n)))
        BY <2>1
      <4> HIDE DEF upto
      <4>2. Includes(R, lineage, F, start, after[n + 1], Placed(lineage, upto(n)) \cup {lineage[n + 1]})
        BY <1>2, <3>5, <4>1, IncludesMore
      <4> QED
        BY <3>6, <4>2
    <3> HIDE DEF Holds
    <3> QED
      BY <3>7
  <2>3. CASE n + 1 \notin places
    <3>1. after[n + 1] = after[n] /\ upto(n + 1) = upto(n)
      <4>1. after[n + 1] = after[n]
        BY <1>3, <2>3
      <4>2. upto(n + 1) = upto(n)
        BY <2>1, <2>3
      <4> QED
        BY <4>1, <4>2
    <3>2. Holds(n + 1)
      <4> HIDE DEF upto
      <4> QED
        BY <2>1, <3>1
    <3> HIDE DEF Holds
    <3> QED
      BY <3>2
  <2> QED
    BY <2>2, <2>3
<1>6. Holds(Len(lineage))
  <2>1. \A n \in 0..(Len(lineage) - 1) : n \in Good => n + 1 \in Good
    <3> HIDE DEF Good
    <3> QED
      BY <1>5
  <2>2. 0..Len(lineage) \subseteq Good
    <3> HIDE DEF Good
    <3> QED
      BY <1>1, <1>4, <2>1, UpTo
  <2>3. Len(lineage) \in Good
    <3> HIDE DEF Good
    <3> QED
      BY <1>1, <2>2
  <2> QED
    BY <1>1, <2>3
<1>7. upto(Len(lineage)) = places
  BY <1>1
<1>8. IncludeEdges(lineage, places, s) = after[Len(lineage)]
  BY DEF IncludeEdges, after, start
<1> QED
  <2> HIDE DEF upto
  <2>1. Includes(R, lineage, F, start, after[Len(lineage)], Placed(lineage, upto(Len(lineage))))
    BY <1>6
  <2> QED
    BY <1>7, <1>8, <2>1 DEF start

\* What the query for the edges at a set of nodes returns.
LEMMA EdgesAtAre ==
    ASSUME NEW lineage, lineage \in Seq(ToSet(lineage)), NEW S
    PROVE  LET found == EdgesAt(lineage, S) IN
           /\ found.places \subseteq DOMAIN lineage
           /\ \A i \in found.places : Touching(S, lineage[i])
           /\ Placed(lineage, found.places) \subseteq At(lineage, S)
           /\ found.truncated \in BOOLEAN
           /\ ~found.truncated => Placed(lineage, found.places) = At(lineage, S)
<1> DEFINE all == {i \in DOMAIN lineage : Touching(S, lineage[i])}
           found == EdgesAt(lineage, S)
<1>1. /\ found.places = {i \in all : Cardinality(all \cap (1..i)) <= MaxEdges}
      /\ found.truncated = (Cardinality(all) > MaxEdges)
  BY DEF EdgesAt
<1>2. found.places \subseteq all
  BY <1>1
<1>3. ~found.truncated => found.places = all
  <2> SUFFICES ASSUME ~found.truncated, NEW i \in all PROVE Cardinality(all \cap (1..i)) <= MaxEdges
    BY <1>1
  <2>1. IsFiniteSet(DOMAIN lineage)
    BY LenProperties, FS_Interval
  <2>2. IsFiniteSet(all) /\ IsFiniteSet(all \cap (1..i)) /\ Cardinality(all \cap (1..i)) <= Cardinality(all)
    BY <2>1, FS_Subset
  <2>3. Cardinality(all) \in Nat /\ Cardinality(all \cap (1..i)) \in Nat
    BY <2>2, FS_CardinalityType
  <2>4. ~(Cardinality(all) > MaxEdges)
    BY <1>1
  <2> HIDE DEF all
  <2> QED
    BY <2>2, <2>3, <2>4, ExplainAssumption
<1>4. Placed(lineage, all) = At(lineage, S)
  BY DEF Placed, At, ToSet
<1>5. Placed(lineage, found.places) \subseteq Placed(lineage, all)
  BY <1>2 DEF Placed
<1>6. found.truncated \in BOOLEAN
  BY <1>1
<1>7. /\ found.places \subseteq DOMAIN lineage
      /\ \A i \in found.places : Touching(S, lineage[i])
  BY <1>2
<1> HIDE DEF all, found
<1>8. ~found.truncated => Placed(lineage, found.places) = At(lineage, S)
  BY <1>3, <1>4
<1> QED
  BY <1>4, <1>5, <1>6, <1>7, <1>8 DEF found

\* One round of either search: what it finds at nodes that are queued is included, or
\* the answer will say that it is truncated.
LEMMA Round ==
    ASSUME NEW R, NEW lineage, lineage \in Seq(ToSet(lineage)), Between(lineage, R), NEW F,
           NEW s, Sound(R, lineage, F, s), NEW S \in SUBSET s.queued
    PROVE  LET found == EdgesAt(lineage, S)
               after == IncludeEdges(lineage, found.places, s)
           IN
           /\ Sound(R, lineage, F, after)
           /\ after.nodes = s.nodes /\ after.missing = s.missing /\ after.frontier = s.frontier
           /\ after.edges \subseteq s.edges \cup At(lineage, S)
           /\ s.edges \subseteq after.edges /\ s.queued \subseteq after.queued
           /\ after.queued \subseteq s.queued \cup Around(lineage, S)
           /\ ToSet(after.next) = after.queued \ s.queued
           /\ Len(after.next) + Cardinality(s.queued) = Cardinality(after.queued)
           /\ found.truncated \in BOOLEAN
           /\ s.truncated => after.truncated
           /\ ~after.truncated /\ ~found.truncated =>
                  /\ At(lineage, S) \subseteq after.edges
                  /\ after.queued = s.queued \cup Around(lineage, S)
<1> DEFINE found == EdgesAt(lineage, S)
           after == IncludeEdges(lineage, found.places, s)
           start == [s EXCEPT !.next = <<>>]
           E == Placed(lineage, found.places)
<1>1. /\ found.places \in SUBSET (DOMAIN lineage)
      /\ \A i \in found.places : Touching(s.queued, lineage[i])
      /\ E \subseteq At(lineage, S)
      /\ found.truncated \in BOOLEAN
      /\ ~found.truncated => E = At(lineage, S)
  <2>1. /\ found.places \subseteq DOMAIN lineage
        /\ \A i \in found.places : Touching(S, lineage[i])
        /\ E \subseteq At(lineage, S)
        /\ found.truncated \in BOOLEAN
        /\ ~found.truncated => E = At(lineage, S)
    BY EdgesAtAre
  <2> HIDE DEF found, E
  <2> QED
    BY <2>1 DEF Touching
<1>2. Includes(R, lineage, F, start, after, E)
  <2> HIDE DEF found
  <2> QED
    BY <1>1, AllEdges
<1>3. /\ start.nodes = s.nodes /\ start.missing = s.missing /\ start.frontier = s.frontier
      /\ start.edges = s.edges /\ start.queued = s.queued /\ start.truncated = s.truncated
      /\ start.next = <<>>
  BY DEF Sound, Answers
<1> HIDE DEF start, after, E, found
<1>4. /\ Sound(R, lineage, F, after) /\ Grown(start, after)
      /\ after.edges \subseteq s.edges \cup E
      /\ after.queued \subseteq s.queued \cup (UNION {Ends(e) : e \in E})
      /\ ~after.truncated => E \subseteq after.edges
  BY <1>2, <1>3 DEF Includes
<1>5. ToSet(start.next) = {} /\ Len(start.next) = 0
  BY <1>3, Elements
<1>6. Len(after.next) + Cardinality(s.queued) = Cardinality(after.queued)
  <2>1. Len(after.next) + Cardinality(s.queued) = 0 + Cardinality(after.queued)
    BY <1>3, <1>4, <1>5 DEF Grown
  <2>2. Cardinality(after.queued) \in Nat
    BY <1>4, FS_CardinalityType DEF Sound
  <2> QED
    BY <2>1, <2>2
<1>7. ToSet(after.next) = after.queued \ s.queued
  BY <1>3, <1>4, <1>5 DEF Grown
<1>8. ASSUME ~after.truncated, ~found.truncated
      PROVE  At(lineage, S) \subseteq after.edges /\ after.queued = s.queued \cup Around(lineage, S)
  <2>1. At(lineage, S) \subseteq after.edges
    BY <1>1, <1>4, <1>8
  <2>2. UNION {Ends(e) : e \in E} = Around(lineage, S)
    BY <1>1, <1>8 DEF Around
  <2>3. \A e \in after.edges : Ends(e) \subseteq after.queued
    BY <1>4 DEF Sound
  <2>4. Around(lineage, S) \subseteq after.queued
    BY <2>1, <2>3, Zenon DEF Around
  <2>5. s.queued \subseteq after.queued
    BY <1>3, <1>4 DEF Grown
  <2> QED
    BY <1>4, <2>1, <2>2, <2>4, <2>5
<1>9. /\ after.nodes = s.nodes /\ after.missing = s.missing /\ after.frontier = s.frontier
      /\ s.edges \subseteq after.edges /\ s.queued \subseteq after.queued
      /\ s.truncated => after.truncated
  BY <1>3, <1>4 DEF Grown
<1>10. after.edges \subseteq s.edges \cup At(lineage, S)
  BY <1>1, <1>4
<1>11. after.queued \subseteq s.queued \cup Around(lineage, S)
  <2>1. UNION {Ends(e) : e \in E} \subseteq Around(lineage, S)
    BY <1>1 DEF Around
  <2> QED
    BY <1>4, <2>1
<1> QED
  BY <1>1, <1>4, <1>6, <1>7, <1>8, <1>9, <1>10, <1>11 DEF after, found

-----------------------------------------------------------------------------
(* Distances *)

\* The nodes at a distance.
Sphere(ball, d) == ball[d] \ (IF d = 0 THEN {} ELSE ball[d - 1])

\* Balls grow with the distance.
LEMMA BallsGrow ==
    ASSUME NEW lineage, NEW root, NEW M \in Nat, NEW d \in 0..M, NEW e \in d..M
    PROVE  Balls(lineage, root, M)[d] \subseteq Balls(lineage, root, M)[e]
<1> DEFINE ball == Balls(lineage, root, M)
           Good == {k \in Nat : d + k <= M => ball[d] \subseteq ball[d + k]}
<1>1. \A n \in 0..(M - 1) : ball[n + 1] = ball[n] \cup Around(lineage, ball[n])
  BY BallsAre
<1> HIDE DEF ball
<1>2. 0 \in Good
  OBVIOUS
<1>3. ASSUME NEW k \in 0..(M - 1), k \in Good PROVE k + 1 \in Good
  <2> SUFFICES ASSUME d + (k + 1) <= M PROVE ball[d] \subseteq ball[d + (k + 1)]
    OBVIOUS
  <2>1. d + k \in 0..(M - 1) /\ d + (k + 1) = (d + k) + 1
    OBVIOUS
  <2>2. ball[d] \subseteq ball[d + k]
    BY <1>3, <2>1
  <2>3. ball[d + k] \subseteq ball[(d + k) + 1]
    BY <1>1, <2>1
  <2> QED
    BY <2>1, <2>2, <2>3
<1>4. e - d \in 0..M
  OBVIOUS
<1>5. e - d \in Good
  <2> HIDE DEF Good
  <2>1. 0..M \subseteq Good
    BY <1>2, <1>3, UpTo
  <2> QED
    BY <1>4, <2>1
<1>6. d + (e - d) = e
  OBVIOUS
<1> QED
  BY <1>5, <1>6 DEF ball

\* Every node of a ball is at one distance, which is the least.
LEMMA Distances ==
    ASSUME NEW lineage, NEW root, NEW M \in Nat
    PROVE  LET ball == Balls(lineage, root, M) IN
           /\ \A d, e \in 0..M : \A x \in Sphere(ball, d) : x \in ball[e] => d <= e
           /\ \A d, e \in 0..M : \A x \in Sphere(ball, d) : x \in Sphere(ball, e) => d = e
           /\ \A d \in 0..M : root \in ball[d]
           /\ root \in Sphere(ball, 0)
<1> DEFINE ball == Balls(lineage, root, M)
<1>1. \A d \in 0..M : \A e \in d..M : ball[d] \subseteq ball[e]
  BY BallsGrow
<1>2. ball[0] = {root}
  BY BallsAre
<1> HIDE DEF ball
<1>3. ASSUME NEW d \in 0..M, NEW e \in 0..M, NEW x \in Sphere(ball, d), x \in ball[e] PROVE d <= e
  <2> SUFFICES ASSUME e < d PROVE FALSE
    OBVIOUS
  <2>1. e \in 0..M /\ d - 1 \in e..M
    OBVIOUS
  <2>2. x \in ball[d - 1]
    BY <1>1, <1>3, <2>1
  <2> QED
    BY <2>2 DEF Sphere
<1>4. ASSUME NEW d \in 0..M, NEW e \in 0..M, NEW x \in Sphere(ball, d), x \in Sphere(ball, e) PROVE d = e
  <2>1. x \in ball[d] /\ x \in ball[e]
    BY <1>4 DEF Sphere
  <2>2. d <= e /\ e <= d
    BY <1>3, <1>4, <2>1
  <2> QED
    BY <2>2
<1>5. ASSUME NEW d \in 0..M PROVE root \in ball[d]
  BY <1>1, <1>2
<1>6. root \in Sphere(ball, 0)
  BY <1>2 DEF Sphere
<1> QED
  BY <1>3, <1>4, <1>5, <1>6 DEF ball

-----------------------------------------------------------------------------
(* The production kernel's search *)

\* The nodes at the distances below n, as answers list them.
Listed(ball, n) == UNION {{[ref |-> x, depth |-> d] : x \in Sphere(ball, d)} : d \in 0..(n - 1)}

\* The edges that answers may hold.
Near(lineage, ball, M) == {e \in ToSet(lineage) : M > 0 /\ Touching(ball[M - 1], e)}

\* Before level n: the frontier is inside the ball of n, and as long as nothing was
\* left out it is the sphere of n, while the answer holds everything nearer.
AtLevel(R, lineage, ball, M, n, s) ==
    /\ Sound(R, lineage, R, s)
    /\ ~s.missing
    /\ ToSet(s.frontier) \subseteq s.queued
    /\ n <= M => ToSet(s.frontier) \subseteq ball[n]
    /\ s.edges \subseteq Near(lineage, ball, M)
    /\ ~s.truncated =>
          /\ n <= M => s.queued = ball[n] /\ ToSet(s.frontier) = Sphere(ball, n)
          /\ \A d \in 0..(M - 1) : d < n => At(lineage, ball[d]) \subseteq s.edges
          /\ s.nodes = Listed(ball, n)

\* What it is to be listed.
LEMMA ListedAre ==
    ASSUME NEW ball, NEW n, NEW p
    PROVE  p \in Listed(ball, n) <=>
               \E d \in 0..(n - 1) : \E x \in Sphere(ball, d) : p = [ref |-> x, depth |-> d]
BY DEF Listed

\* The list of nodes grows by a sphere at a time.
LEMMA ListedMore ==
    ASSUME NEW ball, NEW n \in Nat
    PROVE  Listed(ball, n + 1) = Listed(ball, n) \cup {[ref |-> x, depth |-> n] : x \in Sphere(ball, n)}
<1> DEFINE At1(d) == {[ref |-> x, depth |-> d] : x \in Sphere(ball, d)}
<1>1. 0..((n + 1) - 1) = 0..(n - 1) \cup {n}
  OBVIOUS
<1>2. Listed(ball, n + 1) = UNION {At1(d) : d \in 0..((n + 1) - 1)} /\ Listed(ball, n) = UNION {At1(d) : d \in 0..(n - 1)}
  BY DEF Listed
<1> HIDE DEF At1
<1>3. UNION {At1(d) : d \in 0..((n + 1) - 1)} = (UNION {At1(d) : d \in 0..(n - 1)}) \cup At1(n)
  <2>1. ASSUME NEW S PROVE UNION {At1(d) : d \in S \cup {n}} = (UNION {At1(d) : d \in S}) \cup At1(n)
    <3>1. {At1(d) : d \in S \cup {n}} = {At1(d) : d \in S} \cup {At1(n)}
      OBVIOUS
    <3> QED
      BY <3>1
  <2> QED
    BY <1>1, <2>1
<1>4. Listed(ball, n + 1) = Listed(ball, n) \cup At1(n)
  BY <1>2, <1>3
<1> QED
  BY <1>4 DEF At1

\* The edges at a ball are those at the ball before it and at its sphere.
LEMMA AtBall ==
    ASSUME NEW lineage, NEW root, NEW M \in Nat, NEW d \in 0..M
    PROVE  LET ball == Balls(lineage, root, M)
               inner == IF d = 0 THEN {} ELSE At(lineage, ball[d - 1])
           IN
           /\ At(lineage, ball[d]) = inner \cup At(lineage, Sphere(ball, d))
           /\ d < M => ball[d + 1] = ball[d] \cup Around(lineage, Sphere(ball, d))
<1> DEFINE ball == Balls(lineage, root, M)
<1>1. ball[0] = {root} /\ \A n \in 0..(M - 1) : ball[n + 1] = ball[n] \cup Around(lineage, ball[n])
  BY BallsAre
<1> HIDE DEF ball
<1>2. CASE d = 0
  <2>1. Sphere(ball, d) = ball[d]
    BY <1>2 DEF Sphere
  <2> QED
    BY <1>1, <1>2, <2>1 DEF ball
<1>3. CASE d # 0
  <2>1. d - 1 \in 0..(M - 1) /\ (d - 1) + 1 = d
    BY <1>3
  <2>2. ball[d] = ball[d - 1] \cup Around(lineage, ball[d - 1])
    BY <1>1, <2>1
  <2>3. Sphere(ball, d) = ball[d] \ ball[d - 1]
    BY <1>3 DEF Sphere
  <2>4. At(lineage, ball[d]) = At(lineage, ball[d - 1]) \cup At(lineage, Sphere(ball, d))
    BY <2>2, <2>3 DEF At, Touching
  <2>5. Around(lineage, ball[d]) = Around(lineage, ball[d - 1]) \cup Around(lineage, Sphere(ball, d))
    BY <2>4, Zenon DEF Around
  <2>6. d < M => ball[d + 1] = ball[d] \cup Around(lineage, ball[d])
    BY <1>1
  <2>7. d < M => ball[d + 1] = ball[d] \cup Around(lineage, Sphere(ball, d))
    BY <2>2, <2>5, <2>6
  <2> QED
    BY <1>3, <2>4, <2>7 DEF ball
<1> QED
  BY <1>2, <1>3

\* A search begins at level 0.
LEMMA AtFirst ==
    ASSUME NEW R, NEW lineage, NEW root \in R, NEW M \in Nat
    PROVE  AtLevel(R, lineage, Balls(lineage, root, M), M, 0, Search(root, root))
<1> DEFINE ball == Balls(lineage, root, M)
           s == Search(root, root)
<1>1. ball[0] = {root} /\ Sphere(ball, 0) = {root}
  BY BallsAre DEF Sphere
<1>2. /\ s.nodes = {} /\ s.edges = {} /\ s.queued = {root} /\ s.truncated = FALSE /\ s.missing = FALSE
      /\ s.frontier = <<root>> /\ s.next = <<>>
  BY DEF Search
<1>3. s \in Answers(R, lineage, R)
  BY DEF Answers, Search
<1>4. ToSet(s.frontier) = {root}
  BY <1>2, Elements
<1>5. IsFiniteSet({root}) /\ Cardinality({root}) = 1 /\ IsFiniteSet({}) /\ Cardinality({}) = 0
  BY FS_Singleton, FS_EmptySet
<1> HIDE DEF s, ball
<1>6. Sound(R, lineage, R, s)
  BY <1>2, <1>3, <1>5, ExplainAssumption DEF Sound
<1>7. Listed(ball, 0) = {}
  BY DEF Listed
<1> QED
  <2>1. /\ ToSet(s.frontier) \subseteq s.queued /\ ToSet(s.frontier) \subseteq ball[0]
        /\ s.edges \subseteq Near(lineage, ball, M)
        /\ s.queued = ball[0] /\ ToSet(s.frontier) = Sphere(ball, 0)
    BY <1>1, <1>2, <1>4, Zenon
  <2>2. AtLevel(R, lineage, ball, M, 0, s)
    <3>1. s.nodes = Listed(ball, 0) /\ ~s.missing
      BY <1>2, <1>7
    <3>2. \A d \in 0..(M - 1) : ~(d < 0)
      OBVIOUS
    <3> QED
      BY <1>6, <2>1, <3>1, <3>2 DEF AtLevel
  <2> QED
    BY <2>2 DEF ball, s

\* A level that is loaded.
LoadedFrom(R, lineage, s, n, loaded) ==
    /\ Sound(R, lineage, R, loaded) /\ ~loaded.missing
    /\ loaded.nodes = s.nodes \cup {[ref |-> x, depth |-> n] : x \in ToSet(s.frontier)}
    /\ loaded.edges = s.edges /\ loaded.queued = s.queued
    /\ loaded.truncated = s.truncated /\ loaded.frontier = s.frontier

\* No record of a level is missing.
LEMMA LoadLevel ==
    ASSUME NEW R, NEW lineage, NEW s, Sound(R, lineage, R, s), ~s.missing, NEW n \in Nat,
           ToSet(s.frontier) \subseteq s.queued
    PROVE  LoadedFrom(R, lineage, s, n, LoadTraceNodes(R, s, n))
<1> DEFINE new == {[ref |-> x, depth |-> n] : x \in ToSet(s.frontier)}
           loaded == LoadTraceNodes(R, s, n)
<1>1. s \in Answers(R, lineage, R) /\ s.frontier \in Seq(R) /\ s.missing = FALSE
  BY DEF Sound, Answers
<1>2. ToSet(s.frontier) \subseteq R
  BY <1>1, Elements
<1>3. new \in SUBSET [ref : R, depth : Nat]
  BY <1>2
<1>4. loaded = [s EXCEPT !.nodes = @ \cup new, !.missing = FALSE]
  BY <1>1, <1>2 DEF LoadTraceNodes, Answers
<1> HIDE DEF new, loaded
<1>5. /\ loaded \in Answers(R, lineage, R) /\ loaded.missing = FALSE
      /\ loaded.nodes = s.nodes \cup new
      /\ loaded.edges = s.edges /\ loaded.queued = s.queued
      /\ loaded.truncated = s.truncated /\ loaded.frontier = s.frontier
  BY <1>1, <1>3, <1>4 DEF Answers
<1>6. Sound(R, lineage, R, loaded)
  <2>1. \A p \in loaded.nodes : p.ref \in loaded.queued
    BY <1>5 DEF Sound, new
  <2> QED
    BY <1>5, <2>1 DEF Sound
<1> QED
  BY <1>5, <1>6 DEF loaded, new, LoadedFrom

\* A level that finds nothing to load has reached everything there is to reach.
LEMMA LevelEmpty ==
    ASSUME NEW R, NEW lineage, NEW root \in R, NEW M \in Nat, NEW n \in 0..M, NEW s,
           AtLevel(R, lineage, Balls(lineage, root, M), M, n, s), s.frontier = <<>>
    PROVE  AtLevel(R, lineage, Balls(lineage, root, M), M, n + 1, s)
<1> DEFINE ball == Balls(lineage, root, M)
<1>1. /\ Sound(R, lineage, R, s) /\ ~s.missing
      /\ s.edges \subseteq Near(lineage, ball, M)
      /\ ~s.truncated =>
            /\ s.queued = ball[n] /\ ToSet(s.frontier) = Sphere(ball, n)
            /\ \A d \in 0..(M - 1) : d < n => At(lineage, ball[d]) \subseteq s.edges
            /\ s.nodes = Listed(ball, n)
  BY DEF AtLevel
<1>2. ToSet(s.frontier) = {}
  BY Elements
<1>3. ASSUME ~s.truncated
      PROVE  /\ n + 1 <= M => s.queued = ball[n + 1] /\ ToSet(s.frontier) = Sphere(ball, n + 1)
             /\ \A d \in 0..(M - 1) : d < n + 1 => At(lineage, ball[d]) \subseteq s.edges
             /\ s.nodes = Listed(ball, n + 1)
  <2>1. Sphere(ball, n) = {}
    BY <1>1, <1>2, <1>3
  <2>2. n # 0
    BY <2>1, Distances
  <2>3. /\ At(lineage, ball[n]) = At(lineage, ball[n - 1]) \cup At(lineage, {})
        /\ n < M => ball[n + 1] = ball[n] \cup Around(lineage, {})
    <3>1. LET inner == IF n = 0 THEN {} ELSE At(lineage, ball[n - 1]) IN
          /\ At(lineage, ball[n]) = inner \cup At(lineage, Sphere(ball, n))
          /\ n < M => ball[n + 1] = ball[n] \cup Around(lineage, Sphere(ball, n))
      BY AtBall
    <3> HIDE DEF ball
    <3> QED
      BY <2>1, <2>2, <3>1
  <2>4. At(lineage, {}) = {} /\ Around(lineage, {}) = {}
    BY DEF At, Around, Touching
  <2> HIDE DEF ball
  <2>5. n + 1 <= M => s.queued = ball[n + 1] /\ ToSet(s.frontier) = Sphere(ball, n + 1)
    <3> SUFFICES ASSUME n + 1 <= M PROVE s.queued = ball[n + 1] /\ ToSet(s.frontier) = Sphere(ball, n + 1)
      OBVIOUS
    <3>1. n < M /\ n + 1 # 0 /\ (n + 1) - 1 = n
      OBVIOUS
    <3>2. ball[n + 1] = ball[n]
      BY <2>3, <2>4, <3>1
    <3>3. Sphere(ball, n + 1) = {}
      BY <3>1, <3>2 DEF Sphere
    <3> QED
      BY <1>1, <1>2, <1>3, <3>2, <3>3
  <2>6. ASSUME NEW d \in 0..(M - 1), d < n + 1 PROVE At(lineage, ball[d]) \subseteq s.edges
    <3>1. CASE d < n
      BY <1>1, <1>3, <3>1
    <3>2. CASE d = n
      <4>1. n - 1 \in 0..(M - 1) /\ n - 1 < n
        BY <2>2, <3>2
      <4>2. At(lineage, ball[n - 1]) \subseteq s.edges
        BY <1>1, <1>3, <4>1
      <4> QED
        BY <2>3, <2>4, <3>2, <4>2
    <3> QED
      BY <2>6, <3>1, <3>2
  <2>7. Listed(ball, n + 1) = Listed(ball, n)
    <3>1. Listed(ball, n + 1) = Listed(ball, n) \cup {[ref |-> x, depth |-> n] : x \in Sphere(ball, n)}
      BY ListedMore
    <3>2. {[ref |-> x, depth |-> n] : x \in Sphere(ball, n)} = {}
      BY <2>1
    <3> QED
      BY <3>1, <3>2
  <2> QED
    BY <1>1, <1>3, <2>5, <2>6, <2>7
<1>4. /\ ToSet(s.frontier) \subseteq s.queued
      /\ n + 1 <= M => ToSet(s.frontier) \subseteq ball[n + 1]
  BY <1>2
<1> HIDE DEF ball
<1> QED
  BY <1>1, <1>3, <1>4 DEF AtLevel, ball

\* The last level, and one for which no edges are left.
LEMMA LevelLast ==
    ASSUME NEW R, NEW lineage, NEW root \in R, NEW M \in Nat, NEW n \in 0..M, NEW s,
           AtLevel(R, lineage, Balls(lineage, root, M), M, n, s),
           NEW used \in BOOLEAN, n < M => used
    PROVE  AtLevel(R, lineage, Balls(lineage, root, M), M, n + 1,
                   [LoadTraceNodes(R, s, n) EXCEPT !.truncated = @ \/ used])
<1> DEFINE ball == Balls(lineage, root, M)
           loaded == LoadTraceNodes(R, s, n)
           r == [loaded EXCEPT !.truncated = @ \/ used]
<1>1. /\ Sound(R, lineage, R, s) /\ ~s.missing
      /\ ToSet(s.frontier) \subseteq s.queued
      /\ ToSet(s.frontier) \subseteq ball[n]
      /\ s.edges \subseteq Near(lineage, ball, M)
      /\ ~s.truncated =>
            /\ s.queued = ball[n] /\ ToSet(s.frontier) = Sphere(ball, n)
            /\ \A d \in 0..(M - 1) : d < n => At(lineage, ball[d]) \subseteq s.edges
            /\ s.nodes = Listed(ball, n)
  BY DEF AtLevel
<1>2. /\ Sound(R, lineage, R, loaded) /\ ~loaded.missing
      /\ loaded.nodes = s.nodes \cup {[ref |-> x, depth |-> n] : x \in ToSet(s.frontier)}
      /\ loaded.edges = s.edges /\ loaded.queued = s.queued
      /\ loaded.truncated = s.truncated /\ loaded.frontier = s.frontier
  <2>1. LoadedFrom(R, lineage, s, n, LoadTraceNodes(R, s, n))
    BY <1>1, LoadLevel
  <2> QED
    BY <2>1 DEF LoadedFrom
<1>3. n + 1 <= M => ball[n] \subseteq ball[n + 1]
  <2>1. n + 1 <= M => n + 1 \in n..M
    OBVIOUS
  <2> QED
    BY <2>1, BallsGrow
<1>4. Listed(ball, n + 1) = Listed(ball, n) \cup {[ref |-> x, depth |-> n] : x \in Sphere(ball, n)}
  BY ListedMore
<1> HIDE DEF ball, loaded
<1>5. /\ r \in Answers(R, lineage, R) /\ r.missing = loaded.missing /\ r.nodes = loaded.nodes
      /\ r.edges = loaded.edges /\ r.queued = loaded.queued /\ r.frontier = loaded.frontier
      /\ ~r.truncated => ~loaded.truncated /\ ~used
  BY <1>2 DEF Sound, Answers
<1> HIDE DEF r
<1>6. Sound(R, lineage, R, r)
  BY <1>2, <1>5 DEF Sound
<1>7. ASSUME ~r.truncated
      PROVE  /\ n + 1 <= M => r.queued = ball[n + 1] /\ ToSet(r.frontier) = Sphere(ball, n + 1)
             /\ \A d \in 0..(M - 1) : d < n + 1 => At(lineage, ball[d]) \subseteq r.edges
             /\ r.nodes = Listed(ball, n + 1)
  <2>1. ~s.truncated /\ n = M
    BY <1>2, <1>5, <1>7
  <2> QED
    BY <1>1, <1>2, <1>4, <1>5, <2>1
<1>8. /\ ToSet(r.frontier) \subseteq r.queued
      /\ n + 1 <= M => ToSet(r.frontier) \subseteq ball[n + 1]
  BY <1>1, <1>2, <1>3, <1>5
<1>9. AtLevel(R, lineage, ball, M, n + 1, r)
  BY <1>1, <1>2, <1>5, <1>6, <1>7, <1>8 DEF AtLevel
<1> QED
  BY <1>9 DEF ball, loaded, r

\* A level that is searched.
LEMMA LevelNext ==
    ASSUME NEW R, NEW lineage, lineage \in Seq(ToSet(lineage)), Between(lineage, R),
           NEW root \in R, NEW M \in Nat, NEW n \in 0..(M - 1), NEW s,
           AtLevel(R, lineage, Balls(lineage, root, M), M, n, s)
    PROVE  LET found == EdgesAt(lineage, ToSet(s.frontier))
               after == IncludeEdges(lineage, found.places, LoadTraceNodes(R, s, n))
           IN
           AtLevel(R, lineage, Balls(lineage, root, M), M, n + 1,
                   [after EXCEPT !.frontier = after.next, !.truncated = @ \/ found.truncated])
<1> DEFINE ball == Balls(lineage, root, M)
           S == ToSet(s.frontier)
           loaded == LoadTraceNodes(R, s, n)
           found == EdgesAt(lineage, S)
           after == IncludeEdges(lineage, found.places, loaded)
           r == [after EXCEPT !.frontier = after.next, !.truncated = @ \/ found.truncated]
<1>1. /\ Sound(R, lineage, R, s) /\ ~s.missing
      /\ S \subseteq s.queued
      /\ S \subseteq ball[n]
      /\ s.edges \subseteq Near(lineage, ball, M)
      /\ ~s.truncated =>
            /\ s.queued = ball[n] /\ S = Sphere(ball, n)
            /\ \A d \in 0..(M - 1) : d < n => At(lineage, ball[d]) \subseteq s.edges
            /\ s.nodes = Listed(ball, n)
  BY DEF AtLevel
<1>2. /\ Sound(R, lineage, R, loaded) /\ ~loaded.missing
      /\ loaded.nodes = s.nodes \cup {[ref |-> x, depth |-> n] : x \in S}
      /\ loaded.edges = s.edges /\ loaded.queued = s.queued
      /\ loaded.truncated = s.truncated
  <2>1. n \in Nat /\ Sound(R, lineage, R, s) /\ ~s.missing /\ ToSet(s.frontier) \subseteq s.queued
    BY <1>1
  <2>2. LoadedFrom(R, lineage, s, n, LoadTraceNodes(R, s, n))
    BY <2>1, LoadLevel
  <2> QED
    BY <2>2 DEF LoadedFrom
<1>3. /\ Sound(R, lineage, R, after)
      /\ after.nodes = loaded.nodes /\ after.missing = loaded.missing
      /\ after.edges \subseteq loaded.edges \cup At(lineage, S)
      /\ loaded.edges \subseteq after.edges
      /\ after.queued \subseteq loaded.queued \cup Around(lineage, S)
      /\ ToSet(after.next) = after.queued \ loaded.queued
      /\ found.truncated \in BOOLEAN
      /\ loaded.truncated => after.truncated
      /\ ~after.truncated /\ ~found.truncated =>
             /\ At(lineage, S) \subseteq after.edges
             /\ after.queued = loaded.queued \cup Around(lineage, S)
  <2>1. S \in SUBSET loaded.queued
    BY <1>1, <1>2
  <2> HIDE DEF S, loaded
  <2> QED
    BY <1>2, <2>1, Round DEF found, after
<1>4. Near(lineage, ball, M) = At(lineage, ball[M - 1]) /\ ball[n] \subseteq ball[M - 1]
  <2>1. M > 0 /\ M - 1 \in n..M
    OBVIOUS
  <2>2. ball[n] \subseteq ball[M - 1]
    BY <2>1, BallsGrow
  <2> HIDE DEF ball
  <2> QED
    BY <2>1, <2>2 DEF Near, At
<1>5. LET inner == IF n = 0 THEN {} ELSE At(lineage, ball[n - 1]) IN
      /\ At(lineage, ball[n]) = inner \cup At(lineage, Sphere(ball, n))
      /\ n < M => ball[n + 1] = ball[n] \cup Around(lineage, Sphere(ball, n))
  BY AtBall
<1>6. Listed(ball, n + 1) = Listed(ball, n) \cup {[ref |-> x, depth |-> n] : x \in Sphere(ball, n)}
  BY ListedMore
<1>7. Around(lineage, S) \subseteq ball[n + 1]
  <2>1. Around(lineage, S) \subseteq Around(lineage, ball[n])
    <3> HIDE DEF ball, S
    <3> QED
      BY <1>1 DEF Around, At, Touching
  <2>2. ball[n + 1] = ball[n] \cup Around(lineage, ball[n])
    BY BallsAre
  <2> HIDE DEF ball, S
  <2> QED
    BY <2>1, <2>2
<1> HIDE DEF ball, S, loaded, found, after
<1>8. /\ r \in Answers(R, lineage, R) /\ r.missing = after.missing /\ r.nodes = after.nodes
      /\ r.edges = after.edges /\ r.queued = after.queued /\ r.frontier = after.next
      /\ ~r.truncated => ~after.truncated /\ ~found.truncated
  BY <1>3 DEF Sound, Answers
<1> HIDE DEF r
<1>9. Sound(R, lineage, R, r)
  BY <1>3, <1>8 DEF Sound
<1>10. r.edges \subseteq Near(lineage, ball, M)
  <2>1. At(lineage, S) \subseteq At(lineage, ball[M - 1])
    BY <1>1, <1>4 DEF At, Touching
  <2> QED
    BY <1>1, <1>2, <1>3, <1>4, <1>8, <2>1
<1>11. ToSet(r.frontier) \subseteq r.queued
  BY <1>3, <1>8
<1>12. ASSUME ~r.truncated
       PROVE  /\ r.queued = ball[n + 1] /\ ToSet(r.frontier) = Sphere(ball, n + 1)
              /\ \A d \in 0..(M - 1) : d < n + 1 => At(lineage, ball[d]) \subseteq r.edges
              /\ r.nodes = Listed(ball, n + 1)
  <2>1. ~s.truncated /\ ~after.truncated /\ ~found.truncated
    BY <1>2, <1>3, <1>8, <1>12
  <2>2. S = Sphere(ball, n) /\ s.queued = ball[n]
    BY <1>1, <2>1
  <2>3. r.queued = ball[n + 1]
    <3>1. ball[n + 1] = ball[n] \cup Around(lineage, Sphere(ball, n))
      BY <1>5
    <3> QED
      BY <1>2, <1>3, <1>8, <2>1, <2>2, <3>1
  <2>4. Sphere(ball, n + 1) = ball[n + 1] \ ball[n]
    BY DEF Sphere
  <2>5. ToSet(r.frontier) = Sphere(ball, n + 1)
    BY <1>2, <1>3, <1>8, <2>2, <2>3, <2>4
  <2>6. At(lineage, S) \subseteq r.edges /\ s.edges \subseteq r.edges
    BY <1>2, <1>3, <1>8, <2>1
  <2>7. ASSUME NEW d \in 0..(M - 1), d < n + 1 PROVE At(lineage, ball[d]) \subseteq r.edges
    <3>1. CASE d < n
      <4>1. At(lineage, ball[d]) \subseteq s.edges
        BY <1>1, <2>1, <3>1
      <4> QED
        BY <2>6, <4>1
    <3>2. CASE d = n /\ n = 0
      BY <1>5, <2>2, <2>6, <3>2
    <3>3. CASE d = n /\ n # 0
      <4>1. n - 1 \in 0..(M - 1) /\ n - 1 < n
        BY <3>3
      <4>2. At(lineage, ball[n - 1]) \subseteq s.edges
        BY <1>1, <2>1, <4>1
      <4> QED
        BY <1>5, <2>2, <2>6, <3>3, <4>2
    <3> QED
      BY <2>7, <3>1, <3>2, <3>3
  <2>8. r.nodes = Listed(ball, n + 1)
    BY <1>1, <1>2, <1>3, <1>6, <1>8, <2>1, <2>2
  <2> QED
    BY <2>3, <2>5, <2>7, <2>8
<1>13. n + 1 <= M => ToSet(r.frontier) \subseteq ball[n + 1]
  BY <1>3, <1>7, <1>8
<1>14. ~r.missing
  BY <1>2, <1>3, <1>8
<1>15. AtLevel(R, lineage, ball, M, n + 1, r)
  BY <1>9, <1>10, <1>11, <1>12, <1>13, <1>14 DEF AtLevel
<1> QED
  BY <1>15 DEF ball, S, loaded, found, after, r

\* The limits: of edges, and of the records that the nodes are.
WithinLimits(answer) ==
    /\ Cardinality(answer.edges) <= MaxEdges
    /\ Cardinality({p.ref : p \in answer.nodes}) <= MaxNodes

\* Searches keep to them.
LEMMA Limits ==
    ASSUME NEW R, NEW lineage, NEW F, NEW s, Sound(R, lineage, F, s)
    PROVE  WithinLimits(s)
<1>1. {p.ref : p \in s.nodes} \subseteq s.queued
  BY DEF Sound
<1>2. /\ IsFiniteSet({p.ref : p \in s.nodes})
      /\ Cardinality({p.ref : p \in s.nodes}) <= Cardinality(s.queued)
  BY <1>1, FS_Subset DEF Sound
<1>3. Cardinality({p.ref : p \in s.nodes}) \in Nat /\ Cardinality(s.queued) \in Nat
  BY <1>2, FS_CardinalityType DEF Sound
<1>4. Cardinality(s.queued) <= MaxNodes /\ Cardinality(s.edges) <= MaxEdges
  BY DEF Sound
<1> QED
  BY <1>2, <1>3, <1>4, ExplainAssumption DEF WithinLimits

\* Every level of the search keeps what holds at a level.
LEMMA LevelKeeps ==
    ASSUME NEW R, NEW lineage, lineage \in Seq(ToSet(lineage)), Between(lineage, R),
           NEW root \in R, NEW M \in Nat, NEW n \in 0..M, NEW s,
           AtLevel(R, lineage, Balls(lineage, root, M), M, n, s)
    PROVE  AtLevel(R, lineage, Balls(lineage, root, M), M, n + 1, Level(R, lineage, M, s, n))
<1> DEFINE used   == Cardinality(s.edges) >= MaxEdges
           loaded == LoadTraceNodes(R, s, n)
           found  == EdgesAt(lineage, ToSet(s.frontier))
           after  == IncludeEdges(lineage, found.places, loaded)
           last   == [loaded EXCEPT !.truncated = @ \/ used]
           further == [after EXCEPT !.frontier = after.next, !.truncated = @ \/ found.truncated]
           r == Level(R, lineage, M, s, n)
<1>1. \/ s.frontier = <<>> /\ r = s
      \/ (n >= M \/ used) /\ r = last
      \/ n < M /\ r = further
  <2> HIDE DEF loaded, found, after
  <2>1. CASE s.frontier = <<>>
    BY <2>1 DEF Level
  <2>2. CASE s.frontier # <<>> /\ (n >= M \/ used)
    BY <2>2 DEF Level, loaded
  <2>3. CASE s.frontier # <<>> /\ ~(n >= M \/ used)
    BY <2>3 DEF Level, loaded, found, after
  <2> QED
    BY <2>1, <2>2, <2>3
<1>2. CASE s.frontier = <<>> /\ r = s
  BY <1>2, LevelEmpty
<1>3. CASE (n >= M \/ used) /\ r = last
  <2>1. used \in BOOLEAN /\ (n < M => used)
    BY <1>3
  <2> HIDE DEF used, r
  <2> QED
    BY <1>3, <2>1, LevelLast DEF r
<1>4. CASE n < M /\ r = further
  <2>1. n \in 0..(M - 1)
    BY <1>4
  <2>2. AtLevel(R, lineage, Balls(lineage, root, M), M, n + 1, further)
    BY <2>1, LevelNext
  <2>3. AtLevel(R, lineage, Balls(lineage, root, M), M, n + 1, r)
    <3> HIDE DEF r, further
    <3> QED
      BY <1>4, <2>2
  <2> QED
    BY <2>3
<1> QED
  BY <1>1, <1>2, <1>3, <1>4

\* The production kernel's answer is the neighborhood, or says that it is truncated; it
\* keeps to the limit of edges, and its nodes are no more records than the limit of nodes.
THEOREM ExplainTraceTells ==
    ASSUME NEW R, NEW lineage, lineage \in Seq(ToSet(lineage)), Between(lineage, R),
           NEW root \in R, NEW M \in Nat
    PROVE  /\ Tells(ExplainTrace(R, lineage, root, M), lineage, root, M)
           /\ WithinLimits(ExplainTrace(R, lineage, root, M))
<1> DEFINE ball == Balls(lineage, root, M)
           level == Levels(R, lineage, root, M)
           Good == {n \in Nat : n <= M + 1 => AtLevel(R, lineage, ball, M, n, level[n])}
           told == level[M + 1]
<1>1. /\ level[0] = Search(root, root)
      /\ \A n \in 0..((M + 1) - 1) : level[n + 1] = Level(R, lineage, M, level[n], n)
  BY LevelsAre
<1> HIDE DEF level
<1>2. 0 \in Good
  BY <1>1, AtFirst
<1>3. ASSUME NEW n \in 0..((M + 1) - 1), n \in Good PROVE n + 1 \in Good
  <2>1. n \in 0..M /\ AtLevel(R, lineage, ball, M, n, level[n])
    BY <1>3
  <2>2. AtLevel(R, lineage, ball, M, n + 1, level[n + 1])
    BY <1>1, <2>1, LevelKeeps
  <2> HIDE DEF ball
  <2> QED
    BY <2>2
<1>4. AtLevel(R, lineage, ball, M, M + 1, told)
  <2>1. M + 1 \in Good
    <3> HIDE DEF Good
    <3>1. M + 1 \in Nat
      OBVIOUS
    <3>2. 0..(M + 1) \subseteq Good
      BY <1>2, <1>3, <3>1, UpTo
    <3> QED
      BY <3>1, <3>2
  <2> HIDE DEF ball
  <2> QED
    BY <2>1
<1>5. /\ ~told.missing
      /\ told.edges \subseteq Near(lineage, ball, M)
      /\ ~told.truncated =>
            /\ \A d \in 0..(M - 1) : At(lineage, ball[d]) \subseteq told.edges
            /\ told.nodes = Listed(ball, M + 1)
  <2> HIDE DEF ball, told
  <2>1. \A d \in 0..(M - 1) : d < M + 1
    OBVIOUS
  <2> QED
    BY <1>4, <2>1, Zenon DEF AtLevel
<1>6. Neighborhood(lineage, root, M) = [nodes |-> Listed(ball, M + 1), edges |-> Near(lineage, ball, M)]
  <2>1. 0..((M + 1) - 1) = 0..M
    OBVIOUS
  <2> QED
    BY <2>1 DEF Neighborhood, Listed, Near, Sphere
<1>7. ~told.truncated => Near(lineage, ball, M) \subseteq told.edges
  <2> HIDE DEF ball, told
  <2>1. CASE M = 0
    BY <2>1 DEF Near
  <2>2. CASE M > 0
    <3>1. M - 1 \in 0..(M - 1)
      BY <2>2
    <3>2. Near(lineage, ball, M) = At(lineage, ball[M - 1])
      BY <2>2 DEF Near, At
    <3> QED
      BY <1>5, <3>1, <3>2
  <2> QED
    BY <2>1, <2>2
<1>8. ExplainTrace(R, lineage, root, M) = told
  BY DEF ExplainTrace, level
<1> DEFINE whole == Neighborhood(lineage, root, M)
<1> HIDE DEF ball, told
<1>9. whole.nodes = Listed(ball, M + 1) /\ whole.edges = Near(lineage, ball, M)
  BY <1>6
<1> HIDE DEF whole
<1>10. /\ ~told.missing
       /\ told.edges \subseteq whole.edges
       /\ ~told.truncated => told.nodes = whole.nodes /\ told.edges = whole.edges
  BY <1>5, <1>7, <1>9
<1> QED
  <2>1. WithinLimits(told)
    BY <1>4, Limits DEF AtLevel
  <2> QED
    BY <1>8, <1>10, <2>1 DEF Tells, whole

-----------------------------------------------------------------------------
(* The embedded kernel's search *)

\* A node in its queue.
Queued(R) == [ref : R, depth : Nat]

\* The queue is in the order of the depths, which differ by one at most.
Ordered(f) ==
    \A i, j \in DOMAIN f : i <= j => f[i].depth <= f[j].depth /\ f[j].depth <= f[i].depth + 1

\* What follows of a queue g, after one whose first node was first.
QueueAfter(first, g) ==
    /\ Ordered(g)
    /\ \A p \in ToSet(g) : first.depth <= p.depth /\ p.depth <= first.depth + 1
    /\ g # <<>> => Head(g) \in ToSet(g) /\ \A p \in ToSet(g) : Head(g).depth <= p.depth

\* The queue stays in order when its first node is taken, and the neighbors of that
\* are added at the end.
LEMMA OrderedNext ==
    ASSUME NEW R, NEW f \in Seq(Queued(R)), f # <<>>, NEW q \in Seq(Queued(R)),
           Ordered(f), \A k \in DOMAIN q : q[k].depth = Head(f).depth + 1
    PROVE  QueueAfter(Head(f), Tail(f) \o q)
<1> DEFINE g == Tail(f) \o q
           m == Len(f) - 1
           first == Head(f)
<1>1. /\ Len(f) \in Nat /\ m \in Nat /\ Len(q) \in Nat /\ first = f[1]
      /\ DOMAIN f = 1..Len(f) /\ DOMAIN q = 1..Len(q) /\ 1 \in DOMAIN f
      /\ g \in Seq(Queued(R)) /\ Len(g) = m + Len(q) /\ DOMAIN g = 1..Len(g)
  OBVIOUS
<1>2. \A i \in 1..m : i + 1 \in DOMAIN f /\ g[i] = f[i + 1]
  <2>1. Tail(f) \in Seq(Queued(R)) /\ Len(Tail(f)) = m /\ \A i \in 1..m : Tail(f)[i] = f[i + 1]
    OBVIOUS
  <2>2. \A i \in 1..m : g[i] = Tail(f)[i]
    BY <2>1
  <2> HIDE DEF g
  <2> QED
    BY <1>1, <2>1, <2>2
<1>3. \A i \in (m + 1)..Len(g) : i - m \in DOMAIN q /\ g[i] = q[i - m]
  <2>1. Tail(f) \in Seq(Queued(R)) /\ Len(Tail(f)) = m
    OBVIOUS
  <2>2. \A t \in Seq(Queued(R)) : \A i \in (Len(t) + 1)..(Len(t) + Len(q)) :
            i - Len(t) \in DOMAIN q /\ (t \o q)[i] = q[i - Len(t)]
    OBVIOUS
  <2> QED
    BY <1>1, <2>1, <2>2
<1>4. \A i \in DOMAIN f : f[i].depth \in Nat
  <2>1. \A i \in DOMAIN f : f[i] \in Queued(R)
    OBVIOUS
  <2> QED
    BY <2>1 DEF Queued
<1>5. first.depth \in Nat
  BY <1>1, <1>4
<1> HIDE DEF g
<1>6. ASSUME NEW i \in DOMAIN g
      PROVE  /\ i \in 1..m \/ i \in (m + 1)..Len(g)
             /\ i \in (m + 1)..Len(g) => g[i].depth = first.depth + 1
             /\ i \in 1..m => first.depth <= g[i].depth /\ g[i].depth <= first.depth + 1
             /\ g[i].depth \in Nat
  <2>1. i \in 1..m \/ i \in (m + 1)..Len(g)
    BY <1>1
  <2>2. ASSUME i \in (m + 1)..Len(g) PROVE g[i].depth = first.depth + 1
    BY <1>3, <2>2
  <2>3. ASSUME i \in 1..m PROVE first.depth <= g[i].depth /\ g[i].depth <= first.depth + 1 /\ g[i].depth \in Nat
    <3>1. i + 1 \in DOMAIN f /\ g[i] = f[i + 1] /\ 1 <= i + 1
      BY <1>2, <2>3
    <3> HIDE DEF first
    <3> QED
      BY <1>1, <1>4, <3>1 DEF Ordered
  <2> HIDE DEF first, m
  <2> QED
    BY <1>5, <2>1, <2>2, <2>3
<1>7. Ordered(g)
  <2> SUFFICES ASSUME NEW i \in DOMAIN g, NEW j \in DOMAIN g, i <= j
               PROVE  g[i].depth <= g[j].depth /\ g[j].depth <= g[i].depth + 1
    BY DEF Ordered
  <2>1. CASE j \in (m + 1)..Len(g)
    <3> HIDE DEF first, m
    <3> QED
      BY <1>5, <1>6, <2>1
  <2>2. CASE j \in 1..m
    <3>1. i \in 1..m
      BY <1>1, <2>2
    <3>2. g[i] = f[i + 1] /\ g[j] = f[j + 1] /\ i + 1 \in DOMAIN f /\ j + 1 \in DOMAIN f /\ i + 1 <= j + 1
      BY <1>1, <1>2, <2>2, <3>1
    <3> QED
      BY <3>2 DEF Ordered
  <2> QED
    BY <1>6, <2>1, <2>2
<1>8. ASSUME NEW p \in ToSet(g) PROVE first.depth <= p.depth /\ p.depth <= first.depth + 1
  <2>1. PICK i \in DOMAIN g : p = g[i]
    BY DEF ToSet
  <2> HIDE DEF first, m
  <2> QED
    BY <1>5, <1>6, <2>1
<1>9. ASSUME g # <<>> PROVE Head(g) \in ToSet(g) /\ \A p \in ToSet(g) : Head(g).depth <= p.depth
  <2>1. 1 \in DOMAIN g /\ Head(g) = g[1] /\ \A i \in DOMAIN g : 1 <= i
    BY <1>1, <1>9
  <2> QED
    BY <1>7, <2>1 DEF Ordered, ToSet
<1> QED
  BY <1>7, <1>8, <1>9 DEF g, QueueAfter

\* What a search holds that left nothing out: every node at its distance, the edges of
\* the nodes visited, and in the queue all that is as near as its first node.
AllSoFar(lineage, ball, M, s) ==
    LET found == s.nodes \cup ToSet(s.frontier) IN
    /\ \A x \in s.queued : \E p \in found : p.ref = x
    /\ \A p \in found : p.ref \in Sphere(ball, p.depth)
    /\ \A p \in s.nodes : p.depth < M => At(lineage, {p.ref}) \subseteq s.edges
    /\ Ordered(s.frontier)
    /\ s.frontier # <<>> => ball[Head(s.frontier).depth] \subseteq s.queued

\* After n visits: every node found is inside the ball of its depth.
AtVisit(R, lineage, ball, M, root, n, s) ==
    LET found == s.nodes \cup ToSet(s.frontier) IN
    /\ Sound(R, lineage, Queued(R), s)
    /\ ~s.missing
    /\ IsFiniteSet(s.nodes) /\ Cardinality(s.nodes) <= n
    /\ s.frontier # <<>> => n + Len(s.frontier) = Cardinality(s.queued)
    /\ root \in s.queued
    /\ \A p \in found : p.depth <= M /\ p.ref \in s.queued /\ p.ref \in ball[p.depth]
    /\ s.edges \subseteq Near(lineage, ball, M)
    /\ ~s.truncated => AllSoFar(lineage, ball, M, s)

\* A search begins with the root alone in the queue.
LEMMA AtFirstVisit ==
    ASSUME NEW R, NEW lineage, NEW root \in R, NEW M \in Nat
    PROVE  AtVisit(R, lineage, Balls(lineage, root, M), M, root, 0,
                   Search(root, [ref |-> root, depth |-> 0]))
<1> DEFINE ball == Balls(lineage, root, M)
           first == [ref |-> root, depth |-> 0]
           s == Search(root, first)
<1>1. ball[0] = {root} /\ Sphere(ball, 0) = {root}
  BY BallsAre DEF Sphere
<1>2. /\ s.nodes = {} /\ s.edges = {} /\ s.queued = {root} /\ s.truncated = FALSE /\ s.missing = FALSE
      /\ s.frontier = <<first>> /\ s.next = <<>>
  BY DEF Search
<1>3. s \in Answers(R, lineage, Queued(R))
  BY DEF Answers, Search, Queued
<1>4. ToSet(s.frontier) = {first}
  BY <1>2, Elements
<1>5. IsFiniteSet({root}) /\ Cardinality({root}) = 1 /\ IsFiniteSet({}) /\ Cardinality({}) = 0
  BY FS_Singleton, FS_EmptySet
<1>6. first.ref = root /\ first.depth = 0
  OBVIOUS
<1>7. Ordered(<<first>>) /\ Head(<<first>>) = first /\ Len(<<first>>) = 1
  BY DEF Ordered
<1> HIDE DEF s, ball, first
<1>8. Sound(R, lineage, Queued(R), s)
  BY <1>2, <1>3, <1>5, ExplainAssumption DEF Sound
<1>9. AtVisit(R, lineage, ball, M, root, 0, s)
  <2>1. AllSoFar(lineage, ball, M, s)
    BY <1>1, <1>2, <1>4, <1>6, <1>7 DEF AllSoFar
  <2> QED
    BY <1>1, <1>2, <1>4, <1>5, <1>6, <1>7, <1>8, <2>1 DEF AtVisit
<1> QED
  BY <1>9 DEF s, ball, first

\* A node was taken from the queue.
TakenFrom(R, lineage, s, loaded) ==
    LET node == Head(s.frontier) IN
    /\ node \in Queued(R)
    /\ Sound(R, lineage, Queued(R), loaded) /\ ~loaded.missing
    /\ loaded.nodes = s.nodes \cup {node} /\ loaded.frontier = Tail(s.frontier)
    /\ loaded.edges = s.edges /\ loaded.queued = s.queued /\ loaded.truncated = s.truncated

\* Its record is not missing.
LEMMA LoadNode ==
    ASSUME NEW R, NEW lineage, NEW s, Sound(R, lineage, Queued(R), s), ~s.missing,
           s.frontier # <<>>, Head(s.frontier).ref \in s.queued
    PROVE  TakenFrom(R, lineage, s, [LoadTraceNode(R, s, Head(s.frontier)) EXCEPT !.frontier = Tail(@)])
<1> DEFINE node == Head(s.frontier)
           loaded == [LoadTraceNode(R, s, node) EXCEPT !.frontier = Tail(@)]
           rest == Tail(s.frontier)
<1>1. s \in Answers(R, lineage, Queued(R)) /\ s.frontier \in Seq(Queued(R)) /\ s.missing = FALSE
  BY DEF Sound, Answers
<1>2. node \in Queued(R) /\ rest \in Seq(Queued(R))
  BY <1>1
<1>4. node.ref \in R /\ node \in [ref : R, depth : Nat]
  BY <1>2 DEF Queued
<1>5. loaded = [s EXCEPT !.nodes = @ \cup {node}, !.missing = FALSE, !.frontier = rest]
  <2> HIDE DEF node
  <2> QED
    BY <1>1, <1>4 DEF LoadTraceNode, Answers
<1> HIDE DEF node, loaded, rest
<1>6. /\ loaded \in Answers(R, lineage, Queued(R)) /\ loaded.missing = FALSE
      /\ loaded.nodes = s.nodes \cup {node} /\ loaded.frontier = rest
      /\ loaded.edges = s.edges /\ loaded.queued = s.queued /\ loaded.truncated = s.truncated
  <2>1. s.nodes \cup {node} \in SUBSET [ref : R, depth : Nat]
    BY <1>1, <1>4 DEF Answers
  <2> QED
    BY <1>1, <1>2, <1>5, <2>1 DEF Answers
<1>7. Sound(R, lineage, Queued(R), loaded)
  <2>1. \A p \in loaded.nodes : p.ref \in loaded.queued
    BY <1>6 DEF Sound, node
  <2> QED
    BY <1>6, <2>1 DEF Sound
<1> QED
  BY <1>2, <1>6, <1>7 DEF node, loaded, rest, TakenFrom

\* What visiting a node makes of a search: q is what it adds to the queue.
Visited(R, lineage, M, s, r, q) ==
    LET node == Head(s.frontier) IN
    /\ Sound(R, lineage, Queued(R), r) /\ ~r.missing
    /\ r.nodes = s.nodes \cup {node}
    /\ q \in Seq(Queued(R)) /\ r.frontier = Tail(s.frontier) \o q
    /\ \A k \in DOMAIN q : q[k].depth = node.depth + 1
    /\ {p.ref : p \in ToSet(q)} = r.queued \ s.queued /\ s.queued \subseteq r.queued
    /\ Len(q) + Cardinality(s.queued) = Cardinality(r.queued)
    /\ s.edges \subseteq r.edges /\ r.edges \subseteq s.edges \cup At(lineage, {node.ref})
    /\ r.queued \subseteq s.queued \cup Around(lineage, {node.ref})
    /\ node.depth < M \/ (q = <<>> /\ r.edges = s.edges)
    /\ ~r.truncated => ~s.truncated /\ (node.depth < M => At(lineage, {node.ref}) \subseteq r.edges)

\* The nodes found stay inside the balls of their depths, and the edges near.
StaysNear(lineage, ball, M, s, r, q) ==
    /\ r.nodes \cup ToSet(r.frontier) = s.nodes \cup ToSet(s.frontier) \cup ToSet(q)
    /\ \A p \in r.nodes \cup ToSet(r.frontier) :
           p.depth \in 0..M /\ p.ref \in r.queued /\ p.ref \in ball[p.depth]
    /\ r.edges \subseteq Near(lineage, ball, M)

\* A visit keeps them there: a neighbor is one step further than the node.
LEMMA VisitNear ==
    ASSUME NEW R, NEW lineage, NEW root \in R, NEW M \in Nat, NEW n \in Nat, NEW s,
           AtVisit(R, lineage, Balls(lineage, root, M), M, root, n, s), s.frontier # <<>>,
           NEW r, NEW q, Visited(R, lineage, M, s, r, q)
    PROVE  StaysNear(lineage, Balls(lineage, root, M), M, s, r, q)
<1> DEFINE ball == Balls(lineage, root, M)
           node == Head(s.frontier)
           rest == Tail(s.frontier)
<1>1. /\ Sound(R, lineage, Queued(R), s) /\ s.frontier # <<>>
      /\ \A p \in s.nodes \cup ToSet(s.frontier) : p.depth <= M /\ p.ref \in s.queued /\ p.ref \in ball[p.depth]
      /\ s.edges \subseteq Near(lineage, ball, M)
  BY DEF AtVisit
<1>2. /\ r.nodes = s.nodes \cup {node}
      /\ q \in Seq(Queued(R)) /\ r.frontier = rest \o q
      /\ \A k \in DOMAIN q : q[k].depth = node.depth + 1
      /\ {p.ref : p \in ToSet(q)} = r.queued \ s.queued /\ s.queued \subseteq r.queued
      /\ r.edges \subseteq s.edges \cup At(lineage, {node.ref})
      /\ r.queued \subseteq s.queued \cup Around(lineage, {node.ref})
      /\ node.depth < M \/ (q = <<>> /\ r.edges = s.edges)
  BY DEF Visited
<1>3. s.frontier \in Seq(Queued(R)) /\ s.nodes \subseteq Queued(R)
  BY <1>1 DEF Sound, Answers, Queued
<1>4. rest \in Seq(Queued(R)) /\ ToSet(s.frontier) = {node} \cup ToSet(rest)
  BY <1>1, <1>3, Elements
<1>5. ToSet(r.frontier) = ToSet(rest) \cup ToSet(q)
  <2> HIDE DEF rest
  <2>1. ToSet(rest \o q) = ToSet(rest) \cup ToSet(q)
    BY <1>2, <1>4, Elements
  <2> QED
    BY <1>2, <2>1
<1>6. r.nodes \cup ToSet(r.frontier) = s.nodes \cup ToSet(s.frontier) \cup ToSet(q)
  <2> HIDE DEF node, rest
  <2> QED
    BY <1>2, <1>4, <1>5
<1>7. \A p \in s.nodes \cup ToSet(s.frontier) : p.depth \in Nat
  <2>1. ToSet(s.frontier) \subseteq Queued(R)
    BY <1>3, Elements
  <2> QED
    BY <1>3, <2>1 DEF Queued
<1>8. node.depth \in 0..M /\ node.ref \in ball[node.depth]
  <2>1. node \in ToSet(s.frontier)
    BY <1>4
  <2> HIDE DEF node, ball
  <2> QED
    BY <1>1, <1>7, <2>1
<1>9. ASSUME node.depth < M
      PROVE  /\ Around(lineage, {node.ref}) \subseteq ball[node.depth + 1]
             /\ At(lineage, {node.ref}) \subseteq Near(lineage, ball, M)
  <2>1. node.depth \in 0..(M - 1)
    BY <1>8, <1>9
  <2>2. ball[node.depth + 1] = ball[node.depth] \cup Around(lineage, ball[node.depth])
    BY <2>1, BallsAre
  <2>3. M > 0 /\ M - 1 \in node.depth..M
    BY <2>1
  <2>4. ball[node.depth] \subseteq ball[M - 1]
    BY <1>8, <2>3, BallsGrow
  <2> HIDE DEF ball, node
  <2>5. At(lineage, {node.ref}) \subseteq At(lineage, ball[node.depth])
    BY <1>8 DEF At, Touching
  <2>6. Around(lineage, {node.ref}) \subseteq Around(lineage, ball[node.depth])
    BY <2>5, Zenon DEF Around
  <2>7. At(lineage, {node.ref}) \subseteq Near(lineage, ball, M)
    BY <1>8, <2>3, <2>4 DEF At, Near, Touching
  <2> QED
    BY <2>2, <2>6, <2>7
<1> HIDE DEF ball, node, rest
<1>10. ASSUME NEW p \in ToSet(q)
       PROVE  p.depth \in 0..M /\ p.ref \in r.queued /\ p.ref \in ball[p.depth]
  <2>1. PICK k \in DOMAIN q : p = q[k]
    BY DEF ToSet
  <2>2. q # <<>>
    BY <2>1
  <2>3. node.depth < M
    BY <1>2, <2>2
  <2>4. p.depth = node.depth + 1
    BY <1>2, <2>1
  <2>5. p.ref \in r.queued \ s.queued
    BY <1>2
  <2>6. p.ref \in ball[node.depth + 1]
    BY <1>2, <1>9, <2>3, <2>5
  <2> QED
    BY <1>8, <2>3, <2>4, <2>5, <2>6
<1>11. \A p \in r.nodes \cup ToSet(r.frontier) :
           p.depth \in 0..M /\ p.ref \in r.queued /\ p.ref \in ball[p.depth]
  <2>1. \A p \in s.nodes \cup ToSet(s.frontier) :
            p.depth \in 0..M /\ p.ref \in r.queued /\ p.ref \in ball[p.depth]
    BY <1>1, <1>2, <1>7
  <2> QED
    BY <1>6, <1>10, <2>1
<1>12. r.edges \subseteq Near(lineage, ball, M)
  BY <1>1, <1>2, <1>9
<1> QED
  BY <1>6, <1>11, <1>12 DEF ball, StaysNear

\* The queue has everything that is as near as its next node: what is nearer was
\* visited, and its neighbors are there.
LEMMA VisitWhole ==
    ASSUME NEW R, NEW lineage, NEW root \in R, NEW M \in Nat, NEW n \in Nat, NEW s,
           AtVisit(R, lineage, Balls(lineage, root, M), M, root, n, s), s.frontier # <<>>,
           NEW r, NEW q, Visited(R, lineage, M, s, r, q), ~r.truncated
    PROVE  AllSoFar(lineage, Balls(lineage, root, M), M, r)
<1> DEFINE ball == Balls(lineage, root, M)
           node == Head(s.frontier)
           rest == Tail(s.frontier)
           old == s.nodes \cup ToSet(s.frontier)
           found == r.nodes \cup ToSet(r.frontier)
<1>1. /\ Sound(R, lineage, Queued(R), s)
      /\ \A x \in s.queued : \E p \in old : p.ref = x
      /\ \A p \in old : p.ref \in Sphere(ball, p.depth)
      /\ \A p \in s.nodes : p.depth < M => At(lineage, {p.ref}) \subseteq s.edges
      /\ Ordered(s.frontier)
      /\ ball[node.depth] \subseteq s.queued
  <2>1. ~s.truncated
    BY DEF Visited
  <2> QED
    BY <2>1 DEF AtVisit, AllSoFar
<1>2. /\ Sound(R, lineage, Queued(R), r)
      /\ r.nodes = s.nodes \cup {node}
      /\ q \in Seq(Queued(R)) /\ r.frontier = rest \o q
      /\ \A k \in DOMAIN q : q[k].depth = node.depth + 1
      /\ {p.ref : p \in ToSet(q)} = r.queued \ s.queued /\ s.queued \subseteq r.queued
      /\ s.edges \subseteq r.edges
      /\ node.depth < M => At(lineage, {node.ref}) \subseteq r.edges
  BY DEF Visited
<1>3. /\ found = old \cup ToSet(q)
      /\ \A p \in found : p.depth \in 0..M /\ p.ref \in r.queued /\ p.ref \in ball[p.depth]
  <2>1. StaysNear(lineage, ball, M, s, r, q)
    BY VisitNear
  <2> HIDE DEF ball, node, rest
  <2> QED
    BY <2>1 DEF StaysNear
<1>4. s.frontier \in Seq(Queued(R)) /\ s.frontier # <<>>
  BY <1>1 DEF Sound, Answers
<1>5. /\ Ordered(r.frontier)
      /\ \A p \in ToSet(r.frontier) : node.depth <= p.depth /\ p.depth <= node.depth + 1
      /\ r.frontier # <<>> => /\ Head(r.frontier) \in ToSet(r.frontier)
                              /\ \A p \in ToSet(r.frontier) : Head(r.frontier).depth <= p.depth
  <2>1. QueueAfter(node, rest \o q)
    BY <1>1, <1>2, <1>4, OrderedNext
  <2>2. QueueAfter(node, r.frontier)
    <3> HIDE DEF node, rest
    <3> QED
      BY <1>2, <2>1
  <2> HIDE DEF node
  <2> QED
    BY <2>2 DEF QueueAfter
<1>6. node \in found /\ node.depth \in 0..M
  BY <1>2, <1>3
<1> HIDE DEF ball, node, rest, old, found
<1>7. ASSUME NEW x \in r.queued PROVE \E p \in found : p.ref = x
  <2>1. CASE x \in s.queued
    BY <1>1, <1>3, <2>1
  <2>2. CASE x \notin s.queued
    <3>1. PICK p \in ToSet(q) : p.ref = x
      BY <1>2, <2>2
    <3> QED
      BY <1>3, <3>1
  <2> QED
    BY <2>1, <2>2
<1>8. ASSUME NEW p \in found PROVE p.ref \in Sphere(ball, p.depth)
  <2>1. CASE p \in old
    BY <1>1, <2>1
  <2>2. CASE p \in ToSet(q)
    <3>1. PICK k \in DOMAIN q : p = q[k]
      BY <2>2 DEF ToSet
    <3>2. p.depth = node.depth + 1 /\ p.ref \notin s.queued
      BY <1>2, <2>2, <3>1
    <3>3. p.ref \notin ball[node.depth] /\ p.depth # 0 /\ p.depth - 1 = node.depth
      BY <1>1, <1>6, <3>2
    <3> QED
      BY <1>3, <3>3 DEF Sphere
  <2> QED
    BY <1>3, <2>1, <2>2
<1>9. ASSUME NEW p \in r.nodes, p.depth < M PROVE At(lineage, {p.ref}) \subseteq r.edges
  BY <1>1, <1>2, <1>9
<1>10. ASSUME r.frontier # <<>> PROVE ball[Head(r.frontier).depth] \subseteq r.queued
  <2> DEFINE next == Head(r.frontier)
  <2>1. next \in found /\ next.depth \in 0..M /\ node.depth <= next.depth /\ next.depth <= node.depth + 1
    BY <1>3, <1>5, <1>10 DEF found
  <2>2. \A p \in ToSet(r.frontier) : next.depth <= p.depth
    BY <1>5, <1>10
  <2> HIDE DEF next
  <2>3. CASE next.depth = node.depth
    BY <1>1, <1>2, <2>3 DEF next
  <2>4. CASE next.depth = node.depth + 1
    <3>1. node.depth \in 0..(M - 1) /\ node.depth < M
      BY <1>6, <2>1, <2>4
    <3>2. ball[next.depth] = ball[node.depth] \cup Around(lineage, ball[node.depth])
      BY <2>4, <3>1, BallsAre DEF ball
    <3>3. ASSUME NEW x \in ball[node.depth] PROVE At(lineage, {x}) \subseteq r.edges
      <4>1. PICK p \in old : p.ref = x
        BY <1>1
      <4>2. p \in found /\ p.depth \in 0..M /\ p.ref \in Sphere(ball, p.depth)
        BY <1>1, <1>3
      <4>3. p.depth <= node.depth
        BY <1>6, <3>3, <4>1, <4>2, Distances DEF ball
      <4>4. p \notin ToSet(r.frontier)
        BY <1>6, <2>2, <2>4, <4>2, <4>3
      <4>5. p \in r.nodes
        BY <4>2, <4>4 DEF found
      <4>6. p.depth < M
        BY <3>1, <4>2, <4>3
      <4> QED
        BY <1>9, <4>1, <4>5, <4>6
    <3>4. At(lineage, ball[node.depth]) \subseteq r.edges
      <4> SUFFICES ASSUME NEW e \in ToSet(lineage), Touching(ball[node.depth], e) PROVE e \in r.edges
        BY DEF At
      <4>1. PICK x \in ball[node.depth] : Touching({x}, e)
        BY DEF Touching
      <4>2. e \in At(lineage, {x})
        BY <4>1 DEF At
      <4> QED
        BY <3>3, <4>2
    <3>5. \A e \in r.edges : Ends(e) \subseteq r.queued
      BY <1>2 DEF Sound
    <3>6. Around(lineage, ball[node.depth]) \subseteq r.queued
      BY <3>4, <3>5, Zenon DEF Around
    <3> QED
      BY <1>1, <1>2, <3>2, <3>6 DEF next
  <2> QED
    BY <1>6, <2>1, <2>3, <2>4
<1> QED
  BY <1>5, <1>7, <1>8, <1>9, <1>10 DEF ball, found, AllSoFar

\* A visit keeps what holds at a visit.
LEMMA VisitStep ==
    ASSUME NEW R, NEW lineage, NEW root \in R, NEW M \in Nat, NEW n \in Nat, NEW s,
           AtVisit(R, lineage, Balls(lineage, root, M), M, root, n, s), s.frontier # <<>>,
           NEW r, NEW q, Visited(R, lineage, M, s, r, q)
    PROVE  AtVisit(R, lineage, Balls(lineage, root, M), M, root, n + 1, r)
<1> DEFINE ball == Balls(lineage, root, M)
           node == Head(s.frontier)
           rest == Tail(s.frontier)
<1>1. StaysNear(lineage, ball, M, s, r, q)
  BY VisitNear
<1>2. ~r.truncated => AllSoFar(lineage, ball, M, r)
  BY VisitWhole
<1> HIDE DEF ball
<1>3. /\ Sound(R, lineage, Queued(R), r) /\ ~r.missing
      /\ r.nodes = s.nodes \cup {node}
      /\ q \in Seq(Queued(R)) /\ r.frontier = rest \o q
      /\ s.queued \subseteq r.queued
      /\ Len(q) + Cardinality(s.queued) = Cardinality(r.queued)
  BY DEF Visited
<1>4. /\ Sound(R, lineage, Queued(R), s)
      /\ IsFiniteSet(s.nodes) /\ Cardinality(s.nodes) <= n
      /\ n + Len(s.frontier) = Cardinality(s.queued)
      /\ root \in s.queued
  BY DEF AtVisit
<1>5. s.frontier \in Seq(Queued(R))
  BY <1>4 DEF Sound, Answers
<1>6. rest \in Seq(Queued(R)) /\ Len(rest) = Len(s.frontier) - 1 /\ Len(s.frontier) \in Nat
  BY <1>5
<1>7. (n + 1) + Len(r.frontier) = Cardinality(r.queued)
  <2>1. Len(r.frontier) = Len(rest) + Len(q)
    <3>1. \A u, v \in Seq(Queued(R)) : Len(u \o v) = Len(u) + Len(v)
      OBVIOUS
    <3> HIDE DEF rest
    <3> QED
      BY <1>3, <1>6, <3>1
  <2>2. Len(q) \in Nat
    BY <1>3
  <2> DEFINE a == Len(s.frontier)
             b == Len(q)
             c == Cardinality(s.queued)
             d == Cardinality(r.queued)
             e == Len(r.frontier)
  <2>3. a \in Nat /\ b \in Nat /\ e = (a - 1) + b /\ b + c = d /\ n + a = c
    BY <1>3, <1>4, <1>6, <2>1, <2>2
  <2>4. (n + 1) + e = d
    <3> HIDE DEF a, b, c, d, e
    <3> QED
      BY <2>3
  <2> QED
    BY <2>4
<1>8. IsFiniteSet(r.nodes) /\ Cardinality(r.nodes) <= n + 1
  <2> HIDE DEF node
  <2>1. IsFiniteSet(s.nodes \cup {node}) /\ Cardinality(s.nodes \cup {node}) <= Cardinality(s.nodes) + 1
    <3>1. /\ IsFiniteSet(s.nodes \cup {node}) /\ Cardinality(s.nodes) \in Nat
          /\ Cardinality(s.nodes \cup {node}) =
                 IF node \in s.nodes THEN Cardinality(s.nodes) ELSE Cardinality(s.nodes) + 1
      BY <1>4, FS_AddElement, FS_CardinalityType
    <3> QED
      BY <3>1
  <2>2. Cardinality(s.nodes) \in Nat /\ Cardinality(s.nodes \cup {node}) \in Nat
    BY <1>4, <2>1, FS_CardinalityType
  <2> QED
    BY <1>3, <1>4, <2>1, <2>2
<1>9. /\ \A p \in r.nodes \cup ToSet(r.frontier) :
             p.depth <= M /\ p.ref \in r.queued /\ p.ref \in ball[p.depth]
      /\ r.edges \subseteq Near(lineage, ball, M)
  BY <1>1 DEF StaysNear
<1>10. root \in r.queued
  BY <1>3, <1>4
<1>11. AtVisit(R, lineage, ball, M, root, n + 1, r)
  BY <1>2, <1>3, <1>7, <1>8, <1>9, <1>10, Zenon DEF AtVisit
<1> QED
  BY <1>11 DEF ball

\* The neighbors of a node as they join the queue.
LEMMA PlacedAre ==
    ASSUME NEW R, NEW next \in Seq(R), NEW depth \in Nat
    PROVE  LET placed == [k \in DOMAIN next |-> [ref |-> next[k], depth |-> depth + 1]] IN
           /\ placed \in Seq(Queued(R)) /\ Len(placed) = Len(next)
           /\ \A k \in DOMAIN placed : placed[k].depth = depth + 1
           /\ {p.ref : p \in ToSet(placed)} = ToSet(next)
<1> DEFINE placed == [k \in DOMAIN next |-> [ref |-> next[k], depth |-> depth + 1]]
<1>1. DOMAIN next = 1..Len(next) /\ Len(next) \in Nat
  OBVIOUS
<1>2. \A k \in 1..Len(next) : next[k] \in R
  OBVIOUS
<1>3. placed \in [1..Len(next) -> Queued(R)]
  BY <1>1, <1>2 DEF Queued
<1>4. placed \in Seq(Queued(R)) /\ DOMAIN placed = 1..Len(next)
  <2> HIDE DEF placed
  <2> QED
    BY <1>1, <1>3
<1>5. Len(placed) = Len(next)
  <2> HIDE DEF placed
  <2> QED
    BY <1>1, <1>4, LenProperties
<1>6. \A k \in DOMAIN placed : placed[k].depth = depth + 1 /\ placed[k].ref = next[k]
  BY <1>1
<1>7. {p.ref : p \in ToSet(placed)} = ToSet(next)
  <2>1. DOMAIN placed = DOMAIN next
    BY <1>1, <1>4
  <2> HIDE DEF placed
  <2> QED
    BY <1>6, <2>1 DEF ToSet
<1> HIDE DEF placed
<1> QED
  BY <1>4, <1>5, <1>6, <1>7 DEF placed

\* A node that leads no further: at the full depth, or when no edges are left.
LEMMA VisitLast ==
    ASSUME NEW R, NEW lineage, NEW M \in Nat, NEW s,
           Sound(R, lineage, Queued(R), s), ~s.missing, s.frontier # <<>>,
           Head(s.frontier).ref \in s.queued,
           NEW used \in BOOLEAN, Head(s.frontier).depth < M => used
    PROVE  LET loaded == [LoadTraceNode(R, s, Head(s.frontier)) EXCEPT !.frontier = Tail(@)] IN
           Visited(R, lineage, M, s, [loaded EXCEPT !.truncated = @ \/ used], <<>>)
<1> DEFINE node == Head(s.frontier)
           loaded == [LoadTraceNode(R, s, node) EXCEPT !.frontier = Tail(@)]
           r == [loaded EXCEPT !.truncated = @ \/ used]
<1>1. /\ node \in Queued(R)
      /\ Sound(R, lineage, Queued(R), loaded) /\ ~loaded.missing
      /\ loaded.nodes = s.nodes \cup {node} /\ loaded.frontier = Tail(s.frontier)
      /\ loaded.edges = s.edges /\ loaded.queued = s.queued /\ loaded.truncated = s.truncated
  <2>1. TakenFrom(R, lineage, s, loaded)
    BY LoadNode
  <2> HIDE DEF loaded
  <2> QED
    BY <2>1 DEF TakenFrom
<1> HIDE DEF loaded
<1>2. /\ r \in Answers(R, lineage, Queued(R)) /\ r.missing = loaded.missing /\ r.nodes = loaded.nodes
      /\ r.edges = loaded.edges /\ r.queued = loaded.queued /\ r.frontier = loaded.frontier
      /\ ~r.truncated => ~loaded.truncated /\ ~used
  BY <1>1 DEF Sound, Answers
<1> HIDE DEF r
<1>3. Sound(R, lineage, Queued(R), r)
  BY <1>1, <1>2 DEF Sound
<1>4. /\ <<>> \in Seq(Queued(R)) /\ DOMAIN (<<>>) = {} /\ ToSet(<<>>) = {} /\ Len(<<>>) = 0
      /\ Tail(s.frontier) = Tail(s.frontier) \o <<>>
  <2>1. s.frontier \in Seq(Queued(R))
    BY DEF Sound, Answers
  <2>2. Tail(s.frontier) \in Seq(Queued(R))
    BY <2>1
  <2> QED
    BY <2>2, Elements
<1>5. 0 + Cardinality(s.queued) = Cardinality(s.queued)
  BY FS_CardinalityType DEF Sound
<1>6. node.depth < M \/ (<<>> = <<>> /\ r.edges = s.edges)
  BY <1>1, <1>2
<1>7. ~r.truncated => ~s.truncated /\ (node.depth < M => At(lineage, {node.ref}) \subseteq r.edges)
  BY <1>1, <1>2
<1>8. {p.ref : p \in ToSet(<<>>)} = r.queued \ s.queued
  BY <1>1, <1>2, <1>4
<1>9. Visited(R, lineage, M, s, r, <<>>)
  BY <1>1, <1>2, <1>3, <1>4, <1>5, <1>6, <1>7, <1>8 DEF Visited
<1> QED
  BY <1>9 DEF r, loaded

\* A node whose neighbors are looked up.
LEMMA VisitNext ==
    ASSUME NEW R, NEW lineage, lineage \in Seq(ToSet(lineage)), Between(lineage, R),
           NEW M \in Nat, NEW s,
           Sound(R, lineage, Queued(R), s), ~s.missing, s.frontier # <<>>,
           Head(s.frontier).depth < M, Head(s.frontier).ref \in s.queued
    PROVE  LET node   == Head(s.frontier)
               loaded == [LoadTraceNode(R, s, node) EXCEPT !.frontier = Tail(@)]
               found  == EdgesAt(lineage, {node.ref})
               after  == IncludeEdges(lineage, found.places, loaded)
               placed == [k \in DOMAIN after.next |-> [ref |-> after.next[k], depth |-> node.depth + 1]]
           IN Visited(R, lineage, M, s,
                      [after EXCEPT !.frontier = @ \o placed, !.truncated = @ \/ found.truncated],
                      placed)
<1> DEFINE node   == Head(s.frontier)
           rest   == Tail(s.frontier)
           loaded == [LoadTraceNode(R, s, node) EXCEPT !.frontier = Tail(@)]
           found  == EdgesAt(lineage, {node.ref})
           after  == IncludeEdges(lineage, found.places, loaded)
           placed == [k \in DOMAIN after.next |-> [ref |-> after.next[k], depth |-> node.depth + 1]]
           r == [after EXCEPT !.frontier = @ \o placed, !.truncated = @ \/ found.truncated]
<1>1. /\ node \in Queued(R)
      /\ Sound(R, lineage, Queued(R), loaded) /\ ~loaded.missing
      /\ loaded.nodes = s.nodes \cup {node} /\ loaded.frontier = rest
      /\ loaded.edges = s.edges /\ loaded.queued = s.queued /\ loaded.truncated = s.truncated
  <2>1. TakenFrom(R, lineage, s, loaded)
    BY LoadNode
  <2> HIDE DEF loaded
  <2> QED
    BY <2>1 DEF TakenFrom
<1>2. node.depth \in Nat /\ rest \in Seq(Queued(R))
  <2>1. s.frontier \in Seq(Queued(R))
    BY DEF Sound, Answers
  <2>2. node.depth \in Nat
    <3> HIDE DEF node
    <3> QED
      BY <1>1 DEF Queued
  <2> QED
    BY <2>1, <2>2
<1>3. /\ Sound(R, lineage, Queued(R), after)
      /\ after.nodes = loaded.nodes /\ after.missing = loaded.missing /\ after.frontier = loaded.frontier
      /\ after.edges \subseteq loaded.edges \cup At(lineage, {node.ref})
      /\ loaded.edges \subseteq after.edges /\ loaded.queued \subseteq after.queued
      /\ after.queued \subseteq loaded.queued \cup Around(lineage, {node.ref})
      /\ ToSet(after.next) = after.queued \ loaded.queued
      /\ Len(after.next) + Cardinality(loaded.queued) = Cardinality(after.queued)
      /\ found.truncated \in BOOLEAN
      /\ loaded.truncated => after.truncated
      /\ ~after.truncated /\ ~found.truncated =>
             /\ At(lineage, {node.ref}) \subseteq after.edges
             /\ after.queued = loaded.queued \cup Around(lineage, {node.ref})
  <2>1. {node.ref} \in SUBSET loaded.queued
    <3> HIDE DEF loaded
    <3> QED
      BY <1>1
  <2> HIDE DEF node, loaded
  <2> QED
    BY <1>1, <2>1, Round DEF found, after
<1> HIDE DEF node, loaded, found, after, rest
<1>4. after.next \in Seq(R)
  BY <1>3 DEF Sound, Answers
<1>5. /\ placed \in Seq(Queued(R)) /\ Len(placed) = Len(after.next)
      /\ \A k \in DOMAIN placed : placed[k].depth = node.depth + 1
      /\ {p.ref : p \in ToSet(placed)} = ToSet(after.next)
  BY <1>2, <1>4, PlacedAre
<1> HIDE DEF placed
<1>6. /\ r \in Answers(R, lineage, Queued(R)) /\ r.missing = after.missing /\ r.nodes = after.nodes
      /\ r.edges = after.edges /\ r.queued = after.queued /\ r.frontier = rest \o placed
      /\ ~r.truncated => ~after.truncated /\ ~found.truncated
  <2>1. rest \o placed \in Seq(Queued(R))
    BY <1>2, <1>5
  <2>2. r = [after EXCEPT !.frontier = rest \o placed, !.truncated = @ \/ found.truncated]
    BY <1>1, <1>3 DEF Sound, Answers
  <2> HIDE DEF r
  <2>3. \A f \in Seq(Queued(R)) : r = [after EXCEPT !.frontier = f, !.truncated = @ \/ found.truncated] =>
            /\ r \in Answers(R, lineage, Queued(R)) /\ r.missing = after.missing /\ r.nodes = after.nodes
            /\ r.edges = after.edges /\ r.queued = after.queued /\ r.frontier = f
            /\ ~r.truncated => ~after.truncated /\ ~found.truncated
    BY <1>3 DEF Sound, Answers
  <2> QED
    BY <2>1, <2>2, <2>3
<1> HIDE DEF r
<1>7. Sound(R, lineage, Queued(R), r)
  BY <1>3, <1>6 DEF Sound
<1>8. ~r.truncated => ~s.truncated /\ At(lineage, {node.ref}) \subseteq r.edges
  BY <1>1, <1>3, <1>6
<1>9. Visited(R, lineage, M, s, r, placed)
  <2>1. r.frontier = Tail(s.frontier) \o placed /\ node = Head(s.frontier)
    BY <1>6 DEF rest, node
  <2>2. node.depth < M
    BY DEF node
  <2>3. /\ r.nodes = s.nodes \cup {node} /\ ~r.missing
        /\ s.queued \subseteq r.queued
        /\ s.edges \subseteq r.edges /\ r.edges \subseteq s.edges \cup At(lineage, {node.ref})
        /\ r.queued \subseteq s.queued \cup Around(lineage, {node.ref})
    BY <1>1, <1>3, <1>6
  <2>4. /\ {p.ref : p \in ToSet(placed)} = r.queued \ s.queued
        /\ Len(placed) + Cardinality(s.queued) = Cardinality(r.queued)
    BY <1>1, <1>3, <1>5, <1>6
  <2> QED
    BY <1>5, <1>7, <1>8, <2>1, <2>2, <2>3, <2>4, Zenon DEF Visited
<1> QED
  BY <1>9 DEF r, placed, after, found, loaded, node

\* A visit, of whatever is next.
LEMMA VisitKeeps ==
    ASSUME NEW R, NEW lineage, lineage \in Seq(ToSet(lineage)), Between(lineage, R),
           NEW root \in R, NEW M \in Nat, NEW n \in Nat, NEW s,
           AtVisit(R, lineage, Balls(lineage, root, M), M, root, n, s)
    PROVE  AtVisit(R, lineage, Balls(lineage, root, M), M, root, n + 1, Visit(R, lineage, M, s))
<1> DEFINE ball   == Balls(lineage, root, M)
           node   == Head(s.frontier)
           loaded == [LoadTraceNode(R, s, node) EXCEPT !.frontier = Tail(@)]
           used   == Cardinality(s.edges) >= MaxEdges
           found  == EdgesAt(lineage, {node.ref})
           after  == IncludeEdges(lineage, found.places, loaded)
           placed == [k \in DOMAIN after.next |-> [ref |-> after.next[k], depth |-> node.depth + 1]]
           last(u) == [loaded EXCEPT !.truncated = @ \/ u]
           further == [after EXCEPT !.frontier = @ \o placed, !.truncated = @ \/ found.truncated]
           r == Visit(R, lineage, M, s)
<1>1. /\ Sound(R, lineage, Queued(R), s) /\ ~s.missing
      /\ IsFiniteSet(s.nodes) /\ Cardinality(s.nodes) <= n
      /\ \A p \in s.nodes \cup ToSet(s.frontier) : p.ref \in s.queued
  BY DEF AtVisit
<1>2. CASE s.frontier = <<>>
  <2>1. r = s
    BY <1>2 DEF Visit
  <2>2. Cardinality(s.nodes) <= n + 1
    BY <1>1, FS_CardinalityType
  <2>3. AtVisit(R, lineage, ball, M, root, n + 1, s)
    <3> HIDE DEF ball
    <3> QED
      BY <1>2, <2>2 DEF AtVisit, ball
  <2> QED
    BY <2>1, <2>3
<1>3. CASE s.frontier # <<>>
  <2>1. node \in Queued(R) /\ node.depth \in Nat /\ node.ref \in s.queued
    <3>1. s.frontier \in Seq(Queued(R))
      BY <1>1 DEF Sound, Answers
    <3>2. node \in Queued(R) /\ node \in ToSet(s.frontier)
      BY <1>3, <3>1, Elements
    <3> HIDE DEF node
    <3> QED
      BY <1>1, <3>2 DEF Queued
  <2>2. TakenFrom(R, lineage, s, loaded)
    BY <1>1, <1>3, <2>1, LoadNode
  <2>3. \/ node.depth >= M /\ r = last(FALSE)
        \/ used /\ r = last(TRUE)
        \/ node.depth < M /\ r = further
    <3>1. loaded = [loaded EXCEPT !.truncated = @ \/ FALSE] /\ [loaded EXCEPT !.truncated = TRUE] = last(TRUE)
      <4> HIDE DEF loaded
      <4> QED
        BY <2>2 DEF TakenFrom, Sound, Answers
    <3>2. CASE node.depth >= M
      <4>1. r = loaded
        BY <1>3, <2>1, <3>2 DEF Visit
      <4> HIDE DEF r, loaded
      <4> QED
        BY <3>1, <3>2, <4>1
    <3>3. CASE node.depth < M /\ used
      <4>1. r = [loaded EXCEPT !.truncated = TRUE]
        BY <1>3, <2>1, <3>3 DEF Visit
      <4> HIDE DEF r, loaded
      <4> QED
        BY <3>1, <3>3, <4>1
    <3>4. CASE node.depth < M /\ ~used
      <4>1. r = further
        BY <1>3, <2>1, <3>4 DEF Visit
      <4> HIDE DEF r, further
      <4> QED
        BY <3>4, <4>1
    <3> QED
      BY <2>1, <3>2, <3>3, <3>4
  <2>4. CASE node.depth >= M /\ r = last(FALSE)
    <3>1. FALSE \in BOOLEAN /\ (node.depth < M => FALSE)
      BY <2>1, <2>4
    <3>2. Sound(R, lineage, Queued(R), s) /\ ~s.missing
      BY <1>1
    <3>3. Visited(R, lineage, M, s, last(FALSE), <<>>)
      BY <1>3, <2>1, <3>1, <3>2, VisitLast
    <3> HIDE DEF r, last
    <3> QED
      BY <1>3, <2>4, <3>3, VisitStep DEF r
  <2>5. CASE used /\ r = last(TRUE)
    <3>1. Visited(R, lineage, M, s, last(TRUE), <<>>)
      BY <1>1, <1>3, <2>1, VisitLast
    <3> HIDE DEF r, last
    <3> QED
      BY <1>3, <2>5, <3>1, VisitStep DEF r
  <2>6. CASE node.depth < M /\ r = further
    <3>1. Visited(R, lineage, M, s, further, placed)
      <4>1. Sound(R, lineage, Queued(R), s) /\ ~s.missing
        BY <1>1
      <4>2. node.depth < M /\ node.ref \in s.queued
        BY <2>1, <2>6
      <4> QED
        BY <1>3, <4>1, <4>2, VisitNext, Zenon
    <3> HIDE DEF r, further, placed
    <3> QED
      BY <1>3, <2>6, <3>1, VisitStep DEF r
  <2> QED
    BY <2>3, <2>4, <2>5, <2>6
<1> QED
  BY <1>2, <1>3

\* The embedded kernel's answer is the neighborhood too, or says that it is truncated,
\* and it keeps to the limits of nodes and edges.
THEOREM EmbeddedExplainTells ==
    ASSUME NEW R, NEW lineage, lineage \in Seq(ToSet(lineage)), Between(lineage, R),
           NEW root \in R, NEW M \in Nat
    PROVE  /\ Tells(EmbeddedExplain(R, lineage, root, M), lineage, root, M)
           /\ WithinLimits(EmbeddedExplain(R, lineage, root, M))
           /\ Cardinality(EmbeddedExplain(R, lineage, root, M).nodes) <= MaxNodes
<1> DEFINE ball == Balls(lineage, root, M)
           visit == Visits(R, lineage, root, M)
           Good == {n \in Nat : n <= MaxNodes => AtVisit(R, lineage, ball, M, root, n, visit[n])}
           told == visit[MaxNodes]
<1>1. /\ visit[0] = Search(root, [ref |-> root, depth |-> 0])
      /\ \A n \in 0..(MaxNodes - 1) : visit[n + 1] = Visit(R, lineage, M, visit[n])
  BY VisitsAre
<1> HIDE DEF visit
<1>2. 0 \in Good
  BY <1>1, AtFirstVisit
<1>3. ASSUME NEW n \in 0..(MaxNodes - 1), n \in Good PROVE n + 1 \in Good
  <2>1. n \in Nat /\ n <= MaxNodes /\ AtVisit(R, lineage, ball, M, root, n, visit[n])
    BY <1>3, ExplainAssumption
  <2>2. AtVisit(R, lineage, ball, M, root, n + 1, visit[n + 1])
    BY <1>1, <2>1, VisitKeeps
  <2> HIDE DEF ball
  <2> QED
    BY <2>1, <2>2
<1>4. AtVisit(R, lineage, ball, M, root, MaxNodes, told)
  <2>1. MaxNodes \in Good
    <3> HIDE DEF Good
    <3>1. MaxNodes \in Nat
      BY ExplainAssumption
    <3>2. 0..MaxNodes \subseteq Good
      BY <1>2, <1>3, <3>1, UpTo
    <3> QED
      BY <3>1, <3>2
  <2> HIDE DEF ball
  <2> QED
    BY <2>1, ExplainAssumption
<1>5. Neighborhood(lineage, root, M) = [nodes |-> Listed(ball, M + 1), edges |-> Near(lineage, ball, M)]
  <2>1. 0..((M + 1) - 1) = 0..M
    OBVIOUS
  <2> QED
    BY <2>1 DEF Neighborhood, Listed, Near, Sphere
<1>6. /\ \A d, e \in 0..M : \A x \in Sphere(ball, d) : x \in ball[e] => d <= e
      /\ \A d, e \in 0..M : \A x \in Sphere(ball, d) : x \in Sphere(ball, e) => d = e
  BY Distances
<1>7. ball[0] = {root} /\ \A d \in 0..(M - 1) : ball[d + 1] = ball[d] \cup Around(lineage, ball[d])
  BY BallsAre
<1>8. \A d \in 0..M : ball[d] \subseteq ball[M]
  BY BallsGrow
<1> HIDE DEF ball, told
<1>9. /\ Sound(R, lineage, Queued(R), told) /\ ~told.missing
      /\ Cardinality(told.nodes) <= MaxNodes
      /\ root \in told.queued
      /\ \A p \in told.nodes : p.depth <= M
      /\ told.edges \subseteq Near(lineage, ball, M)
  BY <1>4 DEF AtVisit
<1>10. told.frontier = <<>>
  <2> SUFFICES ASSUME told.frontier # <<>> PROVE FALSE
    OBVIOUS
  <2>1. MaxNodes + Len(told.frontier) = Cardinality(told.queued) /\ Cardinality(told.queued) <= MaxNodes
    BY <1>4 DEF AtVisit, Sound
  <2>2. told.frontier \in Seq(Queued(R))
    BY <1>9 DEF Sound, Answers
  <2>3. Len(told.frontier) \in Nat /\ Len(told.frontier) # 0
    BY <2>2
  <2> QED
    BY <2>1, <2>3, ExplainAssumption
<1>11. ASSUME ~told.truncated
       PROVE  told.nodes = Listed(ball, M + 1) /\ told.edges = Near(lineage, ball, M)
  <2>1. /\ \A x \in told.queued : \E p \in told.nodes : p.ref = x
        /\ \A p \in told.nodes : p.ref \in Sphere(ball, p.depth)
        /\ \A p \in told.nodes : p.depth < M => At(lineage, {p.ref}) \subseteq told.edges
    <3>1. AllSoFar(lineage, ball, M, told) /\ ToSet(told.frontier) = {}
      BY <1>4, <1>10, <1>11, Elements DEF AtVisit
    <3> QED
      BY <3>1 DEF AllSoFar
  <2>2. \A p \in told.nodes : p = [ref |-> p.ref, depth |-> p.depth] /\ p.depth \in 0..M
    <3>1. told.nodes \subseteq [ref : R, depth : Nat]
      BY <1>9 DEF Sound, Answers
    <3> QED
      BY <1>9, <3>1
  <2>3. ASSUME NEW d \in 0..(M - 1), ball[d] \subseteq told.queued
        PROVE  At(lineage, ball[d]) \subseteq told.edges
    <3> SUFFICES ASSUME NEW e \in ToSet(lineage), Touching(ball[d], e) PROVE e \in told.edges
      BY DEF At
    <3>1. PICK x \in ball[d] : Touching({x}, e)
      BY DEF Touching
    <3>2. PICK p \in told.nodes : p.ref = x
      BY <2>1, <2>3
    <3>3. p.depth \in 0..M /\ d \in 0..M /\ p.ref \in Sphere(ball, p.depth)
      BY <2>1, <2>2
    <3>4. p.depth <= d
      BY <1>6, <3>1, <3>2, <3>3
    <3>5. e \in At(lineage, {p.ref}) /\ p.depth < M
      BY <3>1, <3>2, <3>3, <3>4 DEF At
    <3> QED
      BY <2>1, <3>5
  <2>4. ball[M] \subseteq told.queued
    <3> DEFINE Reached == {d \in Nat : d <= M => ball[d] \subseteq told.queued}
    <3>1. 0 \in Reached
      BY <1>7, <1>9
    <3>2. ASSUME NEW d \in 0..(M - 1), d \in Reached PROVE d + 1 \in Reached
      <4>1. ball[d] \subseteq told.queued
        BY <3>2
      <4>2. At(lineage, ball[d]) \subseteq told.edges
        BY <2>3, <4>1
      <4>3. \A e \in told.edges : Ends(e) \subseteq told.queued
        BY <1>9 DEF Sound
      <4>4. Around(lineage, ball[d]) \subseteq told.queued
        BY <4>2, <4>3, Zenon DEF Around
      <4> QED
        BY <1>7, <4>1, <4>4
    <3>3. M \in Reached
      <4> HIDE DEF Reached
      <4>1. 0..M \subseteq Reached
        BY <3>1, <3>2, UpTo
      <4> QED
        BY <4>1
    <3> QED
      BY <3>3
  <2>5. told.nodes \subseteq Listed(ball, M + 1)
    <3> SUFFICES ASSUME NEW p \in told.nodes PROVE p \in Listed(ball, M + 1)
      OBVIOUS
    <3>1. p = [ref |-> p.ref, depth |-> p.depth] /\ p.depth \in 0..((M + 1) - 1) /\ p.ref \in Sphere(ball, p.depth)
      BY <2>1, <2>2
    <3> QED
      BY <3>1, ListedAre
  <2>6. Listed(ball, M + 1) \subseteq told.nodes
    <3> SUFFICES ASSUME NEW d \in 0..((M + 1) - 1), NEW x \in Sphere(ball, d)
                 PROVE  [ref |-> x, depth |-> d] \in told.nodes
      BY ListedAre
    <3>1. d \in 0..M /\ x \in ball[d]
      BY DEF Sphere
    <3>2. x \in told.queued
      BY <1>8, <2>4, <3>1
    <3>3. PICK p \in told.nodes : p.ref = x
      BY <2>1, <3>2
    <3>4. p.depth \in 0..M /\ x \in Sphere(ball, p.depth) /\ p = [ref |-> p.ref, depth |-> p.depth]
      BY <2>1, <2>2, <3>3
    <3>5. p.depth = d
      BY <1>6, <3>1, <3>4
    <3> QED
      BY <3>3, <3>4, <3>5
  <2>7. Near(lineage, ball, M) \subseteq told.edges
    <3>1. CASE M = 0
      BY <3>1 DEF Near
    <3>2. CASE M > 0
      <4>1. M - 1 \in 0..(M - 1) /\ M - 1 \in 0..M
        BY <3>2
      <4>2. ball[M - 1] \subseteq told.queued
        BY <1>8, <2>4, <4>1
      <4>3. At(lineage, ball[M - 1]) \subseteq told.edges
        BY <2>3, <4>1, <4>2
      <4>4. Near(lineage, ball, M) = At(lineage, ball[M - 1])
        BY <3>2 DEF Near, At
      <4> QED
        BY <4>3, <4>4
    <3> QED
      BY <3>1, <3>2
  <2> QED
    BY <1>9, <2>5, <2>6, <2>7
<1> DEFINE whole == Neighborhood(lineage, root, M)
<1>12. whole.nodes = Listed(ball, M + 1) /\ whole.edges = Near(lineage, ball, M)
  BY <1>5
<1>13. EmbeddedExplain(R, lineage, root, M) = told
  BY DEF EmbeddedExplain, visit, told
<1> HIDE DEF whole
<1>14. /\ ~told.missing
       /\ told.edges \subseteq whole.edges
       /\ ~told.truncated => told.nodes = whole.nodes /\ told.edges = whole.edges
  BY <1>9, <1>11, <1>12
<1> QED
  <2>1. WithinLimits(told)
    BY <1>9, Limits
  <2> QED
    BY <1>9, <1>13, <1>14, <2>1 DEF Tells, whole

=============================================================================
