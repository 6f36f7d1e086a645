------------------------ MODULE SnapshotIndexProofs ------------------------
(***************************************************************************)
(* Proofs that the projections of a snapshot are what they should be, for  *)
(* every finite set of nodes: the queue of DepthsOf empties with each node *)
(* one above its deepest dependency, Upward is closed, and the keys that   *)
(* RefreshLeanKeys leaves are the hashes of the present inputs.            *)
(***************************************************************************)
EXTENDS SnapshotIndex, FiniteSetTheorems, SequenceTheorems, WellFoundedInduction, TLAPS

(***************************************************************************)
(* Induction, by the least counterexample.                                 *)
(***************************************************************************)
LEMMA LeastMember ==
  ASSUME NEW n \in Nat, NEW T \in SUBSET (0 .. n), T # {}
  PROVE  \E k \in T : \A j \in T : k <= j
<1> DEFINE below == {0 .. k : k \in T}
<1>1. below \subseteq FiniteSubsetsOf(0 .. n)
  <2> SUFFICES ASSUME NEW k \in T PROVE 0 .. k \in FiniteSubsetsOf(0 .. n)
    OBVIOUS
  <2>1. k \in Int /\ 0 .. k \subseteq 0 .. n
    OBVIOUS
  <2>2. IsFiniteSet(0 .. k)
    BY <2>1, FS_Interval
  <2>3. QED
    BY <2>1, <2>2 DEF FiniteSubsetsOf
<1>2. below # {}
  OBVIOUS
<1>3. IsWellFoundedOn(StrictSubsetOrdering(0 .. n), FiniteSubsetsOf(0 .. n))
  BY FS_StrictSubsetOrderingWellFounded
<1> HIDE DEF below
<1>4. PICK x \in below : \A y \in below : ~ <<y, x>> \in StrictSubsetOrdering(0 .. n)
  BY <1>1, <1>2, <1>3, WFMin
<1>5. PICK k \in T : x = 0 .. k
  BY DEF below
<1>6. ASSUME NEW j \in T, ~ k <= j PROVE FALSE
  <2>1. 0 .. j \in below
    BY DEF below
  <2>2. j \in Nat /\ k \in Nat /\ j < k
    BY <1>6
  <2>3. 0 .. j \subseteq 0 .. k /\ k \in 0 .. k /\ k \notin 0 .. j
    BY <2>2
  <2>4. 0 .. j \subseteq 0 .. n /\ 0 .. k \subseteq 0 .. n
    OBVIOUS
  <2>5. <<0 .. j, 0 .. k>> \in StrictSubsetOrdering(0 .. n)
    BY <2>3, <2>4 DEF StrictSubsetOrdering
  <2>6. QED
    BY <1>4, <1>5, <2>1, <2>5
<1>7. QED
  BY <1>6

\* What holds of the first stage and passes from each to the next, holds of all.
LEMMA StageInduction ==
  ASSUME NEW n \in Nat, NEW P, 0 \in P,
         \A k \in 0 .. n : k < n /\ k \in P => k + 1 \in P
  PROVE  \A k \in 0 .. n : k \in P
<1> DEFINE T == (0 .. n) \ P
<1>1. ASSUME T # {} PROVE FALSE
  <2>1. T \in SUBSET (0 .. n)
    OBVIOUS
  <2> HIDE DEF T
  <2>2. PICK k \in T : \A j \in T : k <= j
    BY <1>1, <2>1, LeastMember
  <2>3. k \in 0 .. n /\ k \notin P /\ k # 0
    BY DEF T
  <2>4. k - 1 \in 0 .. n /\ k - 1 < n /\ ~ k <= k - 1 /\ k - 1 + 1 = k
    BY <2>3
  <2>5. k - 1 \in P
    BY <2>2, <2>4 DEF T
  <2>. QED
    BY <2>3, <2>4, <2>5
<1>. QED
  BY <1>1

LEMMA IdsFacts ==
  /\ IsFiniteSet(Ids) /\ Cardinality(Ids) \in Nat
  /\ \A S \in SUBSET Ids : /\ IsFiniteSet(S) /\ Cardinality(S) \in Nat
                           /\ Cardinality(S) <= Cardinality(Ids)
                           /\ Cardinality(S) = Cardinality(Ids) => S = Ids
<1>1. IsFiniteSet(Ids)
  BY NodeDataAssumption
<1>2. Cardinality(Ids) \in Nat
  BY <1>1, FS_CardinalityType
<1>3. ASSUME NEW S \in SUBSET Ids
      PROVE  /\ IsFiniteSet(S) /\ Cardinality(S) \in Nat
             /\ Cardinality(S) <= Cardinality(Ids)
             /\ Cardinality(S) = Cardinality(Ids) => S = Ids
  <2>1. IsFiniteSet(S)
    BY <1>1, FS_Subset
  <2>. QED
    BY <1>1, <2>1, FS_Subset, FS_CardinalityType
<1>. QED
  BY <1>1, <1>2, <1>3

(***************************************************************************)
(* A queue of distinct members.                                            *)
(***************************************************************************)
Lists(q, Q) ==
  /\ q \in Seq(Q)
  /\ \A a, b \in 1 .. Len(q) : q[a] = q[b] => a = b
  /\ \A x \in Q : \E a \in 1 .. Len(q) : q[a] = x

\* The enumeration of a finite set has each member once.
LEMMA Enumeration ==
  ASSUME NEW S, IsFiniteSet(S)
  PROVE  Lists(SetToSeq(S), S)
<1> DEFINE n == Cardinality(S)
           q == SetToSeq(S)
<1>1. n \in Nat /\ ExistsBijection(1 .. n, S)
  BY FS_CardinalityType
<1>2. PICK f : f \in Bijection(1 .. n, S)
  BY <1>1 DEF ExistsBijection
<1>3. f \in [1 .. n -> S] /\ IsInjective(f)
  BY <1>2 DEF Bijection, Injection
<1>4. q \in [1 .. n -> S] /\ IsInjective(q)
  BY <1>3 DEF SetToSeq
<1>5. q \in Injection(1 .. n, S)
  BY <1>4 DEF Injection
<1>6. Cardinality(1 .. n) = n /\ IsFiniteSet(1 .. n)
  <2>1. 1 \in Int /\ n \in Int /\ (1 > n => n = 0) /\ n - 1 + 1 = n
    BY <1>1
  <2>. QED
    BY <2>1, FS_Interval
<1>7. q \in Surjection(1 .. n, S)
  BY <1>5, <1>6, FS_Injection
<1> HIDE DEF q
<1>8. q \in Seq(S) /\ Len(q) = n
  BY <1>1, <1>4
<1>9. \A a, b \in 1 .. n : q[a] = q[b] => a = b
  BY <1>4 DEF IsInjective
<1>10. \A x \in S : \E a \in 1 .. n : q[a] = x
  BY <1>7 DEF Surjection
<1>. QED
  BY <1>8, <1>9, <1>10 DEF Lists, q

LEMMA ListedEmpty ==
  ASSUME NEW q, NEW Q, Lists(q, Q)
  PROVE  q = <<>> <=> Q = {}
<1>1. q \in Seq(Q) /\ Len(q) \in Nat
  BY DEF Lists
<1>2. ASSUME q = <<>> PROVE Q = {}
  BY <1>2 DEF Lists
<1>3. ASSUME q # <<>> PROVE Q # {}
  <2>1. Head(q) \in Q
    BY <1>1, <1>3
  <2>. QED
    BY <2>1
<1>. QED
  BY <1>2, <1>3

LEMMA ListedHead ==
  ASSUME NEW q, NEW Q, Lists(q, Q), q # <<>>
  PROVE  /\ Head(q) \in Q
         /\ Lists(Tail(q), Q \ {Head(q)})
<1> DEFINE x == Head(q)
           t == Tail(q)
<1>1. /\ q \in Seq(Q) /\ Len(q) \in Nat /\ Len(q) >= 1
      /\ x = q[1] /\ x \in Q
      /\ t \in Seq(Q) /\ Len(t) = Len(q) - 1
      /\ \A a \in 1 .. Len(t) : t[a] = q[a + 1]
  BY HeadTailProperties DEF Lists
<1>2. \A a, b \in 1 .. Len(q) : q[a] = q[b] => a = b
  BY DEF Lists
<1> HIDE DEF x, t
<1>3. \A a \in 1 .. Len(t) : t[a] \in Q \ {x}
  <2> TAKE a \in 1 .. Len(t)
  <2>1. a + 1 \in 1 .. Len(q) /\ 1 \in 1 .. Len(q) /\ a + 1 # 1
    BY <1>1
  <2>2. q[a + 1] \in Q /\ q[a + 1] # q[1]
    BY <1>1, <1>2, <2>1
  <2>. QED
    BY <1>1, <2>2
<1>4. t \in Seq(Q \ {x})
  <2>1. t = [a \in 1 .. Len(t) |-> t[a]] /\ Len(t) \in Nat
    BY <1>1
  <2>2. t \in [1 .. Len(t) -> Q \ {x}]
    BY <1>3, <2>1
  <2>. QED
    BY <2>1, <2>2
<1>5. \A a, b \in 1 .. Len(t) : t[a] = t[b] => a = b
  <2> TAKE a, b \in 1 .. Len(t)
  <2>1. a + 1 \in 1 .. Len(q) /\ b + 1 \in 1 .. Len(q)
    BY <1>1
  <2>. QED
    BY <1>1, <1>2, <2>1
<1>6. \A y \in Q \ {x} : \E a \in 1 .. Len(t) : t[a] = y
  <2> TAKE y \in Q \ {x}
  <2>1. PICK a \in 1 .. Len(q) : q[a] = y
    BY DEF Lists
  <2>2. a # 1
    BY <1>1, <2>1
  <2>3. a - 1 \in 1 .. Len(t) /\ a - 1 + 1 = a
    BY <1>1, <2>1, <2>2
  <2>. QED
    BY <1>1, <2>1, <2>3
<1>. QED
  BY <1>1, <1>4, <1>5, <1>6 DEF Lists, x, t

LEMMA ListedTogether ==
  ASSUME NEW q, NEW Q, Lists(q, Q), NEW r, NEW R, Lists(r, R), Q \cap R = {}
  PROVE  Lists(q \o r, Q \cup R)
<1> DEFINE c == q \o r
<1>1. /\ q \in Seq(Q) /\ Len(q) \in Nat /\ r \in Seq(R) /\ Len(r) \in Nat
      /\ \A a \in 1 .. Len(q) : q[a] \in Q
      /\ \A a \in 1 .. Len(r) : r[a] \in R
  BY DEF Lists
<1>2. q \in Seq(Q \cup R) /\ r \in Seq(Q \cup R)
  BY <1>1, SeqMonotonic
<1>3. /\ c \in Seq(Q \cup R) /\ Len(c) = Len(q) + Len(r)
      /\ \A a \in 1 .. Len(q) : c[a] = q[a]
      /\ \A a \in 1 .. Len(r) : c[Len(q) + a] = r[a]
  BY <1>1, <1>2
<1> HIDE DEF c
<1>4. \A a \in 1 .. Len(c) : \/ a \in 1 .. Len(q) /\ c[a] = q[a]
                             \/ a - Len(q) \in 1 .. Len(r) /\ c[a] = r[a - Len(q)]
  <2> TAKE a \in 1 .. Len(c)
  <2>1. CASE a <= Len(q)
    <3>1. a \in 1 .. Len(q)
      BY <1>1, <1>3, <2>1
    <3>. QED
      BY <1>3, <3>1
  <2>2. CASE ~ a <= Len(q)
    <3>1. a - Len(q) \in 1 .. Len(r) /\ Len(q) + (a - Len(q)) = a
      BY <1>1, <1>3, <2>2
    <3>. QED
      BY <1>3, <3>1
  <2>. QED
    BY <2>1, <2>2
<1>5. ASSUME NEW a \in 1 .. Len(c), NEW b \in 1 .. Len(c), c[a] = c[b]
      PROVE  a = b
  <2>1. CASE a \in 1 .. Len(q) /\ c[a] = q[a]
    <3>1. b \in 1 .. Len(q) /\ c[b] = q[b]
      BY <1>1, <1>4, <1>5, <2>1
    <3>. QED
      BY <1>5, <2>1, <3>1 DEF Lists
  <2>2. CASE a - Len(q) \in 1 .. Len(r) /\ c[a] = r[a - Len(q)]
    <3>1. b - Len(q) \in 1 .. Len(r) /\ c[b] = r[b - Len(q)]
      BY <1>1, <1>4, <1>5, <2>2
    <3>2. a - Len(q) = b - Len(q)
      BY <1>5, <2>2, <3>1 DEF Lists
    <3>. QED
      BY <1>1, <1>3, <3>2
  <2>. QED
    BY <1>4, <2>1, <2>2
<1>6. ASSUME NEW x \in Q \cup R
      PROVE  \E a \in 1 .. Len(c) : c[a] = x
  <2>1. CASE x \in Q
    <3>1. PICK a \in 1 .. Len(q) : q[a] = x
      BY <2>1 DEF Lists
    <3>2. a \in 1 .. Len(c)
      BY <1>1, <1>3
    <3>. QED
      BY <1>3, <3>1, <3>2
  <2>2. CASE x \in R
    <3>1. PICK a \in 1 .. Len(r) : r[a] = x
      BY <2>2 DEF Lists
    <3>2. Len(q) + a \in 1 .. Len(c)
      BY <1>1, <1>3
    <3>. QED
      BY <1>3, <3>1, <3>2
  <2>. QED
    BY <2>1, <2>2
<1>. QED
  BY <1>3, <1>5, <1>6 DEF Lists, c

-----------------------------------------------------------------------------
(***************************************************************************)
(* The depths.  D is the set of nodes that have left the queue.            *)
(***************************************************************************)
Ready(nodes, D) == {i \in Live(nodes) \ D : nodes[i].deps \subseteq D}

Remaining(nodes, D) ==
  [i \in Ids |-> IF nodes[i] = NoNode THEN 0 ELSE Cardinality(nodes[i].deps \ D)]

\* The height of node i is one above the deepest of its dependencies in D.
HeightRight(nodes, height, D, i) ==
  /\ \A d \in nodes[i].deps \cap D : height[d] < height[i]
  /\ height[i] > 0 => \E d \in nodes[i].deps \cap D : height[i] = height[d] + 1

DepthsRight(nodes, s, D) ==
  /\ D \subseteq Live(nodes)
  /\ \A i \in D : nodes[i].deps \subseteq D
  /\ Lists(s.queue, Ready(nodes, D))
  /\ s.remaining = Remaining(nodes, D)
  /\ s.height \in [Ids -> 0 .. Cardinality(D)]
  /\ \A i \in Live(nodes) : HeightRight(nodes, s.height, D, i)

LEMMA LiveFacts ==
  ASSUME NEW nodes \in Graph
  PROVE  /\ Live(nodes) \subseteq Ids
         /\ \A i \in Live(nodes) : /\ nodes[i] \in Node /\ nodes[i] # NoNode
                                   /\ nodes[i].deps \subseteq Ids
                                   /\ nodes[i].name \in Names
BY DEF Live, Graph, Node

\* all_topo_depths before its loop.
LEMMA FirstDepthsRight ==
  ASSUME NEW nodes \in Graph, Closed(nodes)
  PROVE  DepthsRight(nodes, FirstDepths(nodes), {})
<1> DEFINE s == FirstDepths(nodes)
           leaves == {i \in Live(nodes) : nodes[i].deps \cap Live(nodes) = {}}
<1>1. /\ s.height = [i \in Ids |-> 0]
      /\ s.remaining = [i \in Ids |-> IF nodes[i] = NoNode THEN 0
                                      ELSE Cardinality(nodes[i].deps \cap Live(nodes))]
      /\ s.queue = SetToSeq(leaves)
  BY DEF FirstDepths
<1> HIDE DEF s
<1>2. \A i \in Live(nodes) : nodes[i].deps \cap Live(nodes) = nodes[i].deps
  BY DEF Closed
<1>3. leaves = Ready(nodes, {})
  BY <1>2 DEF Ready
<1>4. IsFiniteSet(Ready(nodes, {}))
  BY LiveFacts, IdsFacts DEF Ready
<1>5. Lists(s.queue, Ready(nodes, {}))
  BY <1>1, <1>3, <1>4, Enumeration
<1>6. s.remaining = Remaining(nodes, {})
  <2>1. \A i \in Ids : nodes[i] # NoNode =>
          nodes[i].deps \cap Live(nodes) = nodes[i].deps \ {}
    BY <1>2 DEF Live
  <2>. QED
    BY <1>1, <2>1 DEF Remaining
<1>7. Cardinality({}) = 0
  BY FS_EmptySet
<1>8. s.height \in [Ids -> 0 .. Cardinality({})]
  BY <1>1, <1>7
<1>9. \A i \in Live(nodes) : HeightRight(nodes, s.height, {}, i)
  BY <1>1 DEF HeightRight, Live
<1>. QED
  BY <1>5, <1>6, <1>8, <1>9 DEF DepthsRight, s

\* One round of the loop of all_topo_depths.
LEMMA PopDepthsRight ==
  ASSUME NEW nodes \in Graph, NEW s, NEW D, DepthsRight(nodes, s, D),
         s.queue # <<>>
  PROVE  /\ Head(s.queue) \notin D
         /\ DepthsRight(nodes, PopDepths(nodes, s), D \cup {Head(s.queue)})
<1> DEFINE x == Head(s.queue)
           E == D \cup {x}
           t == PopDepths(nodes, s)
           parents == {j \in Live(nodes) : x \in nodes[j].deps}
           left == [i \in Ids |-> IF i \in parents THEN s.remaining[i] - 1
                                  ELSE s.remaining[i]]
           free == {i \in parents : left[i] = 0}
           lifted == [i \in Ids |-> IF i \in parents /\ s.height[i] <= s.height[x]
                                    THEN s.height[x] + 1 ELSE s.height[i]]
<1>1. /\ D \subseteq Live(nodes) /\ \A i \in D : nodes[i].deps \subseteq D
      /\ Lists(s.queue, Ready(nodes, D))
      /\ s.remaining = Remaining(nodes, D)
      /\ s.height \in [Ids -> 0 .. Cardinality(D)]
      /\ \A i \in Live(nodes) : HeightRight(nodes, s.height, D, i)
  BY DEF DepthsRight
<1>2. x \in Ready(nodes, D) /\ Lists(Tail(s.queue), Ready(nodes, D) \ {x})
  BY <1>1, ListedHead
<1>3. x \in Live(nodes) /\ x \in Ids /\ x \notin D /\ nodes[x].deps \subseteq D
  BY <1>2, LiveFacts DEF Ready
<1>4. /\ t.height = lifted /\ t.remaining = left
      /\ t.queue = Tail(s.queue) \o SetToSeq(free)
  BY <1>3, Zenon DEF PopDepths, ReferrersOf
<1> HIDE DEF x, t
<1>5. E \subseteq Live(nodes) /\ \A i \in E : nodes[i].deps \subseteq E
  BY <1>1, <1>3
<1>6. left = Remaining(nodes, E)
  <2>1. ASSUME NEW i \in Ids
        PROVE  left[i] = IF nodes[i] = NoNode THEN 0 ELSE Cardinality(nodes[i].deps \ E)
    <3>1. CASE nodes[i] = NoNode
      <4>1. i \notin parents
        BY <3>1 DEF Live
      <4>. QED
        BY <1>1, <3>1, <4>1 DEF Remaining
    <3>2. CASE nodes[i] # NoNode
      <4>1. i \in Live(nodes) /\ nodes[i].deps \subseteq Ids
        BY <3>2, LiveFacts DEF Live
      <4>2. /\ IsFiniteSet(nodes[i].deps \ D)
            /\ (nodes[i].deps \ D) \ {x} = nodes[i].deps \ E
            /\ Cardinality(nodes[i].deps \ D) \in Nat
        BY <4>1, IdsFacts
      <4>3. Cardinality(nodes[i].deps \ E) =
              IF x \in nodes[i].deps \ D THEN Cardinality(nodes[i].deps \ D) - 1
              ELSE Cardinality(nodes[i].deps \ D)
        BY <4>2, FS_RemoveElement
      <4>4. s.remaining[i] = Cardinality(nodes[i].deps \ D)
        BY <1>1, <3>2 DEF Remaining
      <4>. QED
        BY <1>3, <3>2, <4>1, <4>3, <4>4
    <3>. QED
      BY <3>1, <3>2
  <2>. QED
    BY <2>1 DEF Remaining
<1>7. free = {i \in parents : nodes[i].deps \subseteq E}
  <2> SUFFICES ASSUME NEW i \in parents
               PROVE  left[i] = 0 <=> nodes[i].deps \subseteq E
    OBVIOUS
  <2>1. i \in Live(nodes) /\ i \in Ids /\ nodes[i] # NoNode /\ nodes[i].deps \subseteq Ids
    BY LiveFacts
  <2>2. left[i] = Cardinality(nodes[i].deps \ E)
    BY <1>6, <2>1 DEF Remaining
  <2>3. IsFiniteSet(nodes[i].deps \ E)
    BY <2>1, IdsFacts
  <2>4. left[i] = 0 <=> nodes[i].deps \ E = {}
    BY <2>2, <2>3, FS_EmptySet
  <2>. QED
    BY <2>4
<1> HIDE DEF left, free
<1>8. Ready(nodes, E) = (Ready(nodes, D) \ {x}) \cup free
      /\ (Ready(nodes, D) \ {x}) \cap free = {}
  BY <1>1, <1>3, <1>7 DEF Ready
<1>9. Lists(t.queue, Ready(nodes, E))
  <2>1. IsFiniteSet(free)
    BY <1>7, LiveFacts, IdsFacts
  <2>2. Lists(SetToSeq(free), free)
    BY <2>1, Enumeration
  <2>3. Lists(Tail(s.queue) \o SetToSeq(free), (Ready(nodes, D) \ {x}) \cup free)
    BY <1>2, <1>8, <2>2, ListedTogether
  <2>. QED
    BY <1>4, <1>8, <2>3, Zenon
<1>10. Cardinality(E) = Cardinality(D) + 1 /\ Cardinality(D) \in Nat
  <2>1. IsFiniteSet(D)
    BY <1>1, LiveFacts, IdsFacts
  <2>. QED
    BY <1>3, <2>1, FS_AddElement, FS_CardinalityType
<1>11. lifted \in [Ids -> 0 .. Cardinality(E)]
  <2> SUFFICES ASSUME NEW i \in Ids PROVE lifted[i] \in 0 .. Cardinality(E)
    OBVIOUS
  <2>1. s.height[i] \in 0 .. Cardinality(D) /\ s.height[x] \in 0 .. Cardinality(D)
    BY <1>1, <1>3
  <2>. QED
    BY <1>10, <2>1
<1>12. \A d \in E : d \in Ids /\ lifted[d] = s.height[d] /\ s.height[d] \in Nat
  <2> TAKE d \in E
  <2>1. d \in Ids /\ d \notin parents
    BY <1>1, <1>3, LiveFacts
  <2>2. s.height[d] \in 0 .. Cardinality(D)
    BY <1>1, <2>1
  <2>. QED
    BY <1>10, <2>1, <2>2
<1>13. ASSUME NEW i \in Live(nodes)
       PROVE  HeightRight(nodes, lifted, E, i)
  <2>1. /\ \A d \in nodes[i].deps \cap D : s.height[d] < s.height[i]
        /\ s.height[i] > 0 => \E d \in nodes[i].deps \cap D : s.height[i] = s.height[d] + 1
    BY <1>1 DEF HeightRight
  <2>2. i \in Ids /\ s.height[i] \in Nat /\ s.height[x] \in Nat
    <3>1. i \in Ids
      BY LiveFacts
    <3>2. s.height[i] \in 0 .. Cardinality(D) /\ s.height[x] \in 0 .. Cardinality(D)
      BY <1>1, <1>3, <3>1
    <3>. QED
      BY <1>10, <3>1, <3>2
  <2>3. CASE x \notin nodes[i].deps
    <3>1. nodes[i].deps \cap E = nodes[i].deps \cap D /\ i \notin parents
      BY <2>3
    <3>2. lifted[i] = s.height[i]
      BY <2>2, <3>1
    <3> HIDE DEF lifted
    <3>. QED
      BY <1>12, <2>1, <3>1, <3>2 DEF HeightRight
  <2>4. CASE x \in nodes[i].deps
    <3>1. lifted[i] = IF s.height[i] <= s.height[x] THEN s.height[x] + 1 ELSE s.height[i]
      BY <2>2, <2>4
    <3> HIDE DEF lifted
    <3>2. lifted[i] \in Nat /\ s.height[i] <= lifted[i] /\ s.height[x] < lifted[i]
      BY <2>2, <3>1
    <3>3. ASSUME NEW d \in nodes[i].deps \cap E
          PROVE  lifted[d] < lifted[i]
      <4>1. CASE d = x
        BY <1>12, <3>2, <4>1
      <4>2. CASE d \in D
        <5>1. s.height[d] < s.height[i]
          BY <2>1, <3>3, <4>2
        <5>. QED
          BY <1>12, <2>2, <3>2, <4>2, <5>1
      <4>. QED
        BY <3>3, <4>1, <4>2
    <3>4. \E d \in nodes[i].deps \cap E : lifted[i] = lifted[d] + 1
      <4>1. CASE s.height[i] <= s.height[x]
        BY <1>12, <2>4, <3>1, <4>1
      <4>2. CASE ~ s.height[i] <= s.height[x]
        <5>1. s.height[i] > 0 /\ lifted[i] = s.height[i]
          BY <2>2, <3>1, <4>2
        <5>2. PICK d \in nodes[i].deps \cap D : s.height[i] = s.height[d] + 1
          BY <2>1, <5>1
        <5>. QED
          BY <1>12, <5>1, <5>2
      <4>. QED
        BY <4>1, <4>2
    <3>. QED
      BY <3>3, <3>4 DEF HeightRight
  <2>. QED
    BY <2>3, <2>4
<1>. QED
  BY <1>3, <1>4, <1>5, <1>6, <1>9, <1>11, <1>13 DEF DepthsRight, t, x

\* The queue empties only when every node has left it.
LEMMA AllPopped ==
  ASSUME NEW nodes \in Graph, Closed(nodes), Acyclic(nodes), NEW s, NEW D,
         DepthsRight(nodes, s, D), s.queue = <<>>
  PROVE  D = Live(nodes)
<1> DEFINE S == Live(nodes) \ D
<1>1. Ready(nodes, D) = {} /\ D \subseteq Live(nodes)
  BY ListedEmpty DEF DepthsRight
<1>2. ASSUME S # {} PROVE FALSE
  <2>1. PICK i \in S : nodes[i].deps \cap S = {}
    BY <1>2 DEF Acyclic
  <2>2. nodes[i].deps \subseteq D
    BY <2>1 DEF Closed
  <2>. QED
    BY <1>1, <2>2 DEF Ready
<1>. QED
  BY <1>1, <1>2

NextDepths(nodes, s) == IF s.queue = <<>> THEN s ELSE PopDepths(nodes, s)

\* f is the recursion of DepthsOf up to stage n.
IsPopping(f, nodes, n) ==
  f = [k \in 0 .. n |->
         IF k = 0 THEN FirstDepths(nodes)
         ELSE IF f[k - 1].queue = <<>> THEN f[k - 1]
              ELSE PopDepths(nodes, f[k - 1])]

LEMMA PoppingExists ==
  ASSUME NEW nodes, NEW n \in Nat
  PROVE  \E f : IsPopping(f, nodes, n)
<1> DEFINE P == {k \in 0 .. n : \E f : IsPopping(f, nodes, k)}
<1>1. 0 \in P
  <2>1. IsPopping([k \in 0 .. 0 |-> FirstDepths(nodes)], nodes, 0)
    BY DEF IsPopping
  <2>. QED
    BY <2>1
<1>2. ASSUME NEW k \in 0 .. n, k < n, k \in P PROVE k + 1 \in P
  <2>1. PICK g : IsPopping(g, nodes, k)
    BY <1>2
  <2> DEFINE f == [i \in 0 .. (k + 1) |-> IF i = k + 1 THEN NextDepths(nodes, g[k])
                                          ELSE g[i]]
  <2>2. ASSUME NEW i \in 0 .. (k + 1)
        PROVE  f[i] = IF i = 0 THEN FirstDepths(nodes)
                      ELSE IF f[i - 1].queue = <<>> THEN f[i - 1]
                           ELSE PopDepths(nodes, f[i - 1])
    <3>1. CASE i = k + 1
      <4>1. f[i] = NextDepths(nodes, g[k]) /\ f[i - 1] = g[k] /\ i # 0
        BY <1>2, <3>1
      <4> HIDE DEF f
      <4>. QED
        BY <4>1 DEF NextDepths
    <3>2. CASE i # k + 1
      <4>1. i \in 0 .. k /\ (i # 0 => i - 1 \in 0 .. (k + 1) /\ i - 1 # k + 1)
        BY <1>2, <3>2
      <4>2. f[i] = g[i] /\ (i # 0 => f[i - 1] = g[i - 1])
        BY <3>2, <4>1
      <4>3. g[i] = IF i = 0 THEN FirstDepths(nodes)
                   ELSE IF g[i - 1].queue = <<>> THEN g[i - 1]
                        ELSE PopDepths(nodes, g[i - 1])
        BY <2>1, <4>1 DEF IsPopping
      <4> HIDE DEF f
      <4>. QED
        BY <4>2, <4>3
    <3>. QED
      BY <3>1, <3>2
  <2>3. f = [i \in 0 .. (k + 1) |-> f[i]]
    OBVIOUS
  <2> HIDE DEF f
  <2>4. IsPopping(f, nodes, k + 1)
    BY <2>2, <2>3 DEF IsPopping
  <2>. QED
    BY <1>2, <2>4
<1> HIDE DEF P
<1>3. n \in P
  BY <1>1, <1>2, StageInduction
<1>. QED
  BY <1>3 DEF P

\* The depths of a closed acyclic graph: one above the deepest dependency.
LEMMA DepthsOfRight ==
  ASSUME NEW nodes \in Graph, Closed(nodes), Acyclic(nodes)
  PROVE  /\ DepthsOf(nodes) \in [Ids -> 0 .. Cardinality(Ids)]
         /\ \A i \in Live(nodes) : HeightRight(nodes, DepthsOf(nodes), Live(nodes), i)
<1> DEFINE N == Cardinality(Ids)
           f == CHOOSE g : IsPopping(g, nodes, N)
           P == {k \in 0 .. N : \E D \in SUBSET Ids :
                   /\ DepthsRight(nodes, f[k], D)
                   /\ D = Live(nodes) \/ Cardinality(D) = k}
<1>1. N \in Nat
  BY IdsFacts
<1>2. DepthsOf(nodes) = f[N].height
  BY DEF DepthsOf, IsPopping
<1>3. IsPopping(f, nodes, N)
  BY <1>1, PoppingExists
<1> HIDE DEF f
<1>4. \A k \in 0 .. N :
        f[k] = IF k = 0 THEN FirstDepths(nodes)
               ELSE IF f[k - 1].queue = <<>> THEN f[k - 1]
                    ELSE PopDepths(nodes, f[k - 1])
  BY <1>3 DEF IsPopping
<1>5. 0 \in P
  <2>1. 0 \in 0 .. N /\ f[0] = FirstDepths(nodes)
    BY <1>1, <1>4
  <2>2. DepthsRight(nodes, f[0], {}) /\ Cardinality({}) = 0
    BY <2>1, FirstDepthsRight, FS_EmptySet
  <2>. QED
    BY <2>1, <2>2
<1>6. ASSUME NEW k \in 0 .. N, k < N, k \in P PROVE k + 1 \in P
  <2>1. PICK D \in SUBSET Ids : /\ DepthsRight(nodes, f[k], D)
                                /\ D = Live(nodes) \/ Cardinality(D) = k
    BY <1>6
  <2>2. k + 1 \in 0 .. N /\ k + 1 # 0 /\ k + 1 - 1 = k
    BY <1>1, <1>6
  <2>3. f[k + 1] = IF f[k].queue = <<>> THEN f[k] ELSE PopDepths(nodes, f[k])
    BY <1>4, <2>2
  <2>4. CASE f[k].queue = <<>>
    <3>1. D = Live(nodes)
      BY <2>1, <2>4, AllPopped
    <3>. QED
      BY <2>1, <2>2, <2>3, <2>4, <3>1
  <2>5. CASE f[k].queue # <<>>
    <3> DEFINE x == Head(f[k].queue)
               E == D \cup {x}
    <3>1. x \notin D /\ DepthsRight(nodes, PopDepths(nodes, f[k]), E)
      BY <2>1, <2>5, PopDepthsRight
    <3>2. DepthsRight(nodes, f[k + 1], E)
      BY <2>3, <2>5, <3>1
    <3>3. E \subseteq Live(nodes) /\ E \in SUBSET Ids
      BY <3>1, LiveFacts DEF DepthsRight
    <3>4. D # Live(nodes)
      BY <3>1, <3>3
    <3>5. Cardinality(E) = k + 1
      <4>1. IsFiniteSet(D) /\ Cardinality(D) = k
        BY <2>1, <3>4, IdsFacts
      <4>. QED
        BY <3>1, <4>1, FS_AddElement
    <3>. QED
      BY <2>2, <3>2, <3>3, <3>5
  <2>. QED
    BY <2>4, <2>5
<1>7. N \in P
  <2> HIDE DEF P
  <2>. QED
    BY <1>1, <1>5, <1>6, StageInduction
<1>8. PICK D \in SUBSET Ids : /\ DepthsRight(nodes, f[N], D)
                              /\ D = Live(nodes) \/ Cardinality(D) = N
  BY <1>7
<1>9. D = Live(nodes)
  <2>1. D \subseteq Live(nodes) /\ Live(nodes) \subseteq Ids
    BY <1>8, LiveFacts DEF DepthsRight
  <2>2. Cardinality(D) = N => D = Ids
    BY IdsFacts
  <2>. QED
    BY <1>8, <2>1, <2>2
<1>10. /\ f[N].height \in [Ids -> 0 .. Cardinality(D)]
       /\ \A i \in Live(nodes) : HeightRight(nodes, f[N].height, D, i)
  BY <1>8 DEF DepthsRight
<1>11. Cardinality(D) \in Nat /\ Cardinality(D) <= N
  BY IdsFacts
<1>12. f[N].height \in [Ids -> 0 .. N]
  BY <1>1, <1>10, <1>11
<1>. QED
  BY <1>2, <1>9, <1>10, <1>12

-----------------------------------------------------------------------------
(***************************************************************************)
(* What depends on the seeds.                                              *)
(***************************************************************************)
Above(referrers, S) == S \cup UNION {referrers[i] : i \in S}

IsGrowing(f, referrers, seeds, n) ==
  f = [k \in 0 .. n |->
         IF k = 0 THEN seeds
         ELSE f[k - 1] \cup UNION {referrers[i] : i \in f[k - 1]}]

LEMMA GrowingExists ==
  ASSUME NEW referrers, NEW seeds, NEW n \in Nat
  PROVE  \E f : IsGrowing(f, referrers, seeds, n)
<1> DEFINE P == {k \in 0 .. n : \E f : IsGrowing(f, referrers, seeds, k)}
<1>1. 0 \in P
  <2>1. IsGrowing([k \in 0 .. 0 |-> seeds], referrers, seeds, 0)
    BY DEF IsGrowing
  <2>. QED
    BY <2>1
<1>2. ASSUME NEW k \in 0 .. n, k < n, k \in P PROVE k + 1 \in P
  <2>1. PICK g : IsGrowing(g, referrers, seeds, k)
    BY <1>2
  <2> DEFINE f == [i \in 0 .. (k + 1) |-> IF i = k + 1 THEN Above(referrers, g[k])
                                          ELSE g[i]]
  <2>2. ASSUME NEW i \in 0 .. (k + 1)
        PROVE  f[i] = IF i = 0 THEN seeds
                      ELSE f[i - 1] \cup UNION {referrers[j] : j \in f[i - 1]}
    <3>1. CASE i = k + 1
      <4>1. f[i] = Above(referrers, g[k]) /\ f[i - 1] = g[k] /\ i # 0
        BY <1>2, <3>1
      <4> HIDE DEF f
      <4>. QED
        BY <4>1 DEF Above
    <3>2. CASE i # k + 1
      <4>1. i \in 0 .. k /\ (i # 0 => i - 1 \in 0 .. (k + 1) /\ i - 1 # k + 1)
        BY <1>2, <3>2
      <4>2. f[i] = g[i] /\ (i # 0 => f[i - 1] = g[i - 1])
        BY <3>2, <4>1
      <4>3. g[i] = IF i = 0 THEN seeds
                   ELSE g[i - 1] \cup UNION {referrers[j] : j \in g[i - 1]}
        BY <2>1, <4>1 DEF IsGrowing
      <4> HIDE DEF f
      <4>. QED
        BY <4>2, <4>3
    <3>. QED
      BY <3>1, <3>2
  <2>3. f = [i \in 0 .. (k + 1) |-> f[i]]
    OBVIOUS
  <2> HIDE DEF f
  <2>4. IsGrowing(f, referrers, seeds, k + 1)
    BY <2>2, <2>3 DEF IsGrowing
  <2>. QED
    BY <1>2, <2>4
<1> HIDE DEF P
<1>3. n \in P
  BY <1>1, <1>2, StageInduction
<1>. QED
  BY <1>3 DEF P

\* Upward keeps the seeds, is closed under referrers and adds nothing else
\* than referrers: it stays in any set that holds the seeds and all referrers.
LEMMA UpwardClosed ==
  ASSUME NEW L \in SUBSET Ids, NEW seeds \in SUBSET L,
         NEW referrers \in [Ids -> SUBSET L]
  PROVE  LET U == Upward(referrers, seeds)
         IN  seeds \subseteq U /\ U \subseteq L /\ \A i \in U : referrers[i] \subseteq U
<1> DEFINE N == Cardinality(Ids)
           f == CHOOSE g : IsGrowing(g, referrers, seeds, N)
           Shut(S) == \A i \in S : referrers[i] \subseteq S
           P == {k \in 0 .. N : /\ seeds \subseteq f[k] /\ f[k] \subseteq L
                                /\ Shut(f[k]) \/ k <= Cardinality(f[k])}
<1>1. N \in Nat
  BY IdsFacts
<1>2. Upward(referrers, seeds) = f[N]
  BY DEF Upward, IsGrowing
<1>3. IsGrowing(f, referrers, seeds, N)
  BY <1>1, GrowingExists
<1> HIDE DEF f
<1>4. \A k \in 0 .. N : f[k] = IF k = 0 THEN seeds ELSE Above(referrers, f[k - 1])
  BY <1>3 DEF IsGrowing, Above
<1>5. 0 \in P
  <2>1. 0 \in 0 .. N /\ f[0] = seeds
    BY <1>1, <1>4
  <2>2. Cardinality(seeds) \in Nat
    BY IdsFacts
  <2>. QED
    BY <2>1, <2>2
<1>6. ASSUME NEW k \in 0 .. N, k < N, k \in P PROVE k + 1 \in P
  <2> DEFINE S == f[k]
             T == f[k + 1]
  <2>1. k + 1 \in 0 .. N /\ k + 1 # 0 /\ k + 1 - 1 = k
    BY <1>1, <1>6
  <2>2. T = Above(referrers, S)
    BY <1>4, <2>1
  <2>3. seeds \subseteq S /\ S \subseteq L /\ (Shut(S) \/ k <= Cardinality(S))
    BY <1>6
  <2> HIDE DEF S, T
  <2>4. seeds \subseteq T /\ T \subseteq L /\ S \subseteq T
    BY <2>2, <2>3 DEF Above
  <2>5. CASE Shut(S)
    <3>1. T = S
      BY <2>2, <2>5 DEF Above
    <3>. QED
      BY <2>1, <2>4, <2>5, <3>1 DEF S, T
  <2>6. CASE ~ Shut(S)
    <3>1. S # T
      BY <2>2, <2>6 DEF Above
    <3>2. IsFiniteSet(T) /\ Cardinality(T) \in Nat /\ Cardinality(S) \in Nat
      BY <2>3, <2>4, IdsFacts
    <3>3. Cardinality(S) <= Cardinality(T) /\ Cardinality(S) # Cardinality(T)
      BY <2>4, <3>1, <3>2, FS_Subset
    <3>4. k + 1 <= Cardinality(T)
      BY <1>6, <2>3, <2>6, <3>2, <3>3
    <3>. QED
      BY <2>1, <2>4, <3>4 DEF T
  <2>. QED
    BY <2>5, <2>6
<1>7. N \in P
  <2> HIDE DEF P
  <2>. QED
    BY <1>1, <1>5, <1>6, StageInduction
<1>8. /\ seeds \subseteq f[N] /\ f[N] \subseteq L
      /\ Shut(f[N]) \/ N <= Cardinality(f[N])
  BY <1>7
<1>9. Shut(f[N])
  <2>1. CASE N <= Cardinality(f[N])
    <3>1. f[N] \in SUBSET Ids
      BY <1>8
    <3>2. Cardinality(f[N]) = N
      BY <1>1, <2>1, <3>1, IdsFacts
    <3>3. f[N] = Ids
      BY <3>1, <3>2, IdsFacts
    <3>. QED
      BY <1>8, <3>3
  <2>. QED
    BY <1>8, <2>1
<1>. QED
  BY <1>2, <1>8, <1>9

-----------------------------------------------------------------------------
(***************************************************************************)
(* The keys, depth after depth.                                            *)
(***************************************************************************)
IsHashing(f, keys, affected, depths, prefixes, nodes, n) ==
  f = [k \in 0 .. n |->
         HashDepth(IF k = 0 THEN keys ELSE f[k - 1],
                   k, affected, depths, prefixes, nodes)]

LEMMA HashingExists ==
  ASSUME NEW keys, NEW affected, NEW depths, NEW prefixes, NEW nodes, NEW n \in Nat
  PROVE  \E f : IsHashing(f, keys, affected, depths, prefixes, nodes, n)
<1> DEFINE Hash(before, k) == HashDepth(before, k, affected, depths, prefixes, nodes)
           P == {k \in 0 .. n : \E f : IsHashing(f, keys, affected, depths, prefixes, nodes, k)}
<1>1. 0 \in P
  <2>1. IsHashing([k \in 0 .. 0 |-> Hash(keys, 0)], keys, affected, depths, prefixes, nodes, 0)
    BY DEF IsHashing
  <2>. QED
    BY <2>1
<1>2. ASSUME NEW k \in 0 .. n, k < n, k \in P PROVE k + 1 \in P
  <2>1. PICK g : IsHashing(g, keys, affected, depths, prefixes, nodes, k)
    BY <1>2
  <2> DEFINE f == [i \in 0 .. (k + 1) |-> IF i = k + 1 THEN Hash(g[k], k + 1) ELSE g[i]]
  <2>2. ASSUME NEW i \in 0 .. (k + 1)
        PROVE  f[i] = HashDepth(IF i = 0 THEN keys ELSE f[i - 1],
                                i, affected, depths, prefixes, nodes)
    <3>1. CASE i = k + 1
      <4>1. f[i] = Hash(g[k], i) /\ f[i - 1] = g[k] /\ i # 0
        BY <1>2, <3>1
      <4> HIDE DEF f
      <4>. QED
        BY <4>1
    <3>2. CASE i # k + 1
      <4>1. i \in 0 .. k /\ (i # 0 => i - 1 \in 0 .. (k + 1) /\ i - 1 # k + 1)
        BY <1>2, <3>2
      <4>2. f[i] = g[i] /\ (i # 0 => f[i - 1] = g[i - 1])
        BY <3>2, <4>1
      <4>3. g[i] = HashDepth(IF i = 0 THEN keys ELSE g[i - 1],
                             i, affected, depths, prefixes, nodes)
        BY <2>1, <4>1 DEF IsHashing
      <4> HIDE DEF f
      <4>. QED
        BY <4>2, <4>3
    <3>. QED
      BY <3>1, <3>2
  <2>3. f = [i \in 0 .. (k + 1) |-> f[i]]
    OBVIOUS
  <2> HIDE DEF f
  <2>4. IsHashing(f, keys, affected, depths, prefixes, nodes, k + 1)
    BY <2>2, <2>3 DEF IsHashing
  <2>. QED
    BY <1>2, <2>4
<1> HIDE DEF P
<1>3. n \in P
  BY <1>1, <1>2, StageInduction
<1>. QED
  BY <1>3 DEF P

\* A key depends on the keys of the node's dependencies alone.
LEMMA KeyOfAgrees ==
  ASSUME NEW prefix, NEW node, NEW a, NEW b, \A d \in node.deps : a[d] = b[d]
  PROVE  KeyOf(prefix, node, a) = KeyOf(prefix, node, b)
BY DEF KeyOf

\* After the last depth each affected node has the key of its present inputs,
\* and no other node's key has changed (the loop of refresh_lean_keys).
LEMMA HashedRight ==
  ASSUME NEW nodes \in Graph, NEW depths \in [Ids -> 0 .. Cardinality(Ids)],
         \A i \in Live(nodes) : \A d \in nodes[i].deps : depths[d] < depths[i],
         NEW affected \in SUBSET Live(nodes), NEW prefixes, NEW keys, DOMAIN keys = Ids,
         NEW f, IsHashing(f, keys, affected, depths, prefixes, nodes, Cardinality(Ids))
  PROVE  LET last == f[Cardinality(Ids)]
         IN  /\ DOMAIN last = Ids
             /\ \A i \in Ids : last[i] = IF i \in affected
                                         THEN KeyOf(prefixes[i], nodes[i], last)
                                         ELSE keys[i]
<1> DEFINE N == Cardinality(Ids)
           Right(k, i) == IF i \in affected /\ depths[i] <= k
                          THEN f[k][i] = KeyOf(prefixes[i], nodes[i], f[k])
                          ELSE f[k][i] = keys[i]
           P == {k \in 0 .. N : \A i \in Ids : Right(k, i)}
<1>1. N \in Nat
  BY IdsFacts
<1>2. \A k \in 0 .. N :
        f[k] = HashDepth(IF k = 0 THEN keys ELSE f[k - 1],
                         k, affected, depths, prefixes, nodes)
  BY DEF IsHashing
<1>3. \A k \in 0 .. N :
        /\ DOMAIN f[k] = Ids
        /\ \A i \in Ids :
             f[k][i] = IF i \in affected /\ depths[i] = k
                       THEN KeyOf(prefixes[i], nodes[i], IF k = 0 THEN keys ELSE f[k - 1])
                       ELSE (IF k = 0 THEN keys ELSE f[k - 1])[i]
  <2> TAKE k \in 0 .. N
  <2> DEFINE before == IF k = 0 THEN keys ELSE f[k - 1]
  <2>1. f[k] = HashDepth(before, k, affected, depths, prefixes, nodes)
    BY <1>2
  <2> HIDE DEF before
  <2>2. /\ DOMAIN f[k] = Ids
        /\ \A i \in Ids : f[k][i] = IF i \in affected /\ depths[i] = k
                                   THEN KeyOf(prefixes[i], nodes[i], before) ELSE before[i]
    BY <2>1 DEF HashDepth
  <2>. QED
    BY <2>2, Zenon DEF before
<1>4. \A i \in Ids : depths[i] \in Nat /\ depths[i] <= N
  BY <1>1
<1>5. \A i \in affected : i \in Live(nodes) /\ i \in Ids /\ nodes[i].deps \subseteq Ids
  BY LiveFacts
<1>6. 0 \in P
  <2>1. 0 \in 0 .. N
    BY <1>1
  <2>2. ASSUME NEW i \in Ids PROVE Right(0, i)
    <3>1. f[0][i] = IF i \in affected /\ depths[i] = 0
                    THEN KeyOf(prefixes[i], nodes[i], keys) ELSE keys[i]
      BY <1>3, <2>1
    <3>2. CASE i \in affected /\ depths[i] = 0
      <4>1. \A d \in nodes[i].deps : depths[d] < 0 /\ depths[d] \in Nat
        BY <1>4, <1>5, <3>2
      <4>2. nodes[i].deps = {}
        BY <4>1
      <4>3. KeyOf(prefixes[i], nodes[i], keys) = KeyOf(prefixes[i], nodes[i], f[0])
        BY <4>2, KeyOfAgrees
      <4>. QED
        BY <3>1, <3>2, <4>3
    <3>3. CASE ~ (i \in affected /\ depths[i] = 0)
      BY <1>4, <3>1, <3>3
    <3>. QED
      BY <3>2, <3>3
  <2>. QED
    BY <2>1, <2>2
<1>7. ASSUME NEW k \in 0 .. N, k < N, k \in P PROVE k + 1 \in P
  <2>1. k + 1 \in 0 .. N /\ k + 1 # 0 /\ k + 1 - 1 = k
    BY <1>1, <1>7
  <2>2. \A i \in Ids : f[k + 1][i] = IF i \in affected /\ depths[i] = k + 1
                                     THEN KeyOf(prefixes[i], nodes[i], f[k]) ELSE f[k][i]
    BY <1>3, <2>1
  <2>3. \A d \in Ids : depths[d] <= k => f[k + 1][d] = f[k][d]
    BY <1>4, <2>2
  <2>4. ASSUME NEW i \in Ids PROVE Right(k + 1, i)
    <3>1. Right(k, i)
      BY <1>7
    <3>2. CASE i \in affected /\ depths[i] <= k + 1
      <4>1. \A d \in nodes[i].deps : d \in Ids /\ depths[d] <= k
        <5> TAKE d \in nodes[i].deps
        <5>1. d \in Ids /\ depths[d] < depths[i]
          BY <1>5, <3>2
        <5>. QED
          BY <1>4, <3>2, <5>1
      <4>2. KeyOf(prefixes[i], nodes[i], f[k]) = KeyOf(prefixes[i], nodes[i], f[k + 1])
        BY <2>3, <4>1, KeyOfAgrees
      <4>3. f[k + 1][i] = KeyOf(prefixes[i], nodes[i], f[k])
        BY <1>4, <2>2, <3>1, <3>2
      <4>. QED
        BY <3>2, <4>2, <4>3
    <3>3. CASE ~ (i \in affected /\ depths[i] <= k + 1)
      <4>1. ~ (i \in affected /\ depths[i] = k + 1) /\ ~ (i \in affected /\ depths[i] <= k)
        BY <1>4, <3>3
      <4>. QED
        BY <2>2, <3>1, <3>3, <4>1
    <3>. QED
      BY <3>2, <3>3
  <2>. QED
    BY <2>1, <2>4
<1>8. N \in P
  <2> HIDE DEF P
  <2>. QED
    BY <1>1, <1>6, <1>7, StageInduction
<1>9. \A i \in Ids : Right(N, i)
  BY <1>8
<1>10. N \in 0 .. N
  BY <1>1
<1>. QED
  BY <1>3, <1>4, <1>9, <1>10

\* refresh_lean_keys on an index whose other inputs have not changed.
LEMMA RefreshRight ==
  ASSUME NEW nodes \in Graph, Closed(nodes), NEW project, NEW index,
         DOMAIN index = DOMAIN NoIndex,
         index.depths \in [Ids -> 0 .. Cardinality(Ids)],
         DepthsCoherent(index, nodes),
         DOMAIN index.keys = Ids,
         NEW seeds \in SUBSET Live(nodes),
         \A i \in Ids \ seeds :
           /\ index.prefixes[i] = IF nodes[i] = NoNode THEN NoKey
                                  ELSE PrefixOf(project, nodes[i])
           /\ index.keys[i] = IF nodes[i] = NoNode THEN NoKey
                              ELSE KeyOf(PrefixOf(project, nodes[i]), nodes[i], index.keys)
  PROVE  LET r == RefreshLeanKeys(index, nodes, project, ReferrersOf(nodes), seeds)
         IN  /\ DOMAIN r = DOMAIN NoIndex
             /\ r.modules = index.modules /\ r.depths = index.depths
             /\ DOMAIN r.prefixes = Ids /\ DOMAIN r.keys = Ids
             /\ PrefixesCoherent(r, nodes, project)
             /\ KeysCoherent(r, nodes, project)
<1> DEFINE N == Cardinality(Ids)
           prefixes == [i \in Ids |-> IF i \in seeds THEN PrefixOf(project, nodes[i])
                                      ELSE index.prefixes[i]]
           affected == Upward(ReferrersOf(nodes), seeds)
           f == CHOOSE g : IsHashing(g, index.keys, affected, index.depths, prefixes, nodes, N)
           keys == f[N]
           r == RefreshLeanKeys(index, nodes, project, ReferrersOf(nodes), seeds)
<1>1. r = [index EXCEPT !.prefixes = prefixes, !.keys = keys]
  BY DEF RefreshLeanKeys, IsHashing
<1>2. IsHashing(f, index.keys, affected, index.depths, prefixes, nodes, N)
  BY IdsFacts, HashingExists
<1> HIDE DEF f
<1>3. /\ ReferrersOf(nodes) \in [Ids -> SUBSET Live(nodes)]
      /\ Live(nodes) \in SUBSET Ids
  BY LiveFacts DEF ReferrersOf
<1>4. /\ seeds \subseteq affected /\ affected \subseteq Live(nodes)
      /\ \A i \in affected : ReferrersOf(nodes)[i] \subseteq affected
  BY <1>3, UpwardClosed
<1>5. \A i \in Live(nodes) : \A d \in nodes[i].deps : index.depths[d] < index.depths[i]
  BY DEF DepthsCoherent
<1> HIDE DEF affected
<1>6. /\ DOMAIN keys = Ids
      /\ \A i \in Ids : keys[i] = IF i \in affected THEN KeyOf(prefixes[i], nodes[i], keys)
                                  ELSE index.keys[i]
  <2> HIDE DEF prefixes
  <2>. QED
    BY <1>2, <1>4, <1>5, HashedRight
<1>7. \A i \in Ids : prefixes[i] = IF nodes[i] = NoNode THEN NoKey
                                   ELSE PrefixOf(project, nodes[i])
  BY DEF Live
<1> HIDE DEF keys, r
<1>8. ASSUME NEW i \in Ids
      PROVE  keys[i] = IF nodes[i] = NoNode THEN NoKey
                       ELSE KeyOf(PrefixOf(project, nodes[i]), nodes[i], keys)
  <2>1. CASE i \in affected
    <3>1. nodes[i] # NoNode
      BY <1>4, <2>1, LiveFacts
    <3>. QED
      BY <1>6, <1>7, <2>1, <3>1
  <2>2. CASE i \notin affected /\ nodes[i] = NoNode
    BY <1>4, <1>6, <2>2
  <2>3. CASE i \notin affected /\ nodes[i] # NoNode
    <3>1. /\ i \in Live(nodes) /\ i \notin seeds
          /\ keys[i] = KeyOf(PrefixOf(project, nodes[i]), nodes[i], index.keys)
      BY <1>4, <1>6, <2>3 DEF Live
    <3>2. ASSUME NEW d \in nodes[i].deps PROVE index.keys[d] = keys[d]
      <4>1. d \in Ids /\ i \in ReferrersOf(nodes)[d]
        BY <3>1, LiveFacts DEF ReferrersOf
      <4>2. d \notin affected
        BY <1>4, <2>3, <4>1
      <4>. QED
        BY <1>6, <4>1, <4>2
    <3>. QED
      BY <2>3, <3>1, <3>2, KeyOfAgrees
  <2>. QED
    BY <2>1, <2>2, <2>3
<1>9. DOMAIN prefixes = Ids
  OBVIOUS
<1> HIDE DEF prefixes
<1>10. /\ DOMAIN r = DOMAIN NoIndex
       /\ r.modules = index.modules /\ r.depths = index.depths
       /\ r.prefixes = prefixes /\ r.keys = keys
  BY <1>1 DEF NoIndex
<1>. QED
  BY <1>6, <1>7, <1>8, <1>9, <1>10 DEF PrefixesCoherent, KeysCoherent, r

-----------------------------------------------------------------------------
(***************************************************************************)
(* The whole index: after a load, a save and a removal.                    *)
(***************************************************************************)
\* recompute_graph on a valid graph.
LEMMA RecomputeGraphRight ==
  ASSUME NEW nodes \in Graph, NEW project, ValidGraph(nodes, project),
         NEW x, DOMAIN x = DOMAIN NoIndex
  PROVE  LET g == RecomputeGraph(x, nodes)
         IN  /\ DOMAIN g = DOMAIN NoIndex
             /\ g.prefixes = x.prefixes /\ g.keys = x.keys
             /\ g.modules \in [Names -> Ids \cup {NoId}]
             /\ g.depths \in [Ids -> 0 .. Cardinality(Ids)]
             /\ ModulesCoherent(g, nodes) /\ DepthsCoherent(g, nodes)
<1> DEFINE g == RecomputeGraph(x, nodes)
           m == ModulesOf(nodes)
           depths == DepthsOf(nodes)
<1>1. /\ DOMAIN g = DOMAIN NoIndex
      /\ g.prefixes = x.prefixes /\ g.keys = x.keys
      /\ g.modules = m /\ g.depths = depths
  BY DEF RecomputeGraph, NoIndex
<1>2. UniqueNames(nodes) /\ Closed(nodes) /\ Acyclic(nodes)
  BY DEF ValidGraph
<1>3. /\ depths \in [Ids -> 0 .. Cardinality(Ids)]
      /\ \A i \in Live(nodes) : HeightRight(nodes, depths, Live(nodes), i)
  BY <1>2, DepthsOfRight
<1> HIDE DEF depths
<1>4. DepthsCoherent(g, nodes)
  <2> SUFFICES ASSUME NEW i \in Live(nodes)
               PROVE  /\ nodes[i].deps = {} => depths[i] = 0
                      /\ \A d \in nodes[i].deps : depths[d] < depths[i]
                      /\ depths[i] > 0 => \E d \in nodes[i].deps : depths[i] = depths[d] + 1
    BY <1>1 DEF DepthsCoherent
  <2>1. nodes[i].deps \cap Live(nodes) = nodes[i].deps
    BY <1>2 DEF Closed
  <2>2. depths[i] \in Nat
    BY <1>3, LiveFacts, IdsFacts
  <2>3. /\ \A d \in nodes[i].deps : depths[d] < depths[i]
        /\ depths[i] > 0 => \E d \in nodes[i].deps : depths[i] = depths[d] + 1
    BY <1>3, <2>1 DEF HeightRight
  <2>. QED
    BY <2>2, <2>3
<1>5. ASSUME NEW i \in Live(nodes) PROVE m[nodes[i].name] = i
  <2>1. nodes[i].name \in Names
    BY LiveFacts
  <2>2. \A j \in Live(nodes) : nodes[j].name = nodes[i].name => j = i
    BY <1>2 DEF UniqueNames
  <2>. QED
    BY <2>1, <2>2 DEF ModulesOf
<1>6. ASSUME NEW n \in Names
      PROVE  /\ m[n] \in Ids \cup {NoId}
             /\ m[n] # NoId => m[n] \in Live(nodes) /\ nodes[m[n]].name = n
  <2>1. CASE \E i \in Live(nodes) : nodes[i].name = n
    <3>1. m[n] \in Live(nodes) /\ nodes[m[n]].name = n
      BY <2>1 DEF ModulesOf
    <3>. QED
      BY <3>1, LiveFacts
  <2>2. CASE ~ \E i \in Live(nodes) : nodes[i].name = n
    BY <2>2 DEF ModulesOf
  <2>. QED
    BY <2>1, <2>2
<1>7. m \in [Names -> Ids \cup {NoId}]
  <2>1. m = [n \in Names |-> m[n]]
    BY DEF ModulesOf
  <2> HIDE DEF m
  <2>. QED
    BY <1>6, <2>1
<1>8. ModulesCoherent(g, nodes)
  BY <1>1, <1>5, <1>6 DEF ModulesCoherent
<1>. QED
  BY <1>1, <1>3, <1>4, <1>7, <1>8

\* A key's input: the project, and the node's name, source and dependencies.
LEMMA KeyInput ==
  ASSUME NEW project, NEW a, NEW b, NEW keys,
         a.name = b.name, a.lean = b.lean, a.deps = b.deps
  PROVE  /\ PrefixOf(project, a) = PrefixOf(project, b)
         /\ KeyOf(PrefixOf(project, a), a, keys) = KeyOf(PrefixOf(project, b), b, keys)
BY DEF PrefixOf, KeyOf

\* An index whose graph projections are right, refreshed from the seeds.
LEMMA RefreshedIndex ==
  ASSUME NEW nodes \in Graph, Closed(nodes), NEW project, NEW x,
         DOMAIN x = DOMAIN NoIndex,
         x.modules \in [Names -> Ids \cup {NoId}],
         x.depths \in [Ids -> 0 .. Cardinality(Ids)],
         ModulesCoherent(x, nodes), DepthsCoherent(x, nodes),
         DOMAIN x.keys = Ids,
         NEW seeds \in SUBSET Live(nodes),
         \A i \in Ids \ seeds :
           /\ x.prefixes[i] = IF nodes[i] = NoNode THEN NoKey
                              ELSE PrefixOf(project, nodes[i])
           /\ x.keys[i] = IF nodes[i] = NoNode THEN NoKey
                          ELSE KeyOf(PrefixOf(project, nodes[i]), nodes[i], x.keys)
  PROVE  IndexRight(RefreshLeanKeys(x, nodes, project, ReferrersOf(nodes), seeds),
                    nodes, project)
<1> DEFINE r == RefreshLeanKeys(x, nodes, project, ReferrersOf(nodes), seeds)
<1>1. /\ DOMAIN r = DOMAIN NoIndex
      /\ r.modules = x.modules /\ r.depths = x.depths
      /\ DOMAIN r.prefixes = Ids /\ DOMAIN r.keys = Ids
      /\ PrefixesCoherent(r, nodes, project)
      /\ KeysCoherent(r, nodes, project)
  BY RefreshRight
<1> HIDE DEF r
<1>2. ModulesCoherent(r, nodes) /\ DepthsCoherent(r, nodes)
  BY <1>1 DEF ModulesCoherent, DepthsCoherent
<1>3. IndexRight(r, nodes, project)
  BY <1>1, <1>2 DEF IndexRight
<1>. QED
  BY <1>3 DEF r

\* Snapshot::recompute: every projection from the documents alone.
LEMMA RecomputeRight ==
  ASSUME NEW nodes \in Graph, NEW project, ValidGraph(nodes, project)
  PROVE  IndexRight(Recompute(nodes, project), nodes, project)
<1> DEFINE g == RecomputeGraph(NoIndex, nodes)
<1>1. /\ DOMAIN g = DOMAIN NoIndex
      /\ g.prefixes = NoIndex.prefixes /\ g.keys = NoIndex.keys
      /\ g.modules \in [Names -> Ids \cup {NoId}]
      /\ g.depths \in [Ids -> 0 .. Cardinality(Ids)]
      /\ ModulesCoherent(g, nodes) /\ DepthsCoherent(g, nodes)
  BY RecomputeGraphRight
<1> HIDE DEF g
<1>2. DOMAIN g.keys = Ids
  BY <1>1 DEF NoIndex
<1>3. \A i \in Ids \ Live(nodes) :
        g.prefixes[i] = NoKey /\ g.keys[i] = NoKey /\ nodes[i] = NoNode
  BY <1>1 DEF NoIndex, Live
<1>4. Closed(nodes)
  BY DEF ValidGraph
<1>5. Live(nodes) \in SUBSET Live(nodes)
  OBVIOUS
<1>6. IndexRight(RefreshLeanKeys(g, nodes, project, ReferrersOf(nodes), Live(nodes)),
                 nodes, project)
  BY <1>1, <1>2, <1>3, <1>4, <1>5, RefreshedIndex
<1>. QED
  BY <1>6 DEF Recompute, g

\* Snapshot::apply: a save's documents replace theirs in a right index.
LEMMA ApplyIndexRight ==
  ASSUME NEW nodes \in Graph, NEW docs \in Graph, NEW project,
         Merge(nodes, docs) \in Graph, ValidGraph(Merge(nodes, docs), project),
         NEW index, IndexRight(index, nodes, project)
  PROVE  IndexRight(ApplyIndex(index, nodes, project, docs,
                               ReferrersOf(Merge(nodes, docs))),
                    Merge(nodes, docs), project)
<1> DEFINE merged == Merge(nodes, docs)
           seeds == LeanChanged(nodes, docs)
           g == IF KeepsShape(nodes, docs) THEN index ELSE RecomputeGraph(index, merged)
<1>1. \A i \in Ids : merged[i] = IF docs[i] # NoNode THEN docs[i] ELSE nodes[i]
  BY DEF Merge
<1>2. merged \in Graph /\ ValidGraph(merged, project) /\ Closed(merged)
  BY DEF ValidGraph
<1>3. /\ DOMAIN index = DOMAIN NoIndex
      /\ index.modules \in [Names -> Ids \cup {NoId}]
      /\ index.depths \in [Ids -> 0 .. Cardinality(Ids)]
      /\ DOMAIN index.keys = Ids
      /\ ModulesCoherent(index, nodes) /\ DepthsCoherent(index, nodes)
      /\ PrefixesCoherent(index, nodes, project) /\ KeysCoherent(index, nodes, project)
  BY DEF IndexRight
<1> HIDE DEF merged
<1>4. seeds \in SUBSET Live(merged)
  BY <1>1 DEF LeanChanged, Live
<1>5. /\ DOMAIN g = DOMAIN NoIndex
      /\ g.prefixes = index.prefixes /\ g.keys = index.keys
      /\ g.modules \in [Names -> Ids \cup {NoId}]
      /\ g.depths \in [Ids -> 0 .. Cardinality(Ids)]
      /\ ModulesCoherent(g, merged) /\ DepthsCoherent(g, merged)
  <2>1. CASE KeepsShape(nodes, docs)
    <3>1. g = index
      BY <2>1
    <3>2. Live(merged) = Live(nodes)
      BY <1>1, <2>1 DEF KeepsShape, Live
    <3>3. \A i \in Live(nodes) : /\ merged[i].deps = nodes[i].deps
                                 /\ merged[i].name = nodes[i].name
      BY <1>1, <2>1 DEF KeepsShape, Live
    <3>4. ModulesCoherent(index, merged)
      BY <1>3, <3>2, <3>3 DEF ModulesCoherent
    <3>5. DepthsCoherent(index, merged)
      BY <1>3, <3>2, <3>3 DEF DepthsCoherent
    <3>. QED
      BY <1>3, <3>1, <3>4, <3>5
  <2>2. CASE ~ KeepsShape(nodes, docs)
    <3>1. g = RecomputeGraph(index, merged)
      BY <2>2
    <3>. QED
      BY <1>2, <1>3, <3>1, RecomputeGraphRight
  <2>. QED
    BY <2>1, <2>2
<1> HIDE DEF g
<1>6. ASSUME NEW i \in Ids \ seeds
      PROVE  /\ g.prefixes[i] = IF merged[i] = NoNode THEN NoKey
                                ELSE PrefixOf(project, merged[i])
             /\ g.keys[i] = IF merged[i] = NoNode THEN NoKey
                            ELSE KeyOf(PrefixOf(project, merged[i]), merged[i], g.keys)
  <2>1. /\ index.prefixes[i] = IF nodes[i] = NoNode THEN NoKey
                               ELSE PrefixOf(project, nodes[i])
        /\ index.keys[i] = IF nodes[i] = NoNode THEN NoKey
                           ELSE KeyOf(PrefixOf(project, nodes[i]), nodes[i], index.keys)
    BY <1>3 DEF PrefixesCoherent, KeysCoherent
  <2>2. CASE docs[i] = NoNode
    <3>1. merged[i] = nodes[i]
      BY <1>1, <2>2
    <3>. QED
      BY <1>5, <2>1, <3>1
  <2>3. CASE docs[i] # NoNode
    <3>1. /\ merged[i] = docs[i] /\ merged[i] # NoNode /\ nodes[i] # NoNode
          /\ docs[i].lean = nodes[i].lean
          /\ docs[i].name = nodes[i].name
          /\ docs[i].deps = nodes[i].deps
      BY <1>1, <2>3 DEF LeanChanged, Live
    <3>2. /\ PrefixOf(project, merged[i]) = PrefixOf(project, nodes[i])
          /\ KeyOf(PrefixOf(project, merged[i]), merged[i], index.keys)
               = KeyOf(PrefixOf(project, nodes[i]), nodes[i], index.keys)
      BY <3>1, KeyInput
    <3>. QED
      BY <1>5, <2>1, <3>1, <3>2
  <2>. QED
    BY <2>2, <2>3
<1>7. IndexRight(RefreshLeanKeys(g, merged, project, ReferrersOf(merged), seeds),
                 merged, project)
  <2> HIDE DEF seeds
  <2>. QED
    BY <1>2, <1>3, <1>4, <1>5, <1>6, RefreshedIndex
<1>. QED
  BY <1>7 DEF ApplyIndex, g, merged

\* Snapshot::remove: the removed node's entries go, its referrers are rehashed.
LEMMA RemoveIndexRight ==
  ASSUME NEW nodes \in Graph, NEW project, ValidGraph(nodes, project), NEW id \in Ids,
         NEW left \in Graph, left = Removed(nodes, id, ReferrersOf(nodes)[id]),
         ValidGraph(left, project),
         NEW index, IndexRight(index, nodes, project)
  PROVE  IndexRight(RemoveIndex(index, left, project, id, ReferrersOf(nodes)[id]),
                    left, project)
<1> DEFINE parents == ReferrersOf(nodes)[id]
           dropped == [index EXCEPT !.keys[id] = NoKey, !.prefixes[id] = NoKey]
           g == RecomputeGraph(dropped, left)
<1>1. /\ DOMAIN index = DOMAIN NoIndex
      /\ DOMAIN index.prefixes = Ids /\ DOMAIN index.keys = Ids
      /\ PrefixesCoherent(index, nodes, project) /\ KeysCoherent(index, nodes, project)
  BY DEF IndexRight
<1>2. /\ DOMAIN dropped = DOMAIN NoIndex
      /\ dropped.keys = [index.keys EXCEPT ![id] = NoKey]
      /\ dropped.prefixes = [index.prefixes EXCEPT ![id] = NoKey]
  BY <1>1 DEF NoIndex
<1> HIDE DEF dropped
<1>3. /\ DOMAIN g = DOMAIN NoIndex
      /\ g.prefixes = dropped.prefixes /\ g.keys = dropped.keys
      /\ g.modules \in [Names -> Ids \cup {NoId}]
      /\ g.depths \in [Ids -> 0 .. Cardinality(Ids)]
      /\ ModulesCoherent(g, left) /\ DepthsCoherent(g, left)
  BY <1>2, RecomputeGraphRight
<1>4. \A i \in Ids : i \in parents <=> nodes[i] # NoNode /\ id \in nodes[i].deps
  BY DEF ReferrersOf, Live
<1>5. id \notin parents
  <2> SUFFICES ASSUME id \in Live(nodes) PROVE id \notin nodes[id].deps
    BY <1>4 DEF Live
  <2>1. \E i \in {id} : nodes[i].deps \cap {id} = {}
    <3>1. {id} \in SUBSET Live(nodes) /\ {id} # {}
      OBVIOUS
    <3>. QED
      BY <3>1, Zenon DEF ValidGraph, Acyclic
  <2>. QED
    BY <2>1
<1>6. \A i \in Ids : left[i] = IF i = id THEN NoNode
                               ELSE IF i \in parents THEN [nodes[i] EXCEPT !.deps = @ \ {id}]
                               ELSE nodes[i]
  BY DEF Removed
<1>7. parents \in SUBSET Live(left)
  <2> SUFFICES ASSUME NEW i \in parents PROVE i \in Live(left)
    OBVIOUS
  <2>1. i \in Live(nodes) /\ i \in Ids /\ i # id
    BY <1>5 DEF ReferrersOf, Live
  <2>2. [nodes[i] EXCEPT !.deps = @ \ {id}] \in Node
    BY <2>1, LiveFacts DEF Node
  <2> HIDE DEF parents
  <2>3. left[i] = [nodes[i] EXCEPT !.deps = @ \ {id}]
    BY <1>6, <2>1
  <2>. QED
    BY <2>1, <2>2, <2>3, NoNodeAssumption DEF Live
<1> HIDE DEF parents, g
<1>8. ASSUME NEW i \in Ids \ parents
      PROVE  /\ g.prefixes[i] = IF left[i] = NoNode THEN NoKey
                                ELSE PrefixOf(project, left[i])
             /\ g.keys[i] = IF left[i] = NoNode THEN NoKey
                            ELSE KeyOf(PrefixOf(project, left[i]), left[i], g.keys)
  <2>1. CASE i = id
    BY <1>1, <1>2, <1>3, <1>6, <2>1
  <2>2. CASE i # id
    <3>1. left[i] = nodes[i]
      BY <1>6, <2>2
    <3>2. g.prefixes[i] = index.prefixes[i] /\ g.keys[i] = index.keys[i]
      BY <1>1, <1>2, <1>3, <2>2
    <3>3. /\ index.prefixes[i] = IF nodes[i] = NoNode THEN NoKey
                                 ELSE PrefixOf(project, nodes[i])
          /\ index.keys[i] = IF nodes[i] = NoNode THEN NoKey
                             ELSE KeyOf(PrefixOf(project, nodes[i]), nodes[i], index.keys)
      BY <1>1 DEF PrefixesCoherent, KeysCoherent
    <3>4. CASE nodes[i] = NoNode
      BY <3>1, <3>2, <3>3, <3>4
    <3>5. CASE nodes[i] # NoNode
      <4>1. id \notin nodes[i].deps /\ nodes[i].deps \subseteq Ids
        BY <1>4, <3>5, LiveFacts DEF Live
      <4>2. \A d \in nodes[i].deps : index.keys[d] = g.keys[d]
        BY <1>1, <1>2, <1>3, <4>1
      <4>3. KeyOf(PrefixOf(project, nodes[i]), nodes[i], index.keys)
              = KeyOf(PrefixOf(project, nodes[i]), nodes[i], g.keys)
        BY <4>2, KeyOfAgrees
      <4>. QED
        BY <3>1, <3>2, <3>3, <3>5, <4>3
    <3>. QED
      BY <3>4, <3>5
  <2>. QED
    BY <2>1, <2>2
<1>9. DOMAIN g.keys = Ids /\ Closed(left)
  BY <1>1, <1>2, <1>3 DEF ValidGraph
<1>10. IndexRight(RefreshLeanKeys(g, left, project, ReferrersOf(left), parents),
                  left, project)
  BY <1>3, <1>7, <1>8, <1>9, RefreshedIndex
<1>. QED
  BY <1>10 DEF RemoveIndex, g, dropped, parents

=============================================================================
