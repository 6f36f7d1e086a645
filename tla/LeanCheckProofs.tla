---------------------------- MODULE LeanCheckProofs ----------------------------
(***************************************************************************)
(* Proofs about LeanCheck: a status that is shown is true, certificates    *)
(* are closed under imports as far as the store could be opened and can be *)
(* restored, and a check decides about the inputs it captured, for any     *)
(* graph, services and number of checks.                                   *)
(***************************************************************************)
EXTENDS LeanCheck, FiniteSetTheorems, WellFoundedInduction, TLAPS

-----------------------------------------------------------------------------
(***************************************************************************)
(* The inductive invariant.                                                *)
(***************************************************************************)
\* What a result says is so for the inputs that it names.
Sound(r) ==
  /\ r.certified => Compiles(r.key)
  /\ r.sorry <=> r.key.text[r.key.node] = "gap"
  /\ r.below = "yes" => \E m \in Chain[r.key.node] : r.key.text[m] = "gap"
  /\ r.below = "no" =>
       \A m \in Chain[r.key.node] \ {r.key.node} : r.key.text[m] # "gap"

\* Once certified, an input key is in the store or among those it missed.
Known(key) == Stored(key) \/ key \in missed

Valid(r) == Sound(r) /\ (r.certified => Known(r.key))

StoreSound == \A r \in store : r.certified /\ Sound(r)

Evident(res) == \A n \in Nodes :
  res[n] # Nothing => res[n].key.node = n /\ Valid(res[n])

ResultsValid == \A s \in Services : Evident(results[s])

\* What a check knows is of the inputs that it captured.
EvidenceKept(k) ==
  /\ \A m \in Nodes : k.evidence[m] # Nothing =>
       k.evidence[m].key = KeyOf(k.src, m) /\ Valid(k.evidence[m])
  /\ k.result # Nothing => k.result.key = KeyOf(k.src, k.target) /\ Valid(k.result)

\* What is still to be recorded of a chain, and what has been.
RecordingKept(k) ==
  LET compiles == Compiles(KeyOf(k.src, k.target)) IN
  /\ k.target \in k.observed /\ k.observed \subseteq Chain[k.target]
  /\ k.left \subseteq Chain[k.target]
  /\ k.observed # {k.target} => compiles
  /\ compiles => \A m \in Chain[k.target] :
                   Certifies(k.evidence, k.src, m) \/ m \in k.left \cap k.observed
  /\ k.target \notin k.left => k.result # Nothing /\ (compiles => k.result.certified)

DecisionKept(k) ==
  k.result # Nothing /\ (Compiles(k.result.key) => k.result.certified)

CheckKept(k) == k.stage # "idle" =>
  /\ EvidenceKept(k)
  /\ k.stage = "recording" => RecordingKept(k)
  /\ k.stage \in {"finishing", "answered"} => DecisionKept(k)

ChecksKept == \A c \in Checks : CheckKept(check[c])

Inductive == TypeOK /\ StoreSound /\ StoreClosed /\ ResultsValid /\ ChecksKept

-----------------------------------------------------------------------------
(***************************************************************************)
(* Numbers and the order of nodes.                                         *)
(***************************************************************************)
\* Every nonempty set of numbers up to a bound has a least one.
LEMMA LeastNumber ==
  ASSUME NEW n \in Nat, NEW T \in SUBSET (0 .. n), T # {}
  PROVE  \E k \in T : \A j \in T : k <= j
<1> DEFINE below == {0 .. k : k \in T}
<1>1. below \subseteq FiniteSubsetsOf(0 .. n)
  <2> SUFFICES ASSUME NEW k \in T PROVE 0 .. k \in FiniteSubsetsOf(0 .. n)
    OBVIOUS
  <2>1. k \in Int /\ 0 .. k \subseteq 0 .. n
    OBVIOUS
  <2>2. IsFiniteSet(0 .. k)
    BY <2>1, FS_Interval
  <2>3. QED
    BY <2>1, <2>2 DEF FiniteSubsetsOf
<1>2. below # {}
  OBVIOUS
<1>3. IsWellFoundedOn(StrictSubsetOrdering(0 .. n), FiniteSubsetsOf(0 .. n))
  BY FS_StrictSubsetOrderingWellFounded
<1> HIDE DEF below
<1>4. PICK x \in below : \A y \in below : ~ <<y, x>> \in StrictSubsetOrdering(0 .. n)
  BY <1>1, <1>2, <1>3, WFMin
<1>5. PICK k \in T : x = 0 .. k
  BY DEF below
<1>6. ASSUME NEW j \in T, ~ k <= j PROVE FALSE
  <2>1. 0 .. j \in below
    BY DEF below
  <2>2. j \in Nat /\ k \in Nat /\ j < k
    BY <1>6
  <2>3. 0 .. j \subseteq 0 .. k /\ k \in 0 .. k /\ k \notin 0 .. j
    BY <2>2
  <2>4. 0 .. j \subseteq 0 .. n /\ 0 .. k \subseteq 0 .. n
    BY <2>2
  <2>5. <<0 .. j, 0 .. k>> \in StrictSubsetOrdering(0 .. n)
    BY <2>3, <2>4 DEF StrictSubsetOrdering
  <2>6. QED
    BY <1>4, <1>5, <2>1, <2>5
<1>7. QED
  BY <1>6


LEMMA OrderFacts ==
  /\ Len(Order) \in Nat /\ DOMAIN Order = 1 .. Len(Order)
  /\ \A i \in 1 .. Len(Order) : Order[i] \in Nodes
  /\ \A n \in Nodes : \E i \in 1 .. Len(Order) : Order[i] = n
BY LeanAssumption DEF Nodes

-----------------------------------------------------------------------------
(***************************************************************************)
(* The chain of a node.                                                    *)
(***************************************************************************)
LEMMA ChainMembers ==
  ASSUME NEW n \in Nodes
  PROVE  /\ Chain[n] = {m \in Nodes : \A set \in SUBSET Nodes :
                          n \in set /\ Closed(set) => m \in set}
         /\ n \in Chain[n] /\ Chain[n] \subseteq Nodes
BY DEF Chain

LEMMA ChainInside ==
  ASSUME NEW n \in Nodes, NEW m \in Chain[n]
  PROVE  Chain[m] \subseteq Chain[n]
<1>1. m \in Nodes /\ Chain[n] \subseteq Nodes
  BY ChainMembers
<1>2. Closed(Chain[n])
  <2> SUFFICES ASSUME NEW k \in Chain[n], NEW d \in DepsOf[k]
               PROVE  d \in Chain[n]
    BY DEF Closed
  <2>1. d \in Nodes
    BY <1>1, LeanAssumption
  <2>2. ASSUME NEW set \in SUBSET Nodes, n \in set, Closed(set)
        PROVE  d \in set
    <3>1. k \in set
      BY <2>2, ChainMembers
    <3>2. QED
      BY <2>2, <3>1 DEF Closed
  <2>3. QED
    BY <2>1, <2>2, ChainMembers
<1>3. QED
  BY <1>1, <1>2, ChainMembers

LEMMA DependencyInside ==
  ASSUME NEW n \in Nodes, NEW m \in DepsOf[n]
  PROVE  m \in Nodes /\ m \in Chain[n] /\ Chain[m] \subseteq Chain[n]
<1>1. m \in Nodes
  BY LeanAssumption
<1>2. m \in Chain[n]
  BY <1>1, ChainMembers DEF Closed
<1>3. QED
  BY <1>1, <1>2, ChainInside

\* A node's chain is the node and the chains of its dependencies.
LEMMA ChainSplit ==
  ASSUME NEW n \in Nodes, NEW k \in Chain[n], k # n
  PROVE  \E m \in DepsOf[n] : k \in Chain[m]
<1> DEFINE all == {n} \cup UNION {Chain[m] : m \in DepsOf[n]}
<1>1. all \subseteq Nodes
  BY ChainMembers, DependencyInside
<1>2. Closed(all)
  <2> SUFFICES ASSUME NEW j \in all, NEW d \in DepsOf[j]
               PROVE  d \in all
    BY DEF Closed
  <2>1. CASE j = n
    <3>1. d \in Nodes
      BY <2>1, DependencyInside
    <3>2. d \in Chain[d]
      BY <3>1, ChainMembers
    <3>3. QED
      BY <2>1, <3>2
  <2>2. CASE j # n
    <3>1. PICK m \in DepsOf[n] : j \in Chain[m]
      BY <2>2
    <3>2. m \in Nodes /\ j \in Nodes
      BY <1>1, <3>1, DependencyInside
    <3>3. d \in Chain[j]
      BY <3>2, DependencyInside
    <3>4. d \in Chain[m]
      BY <3>1, <3>2, <3>3, ChainInside
    <3>5. QED
      BY <3>1, <3>4
  <2>3. QED
    BY <2>1, <2>2
<1>3. k \in all
  <2>1. n \in all
    OBVIOUS
  <2>2. QED
    BY <1>1, <1>2, <2>1, ChainMembers
<1>4. QED
  BY <1>3

-----------------------------------------------------------------------------
(***************************************************************************)
(* Keys.                                                                   *)
(***************************************************************************)
LEMMA KeyFacts ==
  ASSUME NEW src \in [Nodes -> Sources], NEW n \in Nodes
  PROVE  /\ KeyOf(src, n) \in Keys
         /\ KeyOf(src, n).node = n
         /\ DOMAIN KeyOf(src, n).text = Chain[n]
         /\ \A m \in Chain[n] : KeyOf(src, n).text[m] = src[m]
<1>1. KeyOf(src, n) \in Keys
  BY DEF Keys
<1>2. QED
  BY <1>1 DEF KeyOf

LEMMA KeyInside ==
  ASSUME NEW src \in [Nodes -> Sources], NEW n \in Nodes, NEW m \in Chain[n]
  PROVE  KeyOf(KeyOf(src, n).text, m) = KeyOf(src, m)
<1>1. Chain[m] \subseteq Chain[n]
  BY ChainInside
<1>2. \A j \in Chain[m] : KeyOf(src, n).text[j] = src[j]
  BY <1>1, KeyFacts
<1> DEFINE text == KeyOf(src, n).text
<1> HIDE DEF text
<1>3. \A j \in Chain[m] : text[j] = src[j]
  BY <1>2 DEF text
<1>4. KeyOf(text, m) = KeyOf(src, m)
  BY <1>3 DEF KeyOf
<1>5. QED
  BY <1>4 DEF text

LEMMA CompilesInside ==
  ASSUME NEW src \in [Nodes -> Sources], NEW n \in Nodes, NEW m \in Chain[n],
         Compiles(KeyOf(src, n))
  PROVE  Compiles(KeyOf(src, m))
<1>1. m \in Nodes /\ Chain[m] \subseteq Chain[n]
  BY ChainInside, ChainMembers
<1>2. QED
  BY <1>1, KeyFacts DEF Compiles

\* Every key is that of some sources.
LEMMA KeysHaveSources ==
  ASSUME NEW key \in Keys
  PROVE  \E src \in [Nodes -> Sources], n \in Nodes : key = KeyOf(src, n)
BY DEF Keys

LEMMA ResultFacts ==
  ASSUME NEW r \in Result
  PROVE  /\ r.key \in Keys /\ r.certified \in BOOLEAN /\ r.sorry \in BOOLEAN
         /\ r.below \in {"yes", "no", "unknown"} /\ r # Nothing
BY NothingAssumption DEF Result

-----------------------------------------------------------------------------
(***************************************************************************)
(* What is concluded about a node from results of its dependencies.        *)
(***************************************************************************)
Outcomes == [Nodes -> Result \cup {Nothing}]

LEMMA BelowTrue ==
  ASSUME NEW src \in [Nodes -> Sources], NEW n \in Nodes,
         NEW res \in Outcomes,
         \A m \in DepsOf[n] : Certifies(res, src, m) => Sound(res[m])
  PROVE  LET below == DependenciesSorry(res, src, n) IN
         /\ below \in {"yes", "no", "unknown"}
         /\ below = "yes" => \E k \in Chain[n] : src[k] = "gap"
         /\ below = "no" => \A k \in Chain[n] \ {n} : src[k] # "gap"
<1> DEFINE below == DependenciesSorry(res, src, n)
<1>1. below \in {"yes", "no", "unknown"}
  BY DEF DependenciesSorry
<1>2. ASSUME NEW m \in DepsOf[n], Certifies(res, src, m)
      PROVE  /\ m \in Nodes /\ m \in Chain[m] /\ Chain[m] \subseteq Chain[n]
             /\ res[m].sorry <=> src[m] = "gap"
             /\ res[m].below = "yes" => \E k \in Chain[m] : src[k] = "gap"
             /\ res[m].below = "no" => \A k \in Chain[m] \ {m} : src[k] # "gap"
             /\ res[m].below \in {"yes", "no", "unknown"}
  <2>1. m \in Nodes /\ m \in Chain[m] /\ Chain[m] \subseteq Chain[n]
    BY DependencyInside, ChainMembers
  <2>2. res[m] \in Result /\ res[m].key = KeyOf(src, m)
    BY <1>2, <2>1 DEF Certifies, Outcomes
  <2>3. /\ res[m].key.node = m
        /\ \A k \in Chain[m] : res[m].key.text[k] = src[k]
    BY <2>1, <2>2, KeyFacts
  <2>4. Sound(res[m])
    BY <1>2
  <2>5. QED
    BY <2>1, <2>2, <2>3, <2>4, ResultFacts DEF Sound
<1>3. ASSUME below = "yes"
      PROVE  \E k \in Chain[n] : src[k] = "gap"
  <2>1. PICK m \in DepsOf[n] : res[m].sorry \/ res[m].below = "yes"
    BY <1>3 DEF DependenciesSorry
  <2>2. Certifies(res, src, m)
    BY <1>3 DEF DependenciesSorry
  <2>3. QED
    BY <1>2, <2>1, <2>2
<1>4. ASSUME below = "no", NEW k \in Chain[n] \ {n}
      PROVE  src[k] # "gap"
  <2>1. PICK m \in DepsOf[n] : k \in Chain[m]
    BY ChainSplit
  <2>2. /\ Certifies(res, src, m) /\ res[m].below # "unknown"
        /\ ~ res[m].sorry /\ res[m].below # "yes"
    BY <1>4 DEF DependenciesSorry
  <2>3. QED
    BY <1>2, <2>1, <2>2
<1>5. QED
  BY <1>1, <1>3, <1>4

\* A result with what is concluded about its dependencies is sound again.
LEMMA SoundAgain ==
  ASSUME NEW src \in [Nodes -> Sources], NEW n \in Nodes,
         NEW res \in Outcomes,
         \A m \in DepsOf[n] : Certifies(res, src, m) => Sound(res[m]),
         NEW r \in Result, r.key = KeyOf(src, n), r.sorry <=> src[n] = "gap",
         r.certified => Compiles(r.key), r.below = DependenciesSorry(res, src, n)
  PROVE  Sound(r)
<1>1. /\ r.key.node = n
      /\ n \in Chain[n]
      /\ \A k \in Chain[n] : r.key.text[k] = src[k]
  BY KeyFacts, ChainMembers
<1>2. /\ r.below = "yes" => \E k \in Chain[n] : src[k] = "gap"
      /\ r.below = "no" => \A k \in Chain[n] \ {n} : src[k] # "gap"
  BY BelowTrue
<1>3. QED
  BY <1>1, <1>2 DEF Sound

-----------------------------------------------------------------------------
(***************************************************************************)
(* Restoring one node.                                                     *)
(***************************************************************************)
LEMMA RestoreNodeFacts ==
  ASSUME store \subseteq Result, StoreSound,
         NEW src \in [Nodes -> Sources], NEW nodes, NEW n \in Nodes,
         NEW res \in Outcomes, Evident(res)
  PROVE  /\ RestoreNode(res, src, nodes, n) \in Outcomes
         /\ Evident(RestoreNode(res, src, nodes, n))
<1> DEFINE stored == {r \in store : r.key = KeyOf(src, n)}
           r == CHOOSE q \in stored : TRUE
           new == [r EXCEPT !.certified = AllCertified(res, src, n),
                            !.below = DependenciesSorry(res, src, n)]
<1>1. CASE n \notin nodes \/ stored = {}
  BY <1>1 DEF RestoreNode
<1>2. CASE n \in nodes /\ stored # {}
  <2>1. r \in store /\ r.key = KeyOf(src, n)
    BY <1>2
  <2>2. r \in Result /\ r.certified /\ Sound(r)
    BY <2>1 DEF StoreSound
  <2> HIDE DEF r
  <2>3. \A m \in DepsOf[n] : Certifies(res, src, m) => Sound(res[m])
    BY DependencyInside DEF Evident, Certifies, Valid
  <2>4. DependenciesSorry(res, src, n) \in {"yes", "no", "unknown"}
    BY <2>3, BelowTrue
  <2>5. AllCertified(res, src, n) \in BOOLEAN
    BY DEF AllCertified
  <2>6. /\ new \in Result /\ new.key = KeyOf(src, n) /\ new.sorry = r.sorry
        /\ new.below = DependenciesSorry(res, src, n)
    BY <2>1, <2>2, <2>4, <2>5 DEF Result
  <2>7. r.sorry <=> src[n] = "gap"
    BY <2>1, <2>2, KeyFacts, ChainMembers DEF Sound
  <2>8. Compiles(new.key)
    BY <2>1, <2>2, <2>6 DEF Sound
  <2>9. Known(new.key)
    BY <2>1, <2>6 DEF Stored, Known
  <2> HIDE DEF new
  <2>10. Sound(new)
    BY <2>3, <2>6, <2>7, <2>8, SoundAgain
  <2>11. new.key.node = n
    BY <2>6, KeyFacts
  <2>12. RestoreNode(res, src, nodes, n) = [res EXCEPT ![n] = new]
    BY <1>2 DEF RestoreNode, new, r
  <2>13. [res EXCEPT ![n] = new] \in Outcomes
    BY <2>6 DEF Outcomes
  <2>14. Evident([res EXCEPT ![n] = new])
    BY <2>9, <2>10, <2>11 DEF Evident, Valid, Outcomes
  <2>15. QED
    BY <2>12, <2>13, <2>14
<1>3. QED
  BY <1>1, <1>2

-----------------------------------------------------------------------------
(***************************************************************************)
(* Restoring one node after the other.  A counterexample to what is        *)
(* claimed of every number of nodes would have a least number.             *)
(***************************************************************************)
Step(f, src, nodes, i) == f[i] = RestoreNode(f[i - 1], src, nodes, Order[i])

IsRestore(f, res, src, nodes, k) ==
  f = [i \in 0 .. k |-> IF i = 0 THEN res
                        ELSE RestoreNode(f[i - 1], src, nodes, Order[i])]

LEMMA RestoreExists ==
  ASSUME NEW res, NEW src, NEW nodes, NEW n \in Nat
  PROVE  \E f : IsRestore(f, res, src, nodes, n)
<1> DEFINE T == {k \in 0 .. n : ~ \E f : IsRestore(f, res, src, nodes, k)}
<1>1. ASSUME T # {} PROVE FALSE
  <2>1. T \in SUBSET (0 .. n)
    OBVIOUS
  <2> HIDE DEF T
  <2>2. PICK k \in T : \A j \in T : k <= j
    BY <1>1, <2>1, LeastNumber
  <2>3. k \in 0 .. n /\ ~ \E f : IsRestore(f, res, src, nodes, k)
    BY DEF T
  <2>4. CASE k = 0
    <3>1. IsRestore([i \in 0 .. 0 |-> res], res, src, nodes, 0)
      BY DEF IsRestore
    <3>2. QED
      BY <2>3, <2>4, <3>1
  <2>5. CASE k # 0
    <3>1. k - 1 \in 0 .. n /\ k \in Nat /\ k - 1 \in Nat
      BY <2>3, <2>5
    <3>2. k - 1 \notin T
      BY <2>2, <3>1
    <3>3. PICK g : IsRestore(g, res, src, nodes, k - 1)
      BY <3>1, <3>2 DEF T
    <3> DEFINE f == [i \in 0 .. k |-> IF i = k THEN RestoreNode(g[k - 1], src, nodes, Order[k])
                                      ELSE g[i]]
    <3>4. ASSUME NEW i \in 0 .. k
          PROVE  f[i] = IF i = 0 THEN res
                        ELSE RestoreNode(f[i - 1], src, nodes, Order[i])
      <4>1. CASE i = k
        <5>1. f[i] = RestoreNode(g[k - 1], src, nodes, Order[k])
          BY <4>1
        <5>2. f[k - 1] = g[k - 1]
          BY <3>1
        <5> HIDE DEF f
        <5>3. QED
          BY <2>5, <4>1, <5>1, <5>2
      <4>2. CASE i # k
        <5>1. i \in 0 .. (k - 1)
          BY <3>1, <4>2
        <5>2. g[i] = IF i = 0 THEN res
                     ELSE RestoreNode(g[i - 1], src, nodes, Order[i])
          BY <3>3, <5>1 DEF IsRestore
        <5>3. f[i] = g[i]
          BY <4>2
        <5>4. i # 0 => f[i - 1] = g[i - 1]
          BY <3>1, <5>1
        <5> HIDE DEF f
        <5>5. QED
          BY <5>2, <5>3, <5>4
      <4>3. QED
        BY <4>1, <4>2
    <3>5. f = [i \in 0 .. k |-> f[i]]
      OBVIOUS
    <3> HIDE DEF f
    <3>6. IsRestore(f, res, src, nodes, k)
      BY <3>4, <3>5 DEF IsRestore
    <3>7. QED
      BY <2>3, <3>6
  <2>6. QED
    BY <2>4, <2>5
<1>2. QED
  BY <1>1

\* Restored is what the last of the steps leaves.
LEMMA RestoredSteps ==
  ASSUME NEW res, NEW src, NEW nodes
  PROVE  \E f : /\ f[0] = res
                /\ \A i \in 1 .. Len(Order) : Step(f, src, nodes, i)
                /\ Restored(res, src, nodes) = f[Len(Order)]
<1> DEFINE N == Len(Order)
           f == CHOOSE g : IsRestore(g, res, src, nodes, N)
<1>1. N \in Nat
  BY OrderFacts
<1>2. Restored(res, src, nodes) = f[N]
  BY DEF Restored, IsRestore
<1>3. IsRestore(f, res, src, nodes, N)
  BY <1>1, RestoreExists
<1> HIDE DEF f
<1>4. ASSUME NEW i \in 0 .. N
      PROVE  f[i] = IF i = 0 THEN res ELSE RestoreNode(f[i - 1], src, nodes, Order[i])
  BY <1>3 DEF IsRestore
<1>5. f[0] = res
  BY <1>1, <1>4
<1>6. \A i \in 1 .. N : Step(f, src, nodes, i)
  BY <1>1, <1>4 DEF Step
<1>7. QED
  BY <1>2, <1>5, <1>6

LEMMA RestoreStages ==
  ASSUME store \subseteq Result, StoreSound,
         NEW src \in [Nodes -> Sources], NEW nodes,
         NEW res \in Outcomes, Evident(res),
         NEW f, f[0] = res, \A i \in 1 .. Len(Order) : Step(f, src, nodes, i)
  PROVE  \A i \in 0 .. Len(Order) : f[i] \in Outcomes /\ Evident(f[i])
<1> DEFINE T == {k \in 0 .. Len(Order) : ~ (f[k] \in Outcomes /\ Evident(f[k]))}
<1>1. ASSUME T # {} PROVE FALSE
  <2>1. T \in SUBSET (0 .. Len(Order)) /\ Len(Order) \in Nat
    BY OrderFacts
  <2> HIDE DEF T
  <2>2. PICK k \in T : \A j \in T : k <= j
    BY <1>1, <2>1, LeastNumber
  <2>3. k \in 0 .. Len(Order) /\ ~ (f[k] \in Outcomes /\ Evident(f[k]))
    BY DEF T
  <2>4. k # 0
    BY <2>3
  <2>5. k - 1 \in 0 .. Len(Order) /\ k \in 1 .. Len(Order) /\ ~ k <= k - 1
    BY <2>1, <2>3, <2>4
  <2>6. k - 1 \notin T
    BY <2>2, <2>5
  <2>7. f[k - 1] \in Outcomes /\ Evident(f[k - 1])
    BY <2>5, <2>6 DEF T
  <2>8. Order[k] \in Nodes
    BY <2>5, OrderFacts
  <2>9. f[k] = RestoreNode(f[k - 1], src, nodes, Order[k])
    BY <2>5 DEF Step
  <2>10. QED
    BY <2>3, <2>7, <2>8, <2>9, RestoreNodeFacts
<1>2. QED
  BY <1>1

\* Results stay sound when they are restored.
LEMMA RestoredEvident ==
  ASSUME store \subseteq Result, StoreSound,
         NEW src \in [Nodes -> Sources], NEW nodes,
         NEW res \in Outcomes, Evident(res)
  PROVE  /\ Restored(res, src, nodes) \in Outcomes
         /\ Evident(Restored(res, src, nodes))
<1>1. PICK f : /\ f[0] = res
               /\ \A i \in 1 .. Len(Order) : Step(f, src, nodes, i)
               /\ Restored(res, src, nodes) = f[Len(Order)]
  BY RestoredSteps
<1>2. \A i \in 0 .. Len(Order) : f[i] \in Outcomes /\ Evident(f[i])
  BY <1>1, RestoreStages
<1>3. Len(Order) \in 0 .. Len(Order)
  BY OrderFacts
<1>4. QED
  BY <1>1, <1>2, <1>3

\* A node shows its certificate if all it depends on has one, since its
\* dependencies come first.
Shown(res, src, n) == Certifies(res, src, n) /\ res[n].below # "unknown"

LEMMA RestoredShown ==
  ASSUME store \subseteq Result, StoreSound,
         NEW src \in [Nodes -> Sources],
         NEW res \in Outcomes, Evident(res),
         NEW n \in Nodes, \A j \in Chain[n] : Stored(KeyOf(src, j))
  PROVE  Shown(Restored(res, src, Nodes), src, n)
<1>1. PICK f : /\ f[0] = res
               /\ \A i \in 1 .. Len(Order) : Step(f, src, Nodes, i)
               /\ Restored(res, src, Nodes) = f[Len(Order)]
  BY RestoredSteps
<1>2. \A i \in 0 .. Len(Order) : f[i] \in Outcomes
  BY <1>1, RestoreStages
<1> DEFINE Whole(m) == \A j \in Chain[m] : Stored(KeyOf(src, j))
           Done(i) == \A j \in 1 .. i :
             Whole(Order[j]) => Shown(f[i], src, Order[j])
           T == {k \in 0 .. Len(Order) : ~ Done(k)}
<1>3. Len(Order) \in Nat /\ \A j \in 1 .. Len(Order) : Order[j] \in Nodes
  BY OrderFacts
<1>4. ASSUME T # {} PROVE FALSE
  <2>1. T \in SUBSET (0 .. Len(Order))
    OBVIOUS
  <2> HIDE DEF T
  <2>2. PICK k \in T : \A j \in T : k <= j
    BY <1>3, <1>4, <2>1, LeastNumber
  <2>3. k \in 0 .. Len(Order) /\ ~ Done(k)
    BY DEF T
  <2>4. k # 0
    BY <2>3
  <2>5. k - 1 \in 0 .. Len(Order) /\ k \in 1 .. Len(Order) /\ ~ k <= k - 1
    BY <1>3, <2>3, <2>4
  <2>6. k - 1 \notin T
    BY <2>2, <2>5
  <2>7. Done(k - 1)
    BY <2>5, <2>6 DEF T
  <2> DEFINE before == f[k - 1]
             m == Order[k]
             stored == {r \in store : r.key = KeyOf(src, m)}
             q == CHOOSE r \in stored : TRUE
             new == [q EXCEPT !.certified = AllCertified(before, src, m),
                              !.below = DependenciesSorry(before, src, m)]
  <2>8. f[k] = RestoreNode(before, src, Nodes, m) /\ m \in Nodes
    BY <1>1, <1>3, <2>5 DEF Step
  <2>9. before \in Outcomes
    BY <1>2, <2>5
  <2>10. CASE stored = {}
    <3>1. f[k] = before
      BY <2>8, <2>10 DEF RestoreNode
    <3>2. ~ Whole(m)
      BY <2>8, <2>10, ChainMembers DEF Stored
    <3>3. \A j \in 1 .. k : j = k \/ j \in 1 .. (k - 1)
      BY <2>5
    <3>4. Done(k)
      BY <2>7, <3>1, <3>2, <3>3
    <3>5. QED
      BY <2>3, <3>4
  <2>11. CASE stored # {}
    <3>1. q \in store /\ q.key = KeyOf(src, m) /\ q \in Result
      BY <2>11
    <3> HIDE DEF q
    <3>2. f[k] = [before EXCEPT ![m] = new]
      BY <2>8, <2>11 DEF RestoreNode, q
    <3>3. Whole(m) => \A d \in DepsOf[m] : Shown(before, src, d)
      <4> SUFFICES ASSUME Whole(m), NEW d \in DepsOf[m] PROVE Shown(before, src, d)
        OBVIOUS
      <4>1. d \in Nodes /\ Chain[d] \subseteq Chain[m]
        BY <2>8, DependencyInside
      <4>2. Whole(d)
        BY <4>1
      <4>3. PICK j \in 1 .. Len(Order) : Order[j] = d
        BY <4>1, OrderFacts
      <4>4. j < k
        BY <2>5, <4>3, OrderFacts, LeanAssumption
      <4>5. j \in 1 .. (k - 1)
        BY <2>5, <4>4
      <4>6. QED
        BY <2>7, <4>2, <4>3, <4>5
    <3>4. Whole(m) => AllCertified(before, src, m)
      BY <3>3 DEF AllCertified, Shown
    <3>5. Whole(m) => DependenciesSorry(before, src, m) # "unknown"
      BY <3>3 DEF DependenciesSorry, Shown
    <3>6. /\ new.key = KeyOf(src, m) /\ new.certified = AllCertified(before, src, m)
          /\ new.below = DependenciesSorry(before, src, m)
      BY <3>1 DEF Result
    <3>7. new # Nothing
      <4>1. \A d \in DepsOf[m] : Certifies(before, src, d) => Sound(before[d])
        BY <1>1, <2>5, <2>8, RestoreStages, DependencyInside DEF Evident, Certifies, Valid
      <4>2. DependenciesSorry(before, src, m) \in {"yes", "no", "unknown"}
        BY <2>8, <2>9, <4>1, BelowTrue
      <4>3. new \in Result
        BY <3>1, <4>2 DEF Result, AllCertified
      <4>4. QED
        BY <4>3, NothingAssumption
    <3> HIDE DEF new
    <3>8. Whole(m) => Shown([before EXCEPT ![m] = new], src, m)
      BY <2>8, <2>9, <3>4, <3>5, <3>6, <3>7 DEF Shown, Certifies, Outcomes
    <3>9. \A d \in Nodes : d # m /\ Shown(before, src, d)
            => Shown([before EXCEPT ![m] = new], src, d)
      BY <2>9 DEF Shown, Certifies, Outcomes
    <3>10. ASSUME NEW j \in 1 .. k, Whole(Order[j])
           PROVE  Shown(f[k], src, Order[j])
      <4>1. CASE Order[j] = m
        BY <3>2, <3>8, <3>10, <4>1
      <4>2. CASE Order[j] # m
        <5>1. j \in 1 .. (k - 1) /\ j \in 1 .. Len(Order)
          BY <2>5, <4>2
        <5>2. Shown(before, src, Order[j]) /\ Order[j] \in Nodes
          BY <1>3, <2>7, <3>10, <5>1
        <5>3. QED
          BY <3>2, <3>9, <4>2, <5>2
      <4>3. QED
        BY <4>1, <4>2
    <3>11. QED
      BY <2>3, <3>10
  <2>12. QED
    BY <2>10, <2>11
<1>5. Done(Len(Order))
  BY <1>3, <1>4
<1>6. PICK j \in 1 .. Len(Order) : Order[j] = n
  BY OrderFacts
<1>7. QED
  BY <1>1, <1>5, <1>6

-----------------------------------------------------------------------------
(***************************************************************************)
(* Steps that record nothing.                                              *)
(***************************************************************************)
Idle == [stage |-> "idle"]

Others ==
  /\ head \in [Services -> [Nodes -> Sources]]
  /\ opened \in [Services -> {"unopened", "failed", "open"}]
  /\ missed \subseteq Keys
  /\ synced \in [Services -> BOOLEAN]
  /\ snapshot \in [Services -> {"free", "reading", "held"}]
  /\ seen \in [Services -> BOOLEAN]
  /\ saves \in 0 .. MaxSaves

StoreOK == store \subseteq Result /\ \A r, q \in store : r.key = q.key => r = q

ResultsOK == results \in [Services -> Outcomes] /\ ResultsValid

ChecksOK == check \in [Checks -> Check \cup {Idle}] /\ ChecksKept

LEMMA InductiveParts ==
  Inductive <=> Others /\ StoreOK /\ StoreSound /\ StoreClosed /\ ResultsOK /\ ChecksOK
<1>1. Inductive => Others /\ StoreOK /\ StoreSound /\ StoreClosed /\ ResultsOK /\ ChecksOK
  BY DEF Inductive, TypeOK, Others, StoreOK, ResultsOK, ChecksOK, Outcomes, Idle
<1>2. Others /\ StoreOK /\ StoreSound /\ StoreClosed /\ ResultsOK /\ ChecksOK => Inductive
  BY DEF Inductive, TypeOK, Others, StoreOK, ResultsOK, ChecksOK, Outcomes, Idle,
         ResultsValid, Evident
<1>3. QED
  BY <1>1, <1>2

LEMMA InductivePartsNext ==
  (Others /\ StoreOK /\ StoreSound /\ StoreClosed /\ ResultsOK /\ ChecksOK)' => Inductive'
BY DEF Inductive, TypeOK, Others, StoreOK, ResultsOK, ChecksOK, Outcomes, Idle,
       ResultsValid, Evident

LEMMA InitInductive == Init => Inductive
<1> SUFFICES ASSUME Init PROVE Inductive
  OBVIOUS
<1>1. Others
  BY LeanAssumption DEF Init, Others
<1>2. StoreOK /\ StoreSound /\ StoreClosed
  BY DEF Init, StoreOK, StoreSound, StoreClosed
<1>3. ResultsOK
  BY DEF Init, ResultsOK, NoResults, Outcomes, ResultsValid, Evident
<1>4. ChecksOK
  BY DEF Init, ChecksOK, ChecksKept, CheckKept, Idle
<1>5. QED
  BY <1>1, <1>2, <1>3, <1>4, InductiveParts

\* No key that was certified is lost.
Grows == \A key : Known(key) => Known(key)'

LEMMA StillValid ==
  ASSUME Grows
  PROVE  /\ \A r : Valid(r) => Valid(r)'
         /\ \A k : CheckKept(k) => CheckKept(k)'
<1>1. \A r : Valid(r) => Valid(r)'
  BY DEF Grows, Valid
<1>2. \A k : EvidenceKept(k) => EvidenceKept(k)'
  BY <1>1 DEF EvidenceKept
<1>3. \A k : CheckKept(k) => CheckKept(k)'
  BY <1>2 DEF CheckKept, RecordingKept, DecisionKept
<1>4. QED
  BY <1>1, <1>3

LEMMA ResultsStay ==
  ASSUME ResultsOK, Grows, results' = results
  PROVE  ResultsOK'
<1>1. ASSUME NEW s \in Services, NEW n \in Nodes, results[s][n] # Nothing
      PROVE  results[s][n].key.node = n /\ Valid(results[s][n])'
  BY <1>1, StillValid DEF ResultsOK, ResultsValid, Evident
<1>2. QED
  BY <1>1 DEF ResultsOK, ResultsValid, Evident, Valid

LEMMA ChecksStay ==
  ASSUME ChecksOK, Grows, check' = check
  PROVE  ChecksOK'
<1>1. ASSUME NEW c \in Checks
      PROVE  CheckKept(check[c])'
  <2>1. PICK k : k = check[c]
    OBVIOUS
  <2>2. CheckKept(k)'
    BY <2>1, StillValid DEF ChecksOK, ChecksKept
  <2>3. k = check'[c]
    BY <2>1
  <2>4. QED
    BY <2>2, <2>3
<1>2. QED
  BY <1>1 DEF ChecksOK, ChecksKept

LEMMA OneCheck ==
  ASSUME ChecksOK, Grows, NEW c \in Checks, NEW k \in Check \cup {Idle},
         check' = [check EXCEPT ![c] = k], CheckKept(k)'
  PROVE  ChecksOK'
<1>1. check' \in [Checks -> Check \cup {Idle}]
  BY DEF ChecksOK
<1>2. ASSUME NEW b \in Checks
      PROVE  CheckKept(check[b])'
  <2>1. PICK j : j = check'[b]
    OBVIOUS
  <2>2. CASE b = c
    <3>1. j = k
      BY <2>1, <2>2 DEF ChecksOK
    <3>2. CheckKept(j)'
      BY <3>1
    <3>3. QED
      BY <2>1, <3>2
  <2>3. CASE b # c
    <3>1. j = check[b]
      BY <2>1, <2>3 DEF ChecksOK
    <3>2. CheckKept(j)'
      BY <3>1, StillValid DEF ChecksOK, ChecksKept
    <3>3. QED
      BY <2>1, <3>2
  <2>4. QED
    BY <2>2, <2>3
<1>3. QED
  BY <1>1, <1>2 DEF ChecksOK, ChecksKept

LEMMA SameStore ==
  ASSUME StoreOK, StoreSound, StoreClosed, store' = store, missed' = missed
  PROVE  StoreOK' /\ StoreSound' /\ StoreClosed' /\ Grows
BY DEF StoreOK, StoreSound, StoreClosed, Stored, Known, Grows

\* Nothing is stored, and one check goes on or none.
LEMMA QuietStep ==
  ASSUME Inductive, Others', UNCHANGED <<store, missed, results>>,
         \/ UNCHANGED check
         \/ \E c \in Checks, k \in Check \cup {Idle} :
              check' = [check EXCEPT ![c] = k] /\ CheckKept(k)
  PROVE  Inductive'
<1>1. /\ StoreOK /\ StoreSound /\ StoreClosed /\ ResultsOK /\ ChecksOK
      /\ store' = store /\ missed' = missed /\ results' = results
  BY InductiveParts
<1>2. StoreOK' /\ StoreSound' /\ StoreClosed' /\ Grows
  BY <1>1, SameStore
<1>3. ResultsOK'
  BY <1>1, <1>2, ResultsStay
<1>4. ChecksOK'
  <2>1. CASE UNCHANGED check
    BY <1>1, <1>2, <2>1, ChecksStay
  <2>2. ASSUME NEW c \in Checks, NEW k \in Check \cup {Idle},
               check' = [check EXCEPT ![c] = k], CheckKept(k)
        PROVE  ChecksOK'
    <3>1. CheckKept(k)'
      BY <1>2, <2>2, StillValid
    <3>2. QED
      BY <1>1, <1>2, <2>2, <3>1, OneCheck
  <2>3. QED
    BY <2>1, <2>2
<1>5. QED
  BY <1>2, <1>3, <1>4, InductivePartsNext

\* A check that proceeds without learning anything.
Aside == {"captured", "waiting", "locked", "queued", "hired", "chained", "native"}

LEMMA StageStep ==
  ASSUME Inductive, NEW c \in Checks, check[c].stage # "idle", NEW stage \in Aside
  PROVE  \E k \in Check \cup {Idle} :
           [check EXCEPT ![c].stage = stage] = [check EXCEPT ![c] = k] /\ CheckKept(k)
<1>1. ChecksOK
  BY InductiveParts
<1>2. check[c] \in Check /\ CheckKept(check[c])
  BY <1>1 DEF ChecksOK, Idle, ChecksKept
<1> DEFINE k == [check[c] EXCEPT !.stage = stage]
<1>3. k \in Check /\ k.stage = stage
  BY <1>2 DEF Check, Stages, Aside
<1>4. /\ k.evidence = check[c].evidence /\ k.result = check[c].result
      /\ k.src = check[c].src /\ k.target = check[c].target
  BY <1>2 DEF Check
<1>5. [check EXCEPT ![c].stage = stage] = [check EXCEPT ![c] = k]
  BY <1>1 DEF ChecksOK
<1> HIDE DEF k
<1>6. CheckKept(k)
  BY <1>2, <1>3, <1>4 DEF CheckKept, EvidenceKept, Aside
<1>7. QED
  BY <1>3, <1>5, <1>6

LEMMA IdleStep ==
  ASSUME Inductive, NEW c \in Checks
  PROVE  [check EXCEPT ![c] = [stage |-> "idle"]] = [check EXCEPT ![c] = Idle]
         /\ CheckKept(Idle)
BY DEF Idle, CheckKept

LEMMA OneLookup ==
  ASSUME Others, NEW s \in Services, NEW retry \in BOOLEAN, NEW entry,
         Found(s, retry, entry)
  PROVE  /\ opened' \in [Services -> {"unopened", "failed", "open"}]
         /\ entry \in {"failed", "open"}
BY DEF Others, Found, Lookups

LEMMA ReadInductive ==
  ASSUME Inductive, NEW s \in Services, Read(s) \/ Look(s)
  PROVE  Inductive'
<1>1. Others'
  <2>1. CASE Read(s)
    BY <2>1, InductiveParts, OneLookup DEF Others, Read
  <2>2. CASE Look(s)
    BY <2>2, InductiveParts DEF Others, Look, Release
  <2>3. QED
    BY <2>1, <2>2
<1>2. QED
  BY <1>1, QuietStep DEF Read, Look

LEMMA SaveInductive ==
  ASSUME Inductive, NEW s \in Services, NEW n \in Nodes, NEW source \in Sources,
         Save(s, n, source)
  PROVE  Inductive'
<1>1. head' \in [Services -> [Nodes -> Sources]]
  BY InductiveParts DEF Others, Save
<1>2. Others'
  BY <1>1, InductiveParts, LeanAssumption DEF Others, Save, Release
<1>3. QED
  BY <1>2, QuietStep DEF Save

LEMMA CaptureInductive ==
  ASSUME Inductive, NEW s \in Services, NEW n \in Nodes, NEW c \in Checks,
         Capture(c, s, n)
  PROVE  Inductive'
<1>1. Others'
  BY InductiveParts DEF Others, Capture, Release
<1> DEFINE k == [stage |-> "captured", service |-> s, target |-> n, src |-> head[s],
                 left |-> {}, observed |-> {}, evidence |-> NoResults,
                 result |-> Nothing]
<1>2. k \in Check
  BY InductiveParts DEF Others, Check, Stages, NoResults
<1>3. CheckKept(k)
  BY DEF CheckKept, EvidenceKept, NoResults
<1>4. check' = [check EXCEPT ![c] = k]
  BY DEF Capture
<1> HIDE DEF k
<1>5. QED
  BY <1>1, <1>2, <1>3, <1>4, QuietStep DEF Capture

LEMMA FlyInductive ==
  ASSUME Inductive, NEW c \in Checks, Fly(c)
  PROVE  Inductive'
<1>1. Others'
  <2>1. check[c].service \in Services
    BY InductiveParts DEF Fly, ChecksOK, Check, Idle
  <2>2. PICK entry : /\ Found(check[c].service, TRUE, entry)
                     /\ Advance \/ UNCHANGED <<synced, seen>>
    BY DEF Fly
  <2>3. opened' \in [Services -> {"unopened", "failed", "open"}]
    BY <2>1, <2>2, InductiveParts, OneLookup
  <2>4. QED
    BY <2>2, <2>3, InductiveParts DEF Others, Fly, Advance
<1>2. check[c].stage # "idle" /\ "locked" \in Aside
  BY DEF Fly, Aside
<1>3. QED
  BY <1>1, <1>2, QuietStep, StageStep DEF Fly, Set

LEMMA HireInductive ==
  ASSUME Inductive, NEW c \in Checks, Hire(c)
  PROVE  Inductive'
<1>1. Others'
  BY InductiveParts DEF Others, Hire
<1>2. check[c].stage # "idle" /\ "hired" \in Aside
  BY DEF Hire, Aside
<1>3. QED
  BY <1>1, <1>2, QuietStep, StageStep DEF Hire, Set

LEMMA FailInductive ==
  ASSUME Inductive, NEW c \in Checks, Fail(c) \/ Reply(c)
  PROVE  Inductive'
<1>1. ChecksOK
  BY InductiveParts
<1>2. CASE Fail(c)
  <2>1. Others'
    BY <1>2, InductiveParts DEF Others, Fail
  <2>2. QED
    BY <1>2, <2>1, QuietStep, IdleStep DEF Fail
<1>3. CASE Reply(c)
  <2>1. check[c].service \in Services
    BY <1>1, <1>3 DEF Reply, ChecksOK, Check, Idle
  <2>2. Others'
    BY <1>3, <2>1, InductiveParts DEF Others, Reply, Release
  <2>3. QED
    BY <1>3, <2>2, QuietStep, IdleStep DEF Reply
<1>4. QED
  BY <1>2, <1>3

LEMMA RestartInductive ==
  ASSUME Inductive, Restart
  PROVE  Inductive'
<1>1. Others'
  BY InductiveParts DEF Others, Restart
<1>2. StoreOK' /\ StoreSound' /\ StoreClosed'
  BY InductiveParts, SameStore DEF Restart
<1>3. ResultsOK'
  BY DEF Restart, ResultsOK, NoResults, Outcomes, ResultsValid, Evident
<1>4. ChecksOK'
  BY DEF Restart, ChecksOK, ChecksKept, CheckKept, Idle
<1>5. QED
  BY <1>1, <1>2, <1>3, <1>4, InductivePartsNext

-----------------------------------------------------------------------------
(***************************************************************************)
(* Steps that restore results.                                             *)
(***************************************************************************)
LEMMA ResultsReplaced ==
  ASSUME Inductive, store' = store, missed' = missed, NEW s \in Services,
         NEW src \in [Nodes -> Sources], NEW nodes,
         results' = [results EXCEPT ![s] = Restored(results[s], src, nodes)]
  PROVE  ResultsOK'
<1>1. /\ store \subseteq Result /\ StoreSound
      /\ results \in [Services -> Outcomes]
      /\ \A t \in Services : Evident(results[t])
  BY InductiveParts DEF StoreOK, ResultsOK, ResultsValid
<1>2. PICK res : res = Restored(results[s], src, nodes)
  OBVIOUS
<1>3. res \in Outcomes /\ Evident(res)
  BY <1>1, <1>2, RestoredEvident
<1>4. results' = [results EXCEPT ![s] = res]
  BY <1>2
<1>5. \A t \in Services : results'[t] = res \/ results'[t] = results[t]
  BY <1>1, <1>4
<1>6. results' \in [Services -> Outcomes]
  BY <1>1, <1>3, <1>4
<1>7. ASSUME NEW t \in Services
      PROVE  Evident(results[t])'
  <2>1. PICK now : now = results'[t]
    OBVIOUS
  <2>2. Evident(now)
    BY <1>1, <1>3, <1>5, <2>1
  <2>3. QED
    BY <2>1, <2>2 DEF Evident, Valid, Known, Stored
<1>8. QED
  BY <1>6, <1>7 DEF ResultsOK, ResultsValid

LEMMA SyncInductive ==
  ASSUME Inductive, NEW s \in Services, Sync(s)
  PROVE  Inductive'
<1>1. /\ Others /\ ChecksOK /\ store' = store /\ missed' = missed
      /\ check' = check
  BY InductiveParts DEF Sync
<1>2. Others'
  BY <1>1 DEF Others, Sync
<1>3. StoreOK' /\ StoreSound' /\ StoreClosed' /\ Grows
  BY <1>1, InductiveParts, SameStore
<1>4. head[s] \in [Nodes -> Sources]
  BY <1>1 DEF Others
<1>5. ResultsOK'
  BY <1>1, <1>4, ResultsReplaced DEF Sync
<1>6. ChecksOK'
  BY <1>1, <1>3, ChecksStay
<1>7. QED
  BY <1>2, <1>3, <1>5, <1>6, InductivePartsNext

\* The cache answers if it holds a certificate of the captured inputs.
LEMMA CacheAnswers ==
  ASSUME Inductive, NEW c \in Checks, check[c].stage # "idle",
         NEW stage \in {"answered", "finishing"},
         NEW res \in Outcomes, Evident(res), Complete(res, c)
  PROVE  \E k \in Check \cup {Idle} :
           /\ [check EXCEPT ![c].stage = stage, ![c].result = res[check[c].target]]
                = [check EXCEPT ![c] = k]
           /\ CheckKept(k)
<1>1. ChecksOK
  BY InductiveParts
<1>2. check[c] \in Check /\ CheckKept(check[c])
  BY <1>1 DEF ChecksOK, Idle, ChecksKept
<1>3. PICK n \in Nodes : n = check[c].target
  BY <1>2 DEF Check
<1>4. /\ res[n] # Nothing /\ res[n].key = KeyOf(check[c].src, n) /\ res[n].certified
      /\ Valid(res[n])
  BY <1>3, ChainMembers DEF Complete, Certifies, Evident
<1>5. res[n] \in Result
  BY <1>4 DEF Outcomes
<1> DEFINE k == [check[c] EXCEPT !.stage = stage, !.result = res[n]]
<1>6. k \in Check /\ k.stage = stage /\ k.result = res[n]
  BY <1>2, <1>5 DEF Check, Stages
<1>7. k.evidence = check[c].evidence /\ k.src = check[c].src /\ k.target = n
  BY <1>2, <1>3 DEF Check
<1>8. [check EXCEPT ![c].stage = stage, ![c].result = res[check[c].target]]
        = [check EXCEPT ![c] = k]
  BY <1>1, <1>3 DEF ChecksOK
<1> HIDE DEF k
<1>9. CheckKept(k)
  BY <1>2, <1>4, <1>6, <1>7 DEF CheckKept, EvidenceKept, DecisionKept
<1>10. QED
  BY <1>6, <1>8, <1>9

LEMMA CachedInductive ==
  ASSUME Inductive, NEW c \in Checks, Cached(c) \/ CachedChain(c)
  PROVE  Inductive'
<1>1. /\ Others /\ ChecksOK /\ store' = store /\ missed' = missed
      /\ check[c].stage # "idle"
      /\ store \subseteq Result /\ StoreSound
  BY InductiveParts DEF Cached, CachedChain, After, StoreOK
<1>2. check[c] \in Check
  BY <1>1 DEF ChecksOK, Idle
<1>3. PICK s \in Services, n \in Nodes, src \in [Nodes -> Sources] :
        s = check[c].service /\ n = check[c].target /\ src = check[c].src
  BY <1>2 DEF Check
<1>4. results[s] \in Outcomes /\ Evident(results[s])
  BY InductiveParts DEF ResultsOK, ResultsValid
<1>5. PICK entry, res :
        /\ res = Recalled(s, entry, src, Chain[n])
        /\ Found(s, FALSE, entry)
        /\ results' = [results EXCEPT ![s] = res]
        /\ IF Complete(res, c)
           THEN \E stage \in {"answered", "finishing"} :
                  check' = [check EXCEPT ![c].stage = stage,
                                         ![c].result = res[check[c].target]]
           ELSE \E stage \in Aside : Set(c, stage)
  <2>1. CASE Cached(c)
    <3>1. After[check[c].stage] \in Aside
      BY <2>1 DEF Cached, After, Aside
    <3>2. QED
      BY <1>3, <2>1, <3>1 DEF Cached
  <2>2. CASE CachedChain(c)
    BY <1>3, <2>2 DEF CachedChain, Aside
  <2>3. QED
    BY <2>1, <2>2
<1>6. res \in Outcomes /\ Evident(res)
  BY <1>1, <1>4, <1>5, RestoredEvident DEF Recalled
<1>7. ResultsOK'
  <2>1. CASE entry = "open"
    <3>1. results' = [results EXCEPT ![s] = Restored(results[s], src, Chain[n])]
      BY <1>5, <2>1 DEF Recalled
    <3>2. QED
      BY <1>1, <3>1, ResultsReplaced
  <2>2. CASE entry # "open"
    <3>1. results' = results
      BY <1>5, <2>2, InductiveParts DEF Recalled, ResultsOK
    <3>2. QED
      BY <1>1, <3>1, InductiveParts, SameStore, ResultsStay
  <2>3. QED
    BY <2>1, <2>2
<1>8. Others'
  <2>1. opened' \in [Services -> {"unopened", "failed", "open"}]
    BY <1>1, <1>5, OneLookup
  <2>2. QED
    BY <1>1, <2>1 DEF Others, Cached, CachedChain
<1>9. StoreOK' /\ StoreSound' /\ StoreClosed' /\ Grows
  BY <1>1, InductiveParts, SameStore
<1>10. \E k \in Check \cup {Idle} : check' = [check EXCEPT ![c] = k] /\ CheckKept(k)
  <2>1. CASE Complete(res, c)
    <3>1. PICK stage \in {"answered", "finishing"} :
            check' = [check EXCEPT ![c].stage = stage,
                                   ![c].result = res[check[c].target]]
      BY <1>5, <2>1
    <3>2. PICK k \in Check \cup {Idle} :
            /\ [check EXCEPT ![c].stage = stage, ![c].result = res[check[c].target]]
                 = [check EXCEPT ![c] = k]
            /\ CheckKept(k)
      BY <1>1, <1>6, <2>1, CacheAnswers
    <3>3. check' = [check EXCEPT ![c] = k]
      BY <3>1, <3>2
    <3>4. QED
      BY <3>2, <3>3
  <2>2. CASE ~ Complete(res, c)
    <3>1. \E stage \in Aside : check' = [check EXCEPT ![c].stage = stage]
      BY <1>5, <2>2 DEF Set
    <3>2. QED
      BY <1>1, <3>1, StageStep
  <2>3. QED
    BY <2>1, <2>2
<1>11. PICK k \in Check \cup {Idle} : check' = [check EXCEPT ![c] = k] /\ CheckKept(k)
  BY <1>10
<1>12. CheckKept(k)'
  BY <1>9, <1>11, StillValid
<1>13. ChecksOK'
  BY <1>1, <1>9, <1>11, <1>12, OneCheck
<1>14. QED
  BY <1>7, <1>8, <1>9, <1>13, InductivePartsNext

-----------------------------------------------------------------------------
(***************************************************************************)
(* Steps that record.                                                      *)
(***************************************************************************)
LEMMA CheckFields ==
  ASSUME Inductive, NEW c \in Checks, check[c].stage # "idle"
  PROVE  /\ check[c] \in Check /\ CheckKept(check[c])
         /\ \E s \in Services, n \in Nodes, src \in [Nodes -> Sources] :
              s = check[c].service /\ n = check[c].target /\ src = check[c].src
<1>1. check[c] \in Check /\ CheckKept(check[c])
  BY InductiveParts DEF ChecksOK, Idle, ChecksKept
<1>2. QED
  BY <1>1 DEF Check

LEMMA CompileInductive ==
  ASSUME Inductive, NEW c \in Checks, Compile(c)
  PROVE  Inductive'
<1>1. check[c] \in Check /\ CheckKept(check[c])
  BY CheckFields DEF Compile
<1>2. PICK s \in Services, n \in Nodes, src \in [Nodes -> Sources] :
        s = check[c].service /\ n = check[c].target /\ src = check[c].src
  BY CheckFields DEF Compile
<1>3. results[s] \in Outcomes /\ Evident(results[s])
  BY InductiveParts DEF ResultsOK, ResultsValid
<1> DEFINE known == [m \in Nodes |-> IF /\ m \in Chain[n]
                                        /\ results[s][m] # Nothing
                                        /\ results[s][m].key = KeyOf(src, m)
                                     THEN results[s][m] ELSE Nothing]
           observed == IF Compiles(KeyOf(src, n))
                       THEN {n} \cup {m \in Chain[n] : ~ Certifies(known, src, m)}
                       ELSE {n}
           k == [check[c] EXCEPT !.stage = "recording", !.left = Chain[n],
                                 !.evidence = known, !.observed = observed]
<1>4. known \in Outcomes
  BY <1>3 DEF Outcomes
<1>5. \A m \in Nodes : known[m] # Nothing =>
        known[m].key = KeyOf(src, m) /\ Valid(known[m])
  BY <1>3 DEF Evident
<1>6. n \in Chain[n] /\ Chain[n] \subseteq Nodes
  BY ChainMembers
<1> HIDE DEF known
<1>7. /\ n \in observed /\ observed \subseteq Chain[n] /\ observed \in SUBSET Nodes
      /\ observed # {n} => Compiles(KeyOf(src, n))
      /\ Compiles(KeyOf(src, n)) =>
           \A m \in Chain[n] : Certifies(known, src, m) \/ m \in observed
  BY <1>6
<1> HIDE DEF observed
<1>8. k \in Check
  BY <1>1, <1>4, <1>6, <1>7 DEF Check, Stages, Outcomes
<1>9. /\ k.stage = "recording" /\ k.left = Chain[n] /\ k.evidence = known
      /\ k.observed = observed /\ k.src = src /\ k.target = n
      /\ k.result = check[c].result
  BY <1>1, <1>2 DEF Check
<1>10. check' = [check EXCEPT ![c] = k]
  <2>1. check' = [check EXCEPT ![c].stage = "recording", ![c].left = Chain[n],
                               ![c].evidence = known, ![c].observed = observed]
    BY <1>2 DEF Compile, known, observed
  <2>2. QED
    BY <2>1, InductiveParts DEF ChecksOK
<1> HIDE DEF k
<1>11. RecordingKept(k)
  BY <1>6, <1>7, <1>9 DEF RecordingKept
<1>12. EvidenceKept(k)
  <2>1. check[c].result # Nothing =>
          check[c].result.key = KeyOf(src, n) /\ Valid(check[c].result)
    BY <1>1, <1>2 DEF CheckKept, EvidenceKept, Compile
  <2>2. QED
    BY <1>5, <1>9, <2>1 DEF EvidenceKept
<1>13. CheckKept(k)
  BY <1>9, <1>11, <1>12 DEF CheckKept
<1>14. Others'
  BY InductiveParts DEF Others, Compile
<1>15. QED
  BY <1>8, <1>10, <1>13, <1>14, QuietStep DEF Compile

LEMMA SettleInductive ==
  ASSUME Inductive, NEW c \in Checks, Settle(c)
  PROVE  Inductive'
<1>1. check[c] \in Check /\ CheckKept(check[c])
  BY CheckFields DEF Settle
<1>2. PICK s \in Services, n \in Nodes, src \in [Nodes -> Sources] :
        s = check[c].service /\ n = check[c].target /\ src = check[c].src
  BY CheckFields DEF Settle
<1> DEFINE k == [check[c] EXCEPT !.stage = "finishing", !.observed = {},
                                 !.evidence = NoResults]
<1>3. k \in Check
  BY <1>1 DEF Check, Stages, NoResults
<1>4. /\ k.stage = "finishing" /\ k.evidence = NoResults /\ k.src = src
      /\ k.target = n /\ k.result = check[c].result
  BY <1>1, <1>2 DEF Check
<1>5. check' = [check EXCEPT ![c] = k]
  BY InductiveParts DEF Settle, ChecksOK
<1> HIDE DEF k
<1>6. /\ EvidenceKept(check[c]) /\ RecordingKept(check[c])
      /\ check[c].left = {}
  BY <1>1 DEF CheckKept, Settle
<1>7. /\ check[c].result.key = KeyOf(src, n) /\ Valid(check[c].result)
      /\ check[c].result # Nothing
      /\ Compiles(KeyOf(src, n)) => check[c].result.certified
  BY <1>2, <1>6 DEF EvidenceKept, RecordingKept
<1>8. EvidenceKept(k) /\ DecisionKept(k)
  BY <1>4, <1>7 DEF EvidenceKept, DecisionKept, NoResults
<1>9. CheckKept(k)
  BY <1>4, <1>8 DEF CheckKept
<1>10. Others'
  BY InductiveParts DEF Others, Settle
<1>11. QED
  BY <1>3, <1>5, <1>9, <1>10, QuietStep DEF Settle

\* A sound result is kept for its node.
LEMMA OneResult ==
  ASSUME ResultsOK, Grows, NEW s \in Services, NEW m \in Nodes, NEW r \in Result,
         results' = [results EXCEPT ![s][m] = r], r.key.node = m, Valid(r)'
  PROVE  ResultsOK'
<1>1. results' \in [Services -> Outcomes]
  BY DEF ResultsOK, Outcomes
<1>2. ASSUME NEW t \in Services, NEW n \in Nodes, results'[t][n] # Nothing
      PROVE  results'[t][n].key.node = n /\ Valid(results[t][n])'
  <2>1. PICK q : q = results'[t][n]
    OBVIOUS
  <2>2. CASE t = s /\ n = m
    <3>1. q = r
      BY <2>1, <2>2 DEF ResultsOK, Outcomes
    <3>2. q.key.node = n /\ Valid(q)'
      BY <2>2, <3>1
    <3>3. QED
      BY <2>1, <3>2
  <2>3. CASE ~ (t = s /\ n = m)
    <3>1. q = results[t][n]
      BY <2>1, <2>3 DEF ResultsOK, Outcomes
    <3>2. q.key.node = n /\ Valid(q)'
      BY <1>2, <2>1, <3>1, StillValid DEF ResultsOK, ResultsValid, Evident
    <3>3. QED
      BY <2>1, <3>2
  <2>4. QED
    BY <2>2, <2>3
<1>3. QED
  BY <1>1, <1>2 DEF ResultsOK, ResultsValid, Evident

LEMMA FinishInductive ==
  ASSUME Inductive, NEW c \in Checks, Finish(c)
  PROVE  Inductive'
<1>1. check[c] \in Check /\ CheckKept(check[c])
  BY CheckFields DEF Finish
<1>2. PICK s \in Services, n \in Nodes, src \in [Nodes -> Sources] :
        s = check[c].service /\ n = check[c].target /\ src = check[c].src
  BY CheckFields DEF Finish
<1>3. ResultsOK /\ ChecksOK /\ store' = store /\ missed' = missed
  BY InductiveParts DEF Finish
<1>4. StoreOK' /\ StoreSound' /\ StoreClosed' /\ Grows
  BY <1>3, InductiveParts, SameStore
<1>5. PICK r : r = check[c].result
  OBVIOUS
<1>6. r # Nothing /\ r.key = KeyOf(src, n) /\ Valid(r) /\ (Compiles(r.key) => r.certified)
  BY <1>1, <1>2, <1>5 DEF CheckKept, EvidenceKept, DecisionKept, Finish
<1>7. r \in Result /\ r.key.node = n /\ Valid(r)'
  BY <1>1, <1>4, <1>5, <1>6, KeyFacts, StillValid DEF Check
<1>8. results' = [results EXCEPT ![s][n] = r]
  BY <1>2, <1>5 DEF Finish
<1>9. ResultsOK'
  BY <1>3, <1>4, <1>7, <1>8, OneResult
<1> DEFINE k == [check[c] EXCEPT !.stage = "answered"]
<1>10. k \in Check /\ k.stage = "answered"
  BY <1>1 DEF Check, Stages
<1>11. /\ k.evidence = check[c].evidence /\ k.src = src
       /\ k.target = n /\ k.result = r
  BY <1>1, <1>2, <1>5 DEF Check
<1>12. check' = [check EXCEPT ![c] = k]
  BY <1>3 DEF Finish, Set, ChecksOK
<1> HIDE DEF k
<1>13. CheckKept(k)
  BY <1>1, <1>2, <1>6, <1>10, <1>11 DEF CheckKept, EvidenceKept, DecisionKept, Finish
<1>14. PICK j \in Check : j = k
  BY <1>10
<1>15. ChecksOK'
  <2>1. CheckKept(j)'
    BY <1>4, <1>13, <1>14, StillValid
  <2>2. check' = [check EXCEPT ![c] = j]
    BY <1>12, <1>14
  <2>3. QED
    BY <1>3, <1>4, <2>1, <2>2, OneCheck
<1>16. Others'
  BY InductiveParts DEF Others, Finish
<1>17. QED
  BY <1>4, <1>9, <1>15, <1>16, InductivePartsNext

\* The node that is recorded next depends on none that is still to be.
LEMMA NextFirst ==
  ASSUME NEW c \in Checks, check[c].left # {}, check[c].left \subseteq Nodes
  PROVE  /\ Next1(c) \in check[c].left
         /\ \A d \in DepsOf[Next1(c)] : d \notin check[c].left
<1> DEFINE place(m) == CHOOSE i \in DOMAIN Order : Order[i] = m
           left == check[c].left
           T == {place(m) : m \in left}
           N == Len(Order)
<1>1. N \in Nat /\ DOMAIN Order = 1 .. N
  BY OrderFacts
<1>2. ASSUME NEW m \in left
      PROVE  place(m) \in 1 .. N /\ Order[place(m)] = m
  BY OrderFacts
<1> HIDE DEF place
<1>3. T \in SUBSET (0 .. N) /\ T # {}
  BY <1>1, <1>2
<1>4. PICK k \in T : \A j \in T : k <= j
  BY <1>1, <1>3, LeastNumber
<1>5. \E m \in left : \A j \in left : place(m) <= place(j)
  BY <1>4
<1>6. Next1(c) = CHOOSE m \in left : \A j \in left : place(m) <= place(j)
  BY DEF Next1, place
<1>7. /\ Next1(c) \in left
      /\ \A j \in left : place(Next1(c)) <= place(j)
  BY <1>5, <1>6
<1>8. ASSUME NEW d \in DepsOf[Next1(c)], d \in left
      PROVE  FALSE
  <2>1. PICK i, j \in 1 .. N : i = place(Next1(c)) /\ j = place(d)
    BY <1>2, <1>7, <1>8
  <2>2. Order[i] = Next1(c) /\ Order[j] = d
    BY <1>2, <1>7, <1>8, <2>1
  <2>3. j < i
    BY <1>1, <2>2, LeanAssumption
  <2>4. i <= j
    BY <1>7, <1>8, <2>1
  <2>5. QED
    BY <1>1, <2>1, <2>3, <2>4
<1>9. QED
  BY <1>7, <1>8

LEMMA KeepStep ==
  ASSUME Inductive, Grows, NEW c \in Checks, check[c].stage = "recording",
         NEW m \in check[c].left, NEW r \in Result,
         r.key = KeyOf(check[c].src, m), Valid(r)',
         Compiles(KeyOf(check[c].src, check[c].target)) => r.certified,
         Keep(c, m, r)
  PROVE  ResultsOK' /\ ChecksOK'
<1>1. check[c] \in Check /\ CheckKept(check[c]) /\ ResultsOK /\ ChecksOK
  BY CheckFields, InductiveParts
<1>2. PICK s \in Services, n \in Nodes, src \in [Nodes -> Sources] :
        s = check[c].service /\ n = check[c].target /\ src = check[c].src
  BY CheckFields
<1>3. EvidenceKept(check[c]) /\ RecordingKept(check[c])
  BY <1>1 DEF CheckKept
<1>4. m \in Nodes /\ m \in Chain[n]
  BY <1>1, <1>2, <1>3 DEF Check, RecordingKept
<1>5. r.key = KeyOf(src, m) /\ r.key.node = m /\ (Compiles(KeyOf(src, n)) => r.certified)
  BY <1>2, <1>4, KeyFacts
<1>6. ResultsOK'
  <2>1. results' = [results EXCEPT ![s][m] = r]
    BY <1>2 DEF Keep
  <2>2. QED
    BY <1>1, <1>4, <1>5, <2>1, OneResult
<1> DEFINE old == check[c]
           new == [old EXCEPT !.left = old.left \ {m}, !.evidence[m] = r,
                              !.result = IF m = n THEN r ELSE old.result]
<1>7. check' = [check EXCEPT ![c] = new]
  BY <1>1, <1>2 DEF Keep, ChecksOK
<1>8. new \in Check
  BY <1>1, <1>4 DEF Check
<1>9. /\ new.stage = "recording" /\ new.left = old.left \ {m}
      /\ new.evidence = [old.evidence EXCEPT ![m] = r]
      /\ new.result = IF m = n THEN r ELSE old.result
      /\ new.src = src /\ new.target = n /\ new.observed = old.observed
  BY <1>1, <1>2 DEF Check
<1>10. old.evidence \in Outcomes /\ old.result \in Result \cup {Nothing}
  BY <1>1 DEF Check, Outcomes
<1>11. r # Nothing
  BY NothingAssumption
<1> HIDE DEF new
<1>12. PICK k \in Check : k = new
  BY <1>8
<1>13. RecordingKept(k)
  <2>1. ASSUME Compiles(KeyOf(src, n)), NEW j \in Chain[n]
        PROVE  Certifies(k.evidence, src, j) \/ j \in k.left \cap k.observed
    <3>1. j \in Nodes
      BY ChainMembers
    <3>2. CASE j = m
      BY <1>4, <1>5, <1>9, <1>10, <1>11, <1>12, <2>1, <3>2 DEF Certifies, Outcomes
    <3>3. CASE j # m
      <4>1. Certifies(old.evidence, src, j) \/ j \in old.left \cap old.observed
        BY <1>2, <1>3, <2>1 DEF RecordingKept
      <4>2. k.evidence[j] = old.evidence[j]
        BY <1>9, <1>10, <1>12, <3>1, <3>3 DEF Outcomes
      <4>3. QED
        BY <1>9, <1>12, <3>3, <4>1, <4>2 DEF Certifies
    <3>4. QED
      BY <3>2, <3>3
  <2>2. n \notin k.left => k.result # Nothing /\ (Compiles(KeyOf(src, n)) => k.result.certified)
    BY <1>2, <1>3, <1>5, <1>9, <1>11, <1>12 DEF RecordingKept
  <2>3. /\ n \in k.observed /\ k.observed \subseteq Chain[n]
        /\ k.left \subseteq Chain[n]
        /\ k.observed # {n} => Compiles(KeyOf(src, n))
    BY <1>2, <1>3, <1>9, <1>12 DEF RecordingKept
  <2>4. k.src = src /\ k.target = n
    BY <1>9, <1>12
  <2>5. QED
    BY <2>1, <2>2, <2>3, <2>4 DEF RecordingKept
<1>14. EvidenceKept(k)'
  <2>1. ASSUME NEW j \in Nodes, k.evidence[j] # Nothing
        PROVE  k.evidence[j].key = KeyOf(src, j) /\ Valid(k.evidence[j])'
    <3>1. CASE j = m
      <4>1. k.evidence[j] = r
        BY <1>9, <1>10, <1>12, <3>1 DEF Outcomes
      <4>2. QED
        BY <1>5, <3>1, <4>1
    <3>2. CASE j # m
      <4>1. k.evidence[j] = old.evidence[j]
        BY <1>9, <1>10, <1>12, <3>2 DEF Outcomes
      <4>2. k.evidence[j].key = KeyOf(src, j) /\ Valid(k.evidence[j])
        BY <1>2, <1>3, <2>1, <4>1 DEF EvidenceKept
      <4>3. QED
        BY <4>2, StillValid
    <3>3. QED
      BY <3>1, <3>2
  <2>2. ASSUME k.result # Nothing
        PROVE  k.result.key = KeyOf(src, n) /\ Valid(k.result)'
    <3>1. CASE m = n
      <4>1. k.result = r
        BY <1>9, <1>12, <3>1
      <4>2. QED
        BY <1>5, <3>1, <4>1
    <3>2. CASE m # n
      <4>1. k.result = old.result
        BY <1>9, <1>12, <3>2
      <4>2. k.result.key = KeyOf(src, n) /\ Valid(k.result)
        BY <1>2, <1>3, <2>2, <4>1 DEF EvidenceKept
      <4>3. QED
        BY <4>2, StillValid
    <3>3. QED
      BY <3>1, <3>2
  <2>3. k.src = src /\ k.target = n
    BY <1>9, <1>12
  <2>4. QED
    BY <2>1, <2>2, <2>3 DEF EvidenceKept
<1>15. CheckKept(k)'
  <2>1. k.stage = "recording"
    BY <1>9, <1>12
  <2>2. QED
    BY <1>13, <1>14, <2>1 DEF CheckKept, RecordingKept, DecisionKept
<1>16. check' = [check EXCEPT ![c] = k]
  BY <1>7, <1>12
<1>17. ChecksOK'
  BY <1>1, <1>15, <1>16, OneCheck
<1>18. QED
  BY <1>6, <1>17

\* A certificate is published, or misses the store, when all it imports has
\* been certified.
LEMMA PublishStep ==
  ASSUME Inductive, NEW r \in Result, NEW entry, Publish(r, entry),
         r.certified => /\ Sound(r)
                        /\ \A d \in DepsOf[r.key.node] : Known(KeyOf(r.key.text, d))
  PROVE  /\ StoreOK' /\ StoreSound' /\ StoreClosed' /\ Grows
         /\ r.certified => Known(r.key)'
         /\ missed' \subseteq Keys
         /\ synced' \in [Services -> BOOLEAN] /\ seen' \in [Services -> BOOLEAN]
<1>1. StoreOK /\ StoreSound /\ StoreClosed /\ Others /\ r.key \in Keys
  BY InductiveParts, ResultFacts
<1>2. CASE ~ (r.certified /\ entry = "open")
  <2>1. /\ UNCHANGED <<store, synced, seen>>
        /\ missed' = IF r.certified /\ ~ Stored(r.key)
                     THEN missed \cup {r.key} ELSE missed
    BY <1>2 DEF Publish
  <2>2. missed \subseteq missed' /\ missed' \subseteq Keys
    BY <1>1, <2>1 DEF Others
  <2>3. StoreOK' /\ StoreSound' /\ StoreClosed' /\ Grows
    BY <1>1, <2>1, <2>2 DEF StoreOK, StoreSound, StoreClosed, Stored, Known, Grows
  <2>4. r.certified => Known(r.key)'
    BY <2>1 DEF Known, Stored
  <2>5. QED
    BY <1>1, <2>1, <2>2, <2>3, <2>4 DEF Others
<1>3. CASE r.certified /\ entry = "open"
  <2>1. /\ store' = {q \in store : q.key # r.key} \cup {r}
        /\ missed' = missed \ {r.key} /\ Advance
    BY <1>3 DEF Publish
  <2>2. StoreOK'
    BY <1>1, <2>1 DEF StoreOK
  <2>3. StoreSound'
    BY <1>1, <1>3, <2>1 DEF StoreSound
  <2>4. Grows
    BY <2>1 DEF Grows, Known, Stored
  <2>5. StoreClosed'
    <3>1. ASSUME NEW q \in store', NEW d \in DepsOf[q.key.node]
          PROVE  Known(KeyOf(q.key.text, d))'
      <4>1. Known(KeyOf(q.key.text, d))
        BY <1>1, <1>3, <2>1, <3>1 DEF StoreClosed, Known
      <4>2. QED
        BY <2>4, <4>1 DEF Grows
    <3>2. QED
      BY <3>1 DEF StoreClosed, Known, Stored
  <2>6. Known(r.key)'
    BY <2>1 DEF Known, Stored
  <2>7. synced' \in [Services -> BOOLEAN] /\ seen' \in [Services -> BOOLEAN]
    BY <2>1 DEF Advance
  <2>8. missed' \subseteq Keys
    BY <1>1, <2>1 DEF Others
  <2>9. QED
    BY <2>2, <2>3, <2>4, <2>5, <2>6, <2>7, <2>8
<1>4. QED
  BY <1>2, <1>3

\* What is recorded of a node: the inputs captured, and what their compilation
\* and the evidence for its dependencies say.
RecordOf(c, m) ==
  LET src == check[c].src
      known == check[c].evidence
  IN [key |-> KeyOf(src, m),
      certified |-> /\ m = check[c].target => Compiles(KeyOf(src, m))
                    /\ AllCertified(known, src, m),
      sorry |-> src[m] = "gap",
      below |-> DependenciesSorry(known, src, m)]

\* The evidence of a check that records.
LEMMA Evidence ==
  ASSUME Inductive, NEW c \in Checks, check[c].stage = "recording", check[c].left # {},
         NEW src, src = check[c].src, NEW n, n = check[c].target,
         NEW known, known = check[c].evidence
  PROVE  /\ src \in [Nodes -> Sources] /\ n \in Nodes /\ known \in Outcomes
         /\ Next1(c) \in check[c].left /\ Next1(c) \in Chain[n] /\ Next1(c) \in Nodes
         /\ \A d \in DepsOf[Next1(c)] : d \notin check[c].left /\ d \in Chain[n]
         /\ \A j \in Nodes : known[j] # Nothing =>
              known[j].key = KeyOf(src, j) /\ Valid(known[j])
         /\ RecordingKept(check[c])
<1>1. check[c] \in Check /\ CheckKept(check[c])
  BY CheckFields
<1>2. src \in [Nodes -> Sources] /\ n \in Nodes /\ known \in Outcomes
  BY <1>1 DEF Check, Outcomes
<1>3. EvidenceKept(check[c]) /\ RecordingKept(check[c])
  BY <1>1 DEF CheckKept
<1>4. check[c].left \subseteq Chain[n] /\ Chain[n] \subseteq Nodes
  BY <1>2, <1>3, ChainMembers DEF RecordingKept
<1>5. /\ Next1(c) \in check[c].left
      /\ \A d \in DepsOf[Next1(c)] : d \notin check[c].left
  BY <1>4, NextFirst
<1>6. Next1(c) \in Chain[n] /\ Next1(c) \in Nodes
  BY <1>4, <1>5
<1>7. \A d \in DepsOf[Next1(c)] : d \in Chain[n]
  BY <1>2, <1>6, DependencyInside, ChainInside
<1>8. \A j \in Nodes : known[j] # Nothing =>
        known[j].key = KeyOf(src, j) /\ Valid(known[j])
  BY <1>3 DEF EvidenceKept
<1>9. QED
  BY <1>2, <1>3, <1>5, <1>6, <1>7, <1>8

LEMMA RecordInductive ==
  ASSUME Inductive, NEW c \in Checks, Record(c)
  PROVE  Inductive'
<1>1. check[c].stage = "recording" /\ check[c].left # {}
  BY DEF Record
<1>2. PICK src, n, known, m :
        src = check[c].src /\ n = check[c].target /\ known = check[c].evidence
          /\ m = Next1(c)
  OBVIOUS
<1>3. /\ src \in [Nodes -> Sources] /\ n \in Nodes /\ known \in Outcomes
      /\ m \in check[c].left /\ m \in Chain[n] /\ m \in Nodes
      /\ \A d \in DepsOf[m] : d \notin check[c].left /\ d \in Chain[n]
      /\ \A j \in Nodes : known[j] # Nothing =>
           known[j].key = KeyOf(src, j) /\ Valid(known[j])
      /\ RecordingKept(check[c])
  BY <1>1, <1>2, Evidence
<1>4. PICK r : r = RecordOf(c, m)
  OBVIOUS
<1>5. PICK entry : /\ m \in check[c].observed /\ Keep(c, m, r)
                   /\ Found(check[c].service, TRUE, entry) /\ Publish(r, entry)
  BY <1>2, <1>4 DEF Record, RecordOf
<1>6. \A d \in DepsOf[m] : d \in Nodes
                             /\ (Certifies(known, src, d) => Sound(known[d]))
  BY <1>3, DependencyInside DEF Certifies, Valid
<1>7. DependenciesSorry(known, src, m) \in {"yes", "no", "unknown"}
  BY <1>3, <1>6, BelowTrue
<1>8. /\ r.key = KeyOf(src, m) /\ r.sorry = (src[m] = "gap")
      /\ r.certified = /\ m = n => Compiles(KeyOf(src, m))
                       /\ AllCertified(known, src, m)
      /\ r.below = DependenciesSorry(known, src, m)
      /\ r = [key |-> r.key, certified |-> r.certified, sorry |-> r.sorry,
              below |-> r.below]
  BY <1>2, <1>4 DEF RecordOf
<1>9. r \in Result
  <2>1. r.key \in Keys
    BY <1>3, <1>8, KeyFacts
  <2>2. r.certified \in BOOLEAN
    BY <1>8 DEF AllCertified
  <2>3. QED
    BY <1>7, <1>8, <2>1, <2>2 DEF Result
\* Only the target is compiled; of others, the target's compilation tells.
<1>10. r.certified => Compiles(r.key)
  <2>1. CASE m = n
    BY <1>8, <2>1
  <2>2. CASE m # n
    <3>1. Compiles(KeyOf(src, n))
      BY <1>2, <1>3, <1>5, <2>2 DEF RecordingKept
    <3>2. QED
      BY <1>3, <1>8, <3>1, CompilesInside
  <2>3. QED
    BY <2>1, <2>2
<1>11. Sound(r)
  BY <1>3, <1>6, <1>8, <1>9, <1>10, SoundAgain
<1>12. r.certified => \A d \in DepsOf[r.key.node] : Known(KeyOf(r.key.text, d))
  <2>1. SUFFICES ASSUME r.certified, NEW d \in DepsOf[m] PROVE Known(KeyOf(r.key.text, d))
    BY <1>3, <1>8, KeyFacts
  <2>2. Certifies(known, src, d) /\ d \in Nodes /\ d \in Chain[m]
    BY <1>3, <1>8, <2>1, DependencyInside DEF AllCertified
  <2>3. Known(KeyOf(src, d))
    BY <1>3, <2>2 DEF Certifies, Valid
  <2>4. KeyOf(r.key.text, d) = KeyOf(src, d)
    BY <1>3, <1>8, <2>2, KeyInside
  <2>5. QED
    BY <2>3, <2>4
<1>13. /\ StoreOK' /\ StoreSound' /\ StoreClosed' /\ Grows
       /\ r.certified => Known(r.key)'
       /\ missed' \subseteq Keys
       /\ synced' \in [Services -> BOOLEAN] /\ seen' \in [Services -> BOOLEAN]
  BY <1>5, <1>9, <1>11, <1>12, PublishStep
<1>14. Valid(r)'
  BY <1>11, <1>13 DEF Valid
<1>15. Compiles(KeyOf(src, n)) => r.certified
  <2> SUFFICES ASSUME Compiles(KeyOf(src, n)) PROVE r.certified
    OBVIOUS
  <2>1. \A d \in DepsOf[m] : Certifies(known, src, d)
    BY <1>2, <1>3 DEF RecordingKept
  <2>2. QED
    BY <1>8, <2>1 DEF AllCertified
<1>16. ResultsOK' /\ ChecksOK'
  BY <1>1, <1>2, <1>3, <1>5, <1>8, <1>9, <1>13, <1>14, <1>15, KeepStep
<1>17. Others'
  <2>1. check[c].service \in Services
    BY <1>1, CheckFields
  <2>2. opened' \in [Services -> {"unopened", "failed", "open"}]
    BY <1>5, <2>1, InductiveParts, OneLookup
  <2>3. QED
    BY <1>13, <2>2, InductiveParts DEF Others, Record
<1>18. QED
  BY <1>13, <1>16, <1>17, InductivePartsNext

LEMMA RecoverInductive ==
  ASSUME Inductive, NEW c \in Checks, Recover(c)
  PROVE  Inductive'
<1>1. check[c].stage = "recording" /\ check[c].left # {}
  BY DEF Recover
<1>2. PICK src, n, known, m :
        src = check[c].src /\ n = check[c].target /\ known = check[c].evidence
          /\ m = Next1(c)
  OBVIOUS
<1>3. /\ src \in [Nodes -> Sources] /\ n \in Nodes /\ known \in Outcomes
      /\ m \in check[c].left /\ m \in Chain[n] /\ m \in Nodes
      /\ \A d \in DepsOf[m] : d \notin check[c].left /\ d \in Chain[n]
      /\ \A j \in Nodes : known[j] # Nothing =>
           known[j].key = KeyOf(src, j) /\ Valid(known[j])
      /\ RecordingKept(check[c])
  BY <1>1, <1>2, Evidence
<1>4. Others' /\ m \notin check[c].observed /\ store' = store /\ missed' = missed
  BY <1>2, InductiveParts DEF Others, Recover
<1>5. Compiles(KeyOf(src, n)) => Certifies(known, src, m)
  BY <1>2, <1>3, <1>4 DEF RecordingKept
<1>6. StoreOK' /\ StoreSound' /\ StoreClosed' /\ Grows
  BY <1>4, InductiveParts, SameStore
<1>7. CASE known[m] = Nothing
  <2>1. check[c] \in Check /\ CheckKept(check[c]) /\ ChecksOK
    BY <1>1, CheckFields, InductiveParts
  <2>2. check' = [check EXCEPT ![c].left = check[c].left \ {m}] /\ results' = results
    BY <1>2, <1>7 DEF Recover
  <2> DEFINE k == [check[c] EXCEPT !.left = check[c].left \ {m}]
  <2>3. k \in Check
    BY <2>1 DEF Check
  <2>4. /\ k.stage = "recording" /\ k.left = check[c].left \ {m} /\ k.src = src
        /\ k.target = n /\ k.evidence = known /\ k.result = check[c].result
        /\ k.observed = check[c].observed
    BY <1>1, <1>2, <2>1 DEF Check
  <2>5. check' = [check EXCEPT ![c] = k]
    BY <2>1, <2>2 DEF ChecksOK
  <2> HIDE DEF k
  <2>6. n \in check[c].observed /\ m # n
    BY <1>2, <1>3, <1>4 DEF RecordingKept
  <2>7. RecordingKept(k)
    BY <1>2, <1>3, <1>4, <2>4, <2>6 DEF RecordingKept
  <2>8. EvidenceKept(k)
    BY <1>1, <1>2, <2>1, <2>4 DEF CheckKept, EvidenceKept
  <2>9. CheckKept(k)
    BY <2>4, <2>7, <2>8 DEF CheckKept
  <2>10. QED
    BY <1>4, <2>2, <2>3, <2>5, <2>9, QuietStep
<1>8. CASE known[m] # Nothing
  <2>1. known[m] \in Result /\ known[m].key = KeyOf(src, m) /\ Valid(known[m])
    BY <1>3, <1>8 DEF Outcomes
  <2>2. PICK r : r = [known[m] EXCEPT !.below = DependenciesSorry(known, src, m)]
    OBVIOUS
  <2>3. \A d \in DepsOf[m] : Certifies(known, src, d) => Sound(known[d])
    BY <1>3, DependencyInside DEF Certifies, Valid
  <2>4. DependenciesSorry(known, src, m) \in {"yes", "no", "unknown"}
    BY <1>3, <2>3, BelowTrue
  <2>5. /\ r \in Result /\ r.key = KeyOf(src, m) /\ r.sorry = known[m].sorry
        /\ r.certified = known[m].certified
        /\ r.below = DependenciesSorry(known, src, m)
    BY <2>1, <2>2, <2>4 DEF Result
  <2>6. /\ r.certified => Compiles(r.key) /\ Known(r.key)
        /\ r.sorry <=> src[m] = "gap"
    BY <1>3, <2>1, <2>5, KeyFacts, ChainMembers DEF Valid, Sound
  <2>7. Sound(r)
    BY <1>3, <2>3, <2>5, <2>6, SoundAgain
  <2>8. Valid(r)'
    <3>1. Valid(r)
      BY <2>6, <2>7 DEF Valid
    <3>2. QED
      BY <1>6, <3>1, StillValid
  <2>9. Compiles(KeyOf(src, n)) => r.certified
    BY <1>5, <2>5 DEF Certifies
  <2>10. Keep(c, m, r)
    BY <1>2, <1>8, <2>2 DEF Recover
  <2>11. ResultsOK' /\ ChecksOK'
    BY <1>1, <1>2, <1>3, <1>6, <2>5, <2>8, <2>9, <2>10, KeepStep
  <2>12. QED
    BY <1>4, <1>6, <2>11, InductivePartsNext
<1>9. QED
  BY <1>7, <1>8

-----------------------------------------------------------------------------
(***************************************************************************)
(* Theorems.                                                               *)
(***************************************************************************)
LEMMA NextInductive == Inductive /\ [Next]_vars => Inductive'
<1> SUFFICES ASSUME Inductive, [Next]_vars PROVE Inductive'
  OBVIOUS
<1>1. CASE UNCHANGED vars
  <2>1. Others'
    BY <1>1, InductiveParts DEF Others, vars
  <2>2. QED
    BY <1>1, <2>1, QuietStep DEF vars
<1>2. ASSUME NEW s \in Services,
             \/ Read(s) \/ Sync(s) \/ Look(s)
             \/ \E n \in Nodes, source \in Sources : Save(s, n, source)
             \/ \E n \in Nodes, c \in Checks : Capture(c, s, n)
      PROVE  Inductive'
  BY <1>2, ReadInductive, SyncInductive, SaveInductive, CaptureInductive
<1>3. ASSUME NEW c \in Checks,
             \/ Cached(c) \/ Fly(c) \/ Hire(c) \/ CachedChain(c) \/ Compile(c) \/ Fail(c)
             \/ Record(c) \/ Recover(c) \/ Settle(c) \/ Finish(c) \/ Reply(c)
      PROVE  Inductive'
  BY <1>3, CachedInductive, FlyInductive, HireInductive, CompileInductive,
     FailInductive, RecordInductive, RecoverInductive, SettleInductive, FinishInductive
<1>4. QED
  BY <1>1, <1>2, <1>3, RestartInductive DEF Next

\* Every reachable state satisfies the inductive invariant.
THEOREM InductiveInvariant == Spec => []Inductive
<1>1. QED
  BY InitInductive, NextInductive, PTL DEF Spec

\* Results are kept for the nodes they are about, one certificate per key.
THEOREM TypeCorrect == Spec => []TypeOK
<1>1. Inductive => TypeOK
  BY DEF Inductive
<1>2. QED
  BY <1>1, InductiveInvariant, PTL

LEMMA TrueNow == Inductive => StatusTrue
<1> SUFFICES ASSUME Inductive, NEW s \in Services, NEW n \in Nodes,
                    Status(results[s], head[s], n) # "unverified"
             PROVE  Status(results[s], head[s], n) = TrueStatus(KeyOf(head[s], n))
  BY DEF StatusTrue
<1>1. PICK src, r : src = head[s] /\ r = results[s][n]
  OBVIOUS
<1>2. src \in [Nodes -> Sources]
  BY <1>1, InductiveParts DEF Others
<1>3. Certifies(results[s], src, n)
  BY <1>1 DEF Status
<1>4. r \in Result /\ Sound(r) /\ r.key = KeyOf(src, n) /\ r.certified
  BY <1>1, <1>3, InductiveParts
     DEF Certifies, ResultsOK, ResultsValid, Evident, Valid, Outcomes
<1>5. /\ r.key.node = n /\ n \in Chain[n] /\ DOMAIN r.key.text = Chain[n]
  BY <1>2, <1>4, KeyFacts, ChainMembers
<1>6. Compiles(r.key) /\ (r.sorry <=> r.key.text[n] = "gap")
  BY <1>4, <1>5 DEF Sound
<1>7. /\ r.below = "yes" => \E m \in DOMAIN r.key.text : r.key.text[m] = "gap"
      /\ r.below = "no" /\ ~ r.sorry => \A m \in DOMAIN r.key.text : r.key.text[m] # "gap"
  BY <1>4, <1>5, <1>6 DEF Sound
<1>8. Status(results[s], src, n) = TrueStatus(r.key)
  BY <1>1, <1>3, <1>5, <1>6, <1>7 DEF Status, TrueStatus
<1>9. QED
  BY <1>1, <1>4, <1>8

LEMMA TrueNext == Inductive' => StatusTrue'
BY TrueNow, PTL

\* A status other than unverified is true of the present sources of the node
\* and of all it depends on, for any interleaving of checks, reads, changes and
\* restarts of any number of services (formal_status).
THEOREM StatusesAreTrue == Spec => []StatusTrue
<1>1. QED
  BY TrueNow, InductiveInvariant, PTL

\* The store never holds a certificate without those of all it imports, unless
\* it could not be opened when these were certified, whatever the services, their
\* restarts and the order of their checks (persist_result).
THEOREM CertificatesAreClosed == Spec => []StoreClosed
<1>1. Inductive => StoreClosed
  BY DEF Inductive
<1>2. QED
  BY <1>1, InductiveInvariant, PTL

\* A check's answer is about the inputs it captured, and certified exactly if
\* these compile, whatever has been saved or recorded meanwhile.
THEOREM ChecksDecide == Spec => []CheckDecides
<1>1. Inductive => CheckDecides
  <2> SUFFICES ASSUME Inductive, NEW c \in Checks, check[c].stage = "answered"
               PROVE  /\ check[c].result.key = KeyOf(check[c].src, check[c].target)
                      /\ check[c].result.certified <=> Compiles(check[c].result.key)
    BY DEF CheckDecides
  <2>1. CheckKept(check[c])
    BY CheckFields
  <2>2. EvidenceKept(check[c]) /\ DecisionKept(check[c])
    BY <2>1 DEF CheckKept
  <2>3. QED
    BY <2>2 DEF EvidenceKept, DecisionKept, Valid, Sound
<1>2. QED
  BY <1>1, InductiveInvariant, PTL

\* A read that brings the results up to date shows the true status of every
\* node whose present inputs have certificates for the whole of their chain
\* (sync_snapshot).
THEOREM ReadsRestore == Spec => ReadRestores
<1> DEFINE A == \A s \in Services :
       snapshot[s] = "reading" /\ snapshot'[s] = "held" =>
         \A n \in Nodes :
           ChainStored(s, n) =>
             Status(results'[s], head[s], n) = TrueStatus(KeyOf(head[s], n))
<1>1. Inductive /\ [Next]_vars => A
  <2> SUFFICES ASSUME Inductive, [Next]_vars, Inductive',
                      NEW s \in Services, snapshot[s] = "reading", snapshot'[s] = "held",
                      NEW n \in Nodes, ChainStored(s, n)
               PROVE  Status(results'[s], head[s], n) = TrueStatus(KeyOf(head[s], n))
    BY NextInductive
  <2>1. snapshot \in [Services -> {"free", "reading", "held"}]
    BY InductiveParts DEF Others
  <2>2. Sync(s)
    <3>1. ASSUME NEW t \in Services, t # s
          PROVE  /\ Read(t) \/ Sync(t) \/ Look(t) => snapshot'[s] = snapshot[s]
                 /\ \A m \in Nodes, source \in Sources : Save(t, m, source) => snapshot'[s] = snapshot[s]
      BY <2>1, <3>1 DEF Read, Sync, Look, Save, Release
    <3>2. ASSUME NEW t \in Services, Release(t)
          PROVE  snapshot'[s] # "held" \/ snapshot'[s] = snapshot[s]
      BY <2>1, <3>2 DEF Release
    <3>3. ~ Read(s) /\ ~ Look(s)
      BY DEF Read, Look, Release
    <3>4. ASSUME NEW c \in Checks, Reply(c) PROVE FALSE
      <4>1. check[c].service \in Services
        BY <3>4, CheckFields DEF Reply
      <4>2. QED
        BY <3>2, <3>4, <4>1 DEF Reply
    <3>5. ASSUME NEW c \in Checks
          PROVE  /\ ~ Cached(c) /\ ~ Fly(c) /\ ~ Hire(c) /\ ~ CachedChain(c) /\ ~ Compile(c)
                 /\ ~ Fail(c) /\ ~ Record(c) /\ ~ Recover(c) /\ ~ Settle(c) /\ ~ Finish(c)
      BY DEF Cached, Fly, Hire, CachedChain, Compile, Fail, Record, Recover, Settle, Finish
    <3>6. ~ Restart
      BY DEF Restart
    <3>7. ~ UNCHANGED vars
      BY DEF vars
    <3>8. ASSUME NEW t \in Services, NEW c \in Checks, NEW m \in Nodes, Capture(c, t, m)
          PROVE  FALSE
      BY <3>2, <3>8 DEF Capture
    <3>9. ASSUME NEW t \in Services, NEW m \in Nodes, NEW source \in Sources,
                 Save(t, m, source)
          PROVE  FALSE
      BY <3>2, <3>9 DEF Save
    <3>10. QED
      BY <3>1, <3>3, <3>4, <3>5, <3>6, <3>7, <3>8, <3>9 DEF Next
  <2>3. PICK src, r, res : src = head[s] /\ r = results'[s][n] /\ res = results'[s]
    OBVIOUS
  <2>4. /\ store \subseteq Result /\ StoreSound
        /\ results \in [Services -> Outcomes] /\ results[s] \in Outcomes
        /\ Evident(results[s]) /\ src \in [Nodes -> Sources]
    BY <2>3, InductiveParts DEF StoreOK, ResultsOK, ResultsValid, Others
  <2>5. res = Restored(results[s], src, Nodes)
    BY <2>2, <2>3, <2>4 DEF Sync
  <2>6. \A j \in Chain[n] : Stored(KeyOf(src, j))
    BY <2>3 DEF ChainStored
  <2>7. Shown(res, src, n) /\ res \in Outcomes
    BY <2>4, <2>5, <2>6, RestoredShown, RestoredEvident
  <2>8. head' = head
    BY <2>2 DEF Sync
  <2>9. StatusTrue'
    BY TrueNext
  <2>10. Status(res, src, n) \in {"unverified", TrueStatus(KeyOf(src, n))}
    BY <2>3, <2>8, <2>9 DEF StatusTrue
  <2>11. Status(res, src, n) # "unverified"
    <3>1. res[n] \in Result
      BY <2>7 DEF Shown, Certifies, Outcomes
    <3>2. res[n].below \in {"yes", "no"}
      BY <2>7, <3>1, ResultFacts DEF Shown
    <3>3. QED
      BY <2>7, <3>2 DEF Status, Shown
  <2>12. QED
    BY <2>3, <2>10, <2>11
<1>2. QED
  BY <1>1, InductiveInvariant, PTL DEF Spec, ReadRestores
=============================================================================
