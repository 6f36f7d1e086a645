---------------------------- MODULE CacheGCProofs ----------------------------
(***************************************************************************)
(* Proofs about CacheGC and EvictionLoop for all pools, files, services,   *)
(* tasks, collectors and budgets.                                          *)
(***************************************************************************)
EXTENDS EvictionLoop, FiniteSetTheorems, WellFoundedInduction, TLAPS

-----------------------------------------------------------------------------
(***************************************************************************)
(* Induction, by the least counterexample.                                 *)
(***************************************************************************)
LEMMA LeastMember ==
  ASSUME NEW n \in Nat, NEW T \in SUBSET (0 .. n), T # {}
  PROVE  \E k \in T : \A j \in T : k <= j
<1> DEFINE below == {0 .. k : k \in T}
<1>1. below \subseteq FiniteSubsetsOf(0 .. n)
  <2> SUFFICES ASSUME NEW k \in T PROVE 0 .. k \in FiniteSubsetsOf(0 .. n)
    OBVIOUS
  <2>1. k \in Int /\ 0 .. k \subseteq 0 .. n
    OBVIOUS
  <2>2. IsFiniteSet(0 .. k)
    BY <2>1, FS_Interval
  <2>3. QED
    BY <2>1, <2>2 DEF FiniteSubsetsOf
<1>2. below # {}
  OBVIOUS
<1>3. IsWellFoundedOn(StrictSubsetOrdering(0 .. n), FiniteSubsetsOf(0 .. n))
  BY FS_StrictSubsetOrderingWellFounded
<1> HIDE DEF below
<1>4. PICK x \in below : \A y \in below : ~ <<y, x>> \in StrictSubsetOrdering(0 .. n)
  BY <1>1, <1>2, <1>3, WFMin
<1>5. PICK k \in T : x = 0 .. k
  BY DEF below
<1>6. ASSUME NEW j \in T, ~ k <= j PROVE FALSE
  <2>1. 0 .. j \in below
    BY DEF below
  <2>2. j \in Nat /\ k \in Nat /\ j < k
    BY <1>6
  <2>3. 0 .. j \subseteq 0 .. k /\ k \in 0 .. k /\ k \notin 0 .. j
    BY <2>2
  <2>4. 0 .. j \subseteq 0 .. n /\ 0 .. k \subseteq 0 .. n
    OBVIOUS
  <2>5. <<0 .. j, 0 .. k>> \in StrictSubsetOrdering(0 .. n)
    BY <2>3, <2>4 DEF StrictSubsetOrdering
  <2>6. QED
    BY <1>4, <1>5, <2>1, <2>5
<1>7. QED
  BY <1>6

\* What holds of the first stage and passes from each to the next, holds of all.
LEMMA StageInduction ==
  ASSUME NEW n \in Nat, NEW P, 0 \in P,
         \A k \in 0 .. n : k < n /\ k \in P => k + 1 \in P
  PROVE  \A k \in 0 .. n : k \in P
<1> DEFINE T == (0 .. n) \ P
<1>1. ASSUME T # {} PROVE FALSE
  <2>1. T \in SUBSET (0 .. n)
    OBVIOUS
  <2> HIDE DEF T
  <2>2. PICK k \in T : \A j \in T : k <= j
    BY <1>1, <2>1, LeastMember
  <2>3. k \in 0 .. n /\ k \notin P /\ k # 0
    BY DEF T
  <2>4. k - 1 \in 0 .. n /\ k - 1 < n /\ ~ k <= k - 1 /\ k - 1 + 1 = k
    BY <2>3
  <2>5. k - 1 \in P
    BY <2>2, <2>4 DEF T
  <2>. QED
    BY <2>3, <2>4, <2>5
<1>. QED
  BY <1>1

-----------------------------------------------------------------------------
USE FilesAssumption, BudgetAssumption, ActorsAssumption DEF Collectors, Files

-----------------------------------------------------------------------------
(***************************************************************************)
(* The inductive invariant.                                                *)
(***************************************************************************)
Collection ==
  [stage : {"out", "lock", "delete"}, todo : SUBSET Pools, held : SUBSET Pools,
   protected : Nat, limit : Nat \cup {NoLimit}, certificates : BOOLEAN,
   young : SUBSET Files, doomed : SUBSET Files]

\* A task works on one mapping and relies on objects that it names; a check
\* ends with its service.
Mapped(t, m) ==
  /\ task[t].mapping = {m}
  /\ task[t].relies \subseteq Refs[m]
  /\ task[t].kind = "check" =>
       \E s \in Services :
         task[t].owner = {s} /\ service[s].open /\ Branch[s] = Home[m]

TasksShaped == \A t \in Tasks :
  /\ task[t].kind = "out" => task[t].relies = {}
  /\ task[t].kind # "out" => \E m \in Mappings : Mapped(t, m)

\* What a service knows lies in its own pool.
KnownAtHome == \A s \in Services :
  /\ \A f \in service[s].known : Home[f] = Branch[s]
  /\ ~ service[s].open => service[s].known = {}

\* Nobody else collects or uses a pool that is held, and where certificates
\* are collected no service is open.
HeldAlone == \A c \in Collectors : \A p \in collector[c].held :
  /\ \A d \in Collectors : p \in collector[d].held => d = c
  /\ \A t \in Tasks : task[t].kind # "out" => task[t].mapping \cap {m \in Mappings : Home[m] = p} = {}
  /\ collector[c].certificates => \A s \in Services : Branch[s] = p => ~ service[s].open

\* Old and whole files of the pools that are held; with an object, everything
\* that names it.
DoomedSafely == \A c \in Collectors : \A f \in collector[c].doomed :
  /\ f \in files /\ Home[f] \in collector[c].held
  /\ f \notin collector[c].young /\ f \notin torn
  /\ f \in Certificates => collector[c].certificates
  /\ f \in Objects => \A m \in Mappings \cap files : f \in Refs[m] => m \in collector[c].doomed

StagesKept == \A c \in Collectors :
  /\ collector[c].stage = "out" => collector[c].held = {}
  /\ collector[c].stage # "delete" => collector[c].doomed = {}
  /\ collector[c].stage # "out" /\ c \in Automatic => collector[c].limit = Target

\* What will be left once all that is planned has been deleted.
Left(c) == Before(c) - Cardinality(collector[c].doomed \cap Objects)

Suffices(c) ==
  \/ c \in Automatic /\ Left(c) <= Budget
  \/ c \in Manual /\ Within(c, Left(c))
  \/ /\ Evictable(c) \subseteq collector[c].doomed
     /\ Unreferenced(c, Evictable(c)) \subseteq collector[c].doomed

PlansSuffice == \A c \in Collectors : collector[c].stage = "delete" => Suffices(c)

Inductive ==
  /\ TypeOK /\ TasksShaped /\ KnownAtHome /\ UsesSurvive /\ CertificatesKept
  /\ HeldAlone /\ DoomedSafely /\ StagesKept /\ PlansSuffice

-----------------------------------------------------------------------------
(***************************************************************************)
(* Lemmas.                                                                 *)
(***************************************************************************)
\* Nobody holds a pool while a task uses it.
LEMMA UsedIsFree ==
  ASSUME HeldAlone, NEW t \in Tasks, task[t].kind # "out",
         NEW m \in Mappings, Mapped(t, m), NEW c \in Collectors
  PROVE  Home[m] \notin collector[c].held
BY DEF HeldAlone, Mapped

\* The pool of a task is that of its mapping.
LEMMA PoolOfMapped ==
  ASSUME NEW t \in Tasks, NEW m \in Mappings, Mapped(t, m)
  PROVE  PoolOf(t) = Home[m]
BY DEF PoolOf, Mapped

\* A pool that can be guarded is used by no task and held by no collector.
LEMMA GuardedIsUnused ==
  ASSUME TasksShaped, NEW p \in Pools, Using(p) = {}, NEW t \in Tasks, task[t].kind # "out"
  PROVE  task[t].mapping \cap {m \in Mappings : Home[m] = p} = {}
<1>1. PICK m \in Mappings : Mapped(t, m)
  BY DEF TasksShaped
<1>2. PoolOf(t) = Home[m]
  BY <1>1, PoolOfMapped
<1>3. QED
  BY <1>1, <1>2 DEF Mapped, Using

\* The target lies within the budget.
LEMMA TargetWithinBudget == Target \in Nat /\ Target <= Budget
<1>1. PICK q \in Nat, r \in 0 .. 4 : Budget = 5 * q + r
  <2>1. /\ Budget \div 5 \in Nat /\ Budget % 5 \in 0 .. 4
        /\ Budget = 5 * (Budget \div 5) + (Budget % 5)
    OBVIOUS
  <2>2. QED
    BY <2>1
<1>2. Budget \div 5 = q /\ Budget % 5 = r
  BY <1>1
<1>3. (r * 4) \div 5 \in Nat /\ (r * 4) \div 5 <= r
  BY <1>1
<1>4. QED
  BY <1>1, <1>2, <1>3 DEF Target

LEMMA SizeType ==
  ASSUME NEW ps
  PROVE  Size(ps) \in Nat /\ IsFiniteSet(ObjectsIn(ps))
<1>1. ObjectsIn(ps) \in SUBSET Objects
  BY DEF ObjectsIn
<1>2. QED
  BY <1>1, FS_Subset, FS_CardinalityType DEF Size

LEMMA BeforeType ==
  ASSUME TypeOK, NEW c \in Collectors
  PROVE  Before(c) \in Nat
BY SizeType DEF Before, TypeOK

\* A plan that suffices still does when neither it nor the files of its pools
\* have changed.
LEMMA SufficesKept ==
  ASSUME NEW c \in Collectors, Suffices(c), collector'[c] = collector[c],
         \A f \in Files : Home[f] \in collector[c].held => (f \in files' <=> f \in files)
  PROVE  Suffices(c)'
<1>1. ObjectsIn(collector[c].held)' = ObjectsIn(collector[c].held)
  BY DEF ObjectsIn
<1>2. MappingsIn(collector[c].held)' = MappingsIn(collector[c].held)
  BY DEF MappingsIn
<1>3. Before(c)' = Before(c)
  BY <1>1 DEF Before, Size
<1>4. Left(c)' = Left(c)
  BY <1>3 DEF Left
<1>5. Evictable(c)' = Evictable(c)
  BY <1>2 DEF Evictable
<1>6. Unreferenced(c, Evictable(c))' = Unreferenced(c, Evictable(c))
  BY <1>1, <1>2, <1>5 DEF Unreferenced
<1>7. QED
  BY <1>4, <1>5, <1>6 DEF Suffices, Within

\* What other processes do leaves the plans of collectors as they are: only
\* those without a plan learn of new files.
SamePlan(c) ==
  /\ collector'[c].stage = collector[c].stage
  /\ collector'[c].held = collector[c].held
  /\ collector'[c].doomed = collector[c].doomed
  /\ collector'[c].certificates = collector[c].certificates
  /\ collector'[c].limit = collector[c].limit
  /\ collector[c].stage = "delete" => collector'[c] = collector[c]

Undisturbed ==
  /\ \A c \in Collectors : SamePlan(c)
  /\ \A c \in Collectors : \A f \in Files :
       Home[f] \in collector[c].held => /\ f \in files' <=> f \in files
                                        /\ f \in torn' => f \in torn

LEMMA PlansUndisturbed ==
  ASSUME Inductive, Undisturbed
  PROVE  DoomedSafely' /\ StagesKept' /\ PlansSuffice'
<1> USE DEF Inductive
<1>1. DoomedSafely'
  <2> SUFFICES ASSUME NEW c \in Collectors, NEW f \in collector[c].doomed
               PROVE  /\ f \in files' /\ Home[f] \in collector'[c].held
                      /\ f \notin collector'[c].young /\ f \notin torn'
                      /\ f \in Certificates => collector'[c].certificates
                      /\ f \in Objects => \A m \in Mappings \cap files' :
                           f \in Refs[m] => m \in collector'[c].doomed
    BY DEF DoomedSafely, Undisturbed, SamePlan
  <2>1. collector'[c] = collector[c]
    BY DEF StagesKept, Undisturbed, SamePlan
  <2>2. f \in Files
    BY DEF TypeOK
  <2>3. \A m \in Mappings \cap files' : f \in Objects /\ f \in Refs[m] => m \in files
    BY DEF DoomedSafely, Undisturbed, SamePlan
  <2>4. QED
    BY <2>1, <2>2, <2>3 DEF DoomedSafely, Undisturbed, SamePlan
<1>2. StagesKept'
  BY DEF StagesKept, Undisturbed, SamePlan, Target
<1>3. PlansSuffice'
  BY SufficesKept DEF PlansSuffice, Undisturbed, SamePlan
<1>4. QED
  BY <1>1, <1>2, <1>3

\* What is written while a collection waits for its plan.
LEMMA AgingUndisturbed ==
  ASSUME TypeOK, NEW new \in SUBSET Files, Aging(new)
  PROVE  /\ collector' \in [Collectors -> Collection]
         /\ \A c \in Collectors : SamePlan(c)
<1> SUFFICES ASSUME NEW c \in Collectors
             PROVE  /\ collector'[c] \in Collection
                    /\ SamePlan(c)
  BY DEF Aging
<1>1. collector[c] \in Collection
  BY DEF TypeOK, Collection
<1>2. collector'[c] = IF collector[c].stage = "lock"
                      THEN [collector[c] EXCEPT !.young = collector[c].young \cup new]
                      ELSE collector[c]
  BY DEF Aging
<1>3. collector[c].young \cup new \in SUBSET Files
  BY <1>1 DEF Collection
<1>4. QED
  BY <1>1, <1>2, <1>3 DEF Collection, SamePlan

-----------------------------------------------------------------------------
(***************************************************************************)
(* Services.                                                               *)
(***************************************************************************)
LEMMA OpenInductive ==
  ASSUME Inductive, NEW s \in Services, Open(s)
  PROVE  Inductive'
<1> USE DEF Inductive
<1>1. TypeOK'
  <2>1. /\ service[s] \in [open : BOOLEAN, known : SUBSET Certificates]
        /\ TRUE \in BOOLEAN
    BY DEF TypeOK
  <2>2. [service[s] EXCEPT !.open = TRUE] \in [open : BOOLEAN, known : SUBSET Certificates]
    BY <2>1
  <2>3. service' \in [Services -> [open : BOOLEAN, known : SUBSET Certificates]]
    BY <2>2 DEF Open, TypeOK
  <2>4. QED
    BY <2>3 DEF Open, TypeOK
<1>2. TasksShaped'
  <2>1. \A q \in Services : service[q].open => service'[q].open
    <3>1. service'[s].open
      BY DEF Open, TypeOK
    <3>2. \A q \in Services \ {s} : service'[q] = service[q]
      BY DEF Open, TypeOK
    <3>3. QED
      BY <3>1, <3>2
  <2>2. \A t \in Tasks, m \in Mappings : Mapped(t, m) => Mapped(t, m)'
    BY <2>1 DEF Open, Mapped
  <2>3. QED
    BY <2>2 DEF Open, TasksShaped
<1>3. KnownAtHome' /\ UsesSurvive' /\ CertificatesKept'
  BY DEF Open, TypeOK, KnownAtHome, UsesSurvive, CertificatesKept
<1>4. HeldAlone'
  BY DEF Open, TypeOK, HeldAlone, Guards
<1>5. Undisturbed
  BY DEF Open, Undisturbed, SamePlan
<1>6. QED
  BY <1>1, <1>2, <1>3, <1>4, <1>5, PlansUndisturbed

LEMMA LoadInductive ==
  ASSUME Inductive, NEW s \in Services, Load(s)
  PROVE  Inductive'
<1> USE DEF Inductive
<1>1. TypeOK'
  BY DEF Load, TypeOK, At
<1>2. TasksShaped'
  BY DEF Load, TypeOK, TasksShaped, Mapped
<1>3. KnownAtHome' /\ UsesSurvive' /\ CertificatesKept'
  BY DEF Load, TypeOK, KnownAtHome, UsesSurvive, CertificatesKept, At
<1>4. HeldAlone'
  BY DEF Load, TypeOK, HeldAlone
<1>5. Undisturbed
  BY DEF Load, Undisturbed, SamePlan
<1>6. QED
  BY <1>1, <1>2, <1>3, <1>4, <1>5, PlansUndisturbed

LEMMA CloseInductive ==
  ASSUME Inductive, NEW s \in Services, Close(s)
  PROVE  Inductive'
<1> USE DEF Inductive
<1>1. TypeOK'
  BY DEF Close, TypeOK, NoTask
<1>2. TasksShaped'
  <2> SUFFICES ASSUME NEW t \in Tasks
               PROVE  /\ task'[t].kind = "out" => task'[t].relies = {}
                      /\ task'[t].kind # "out" => \E m \in Mappings : Mapped(t, m)'
    BY DEF TasksShaped
  <2>1. CASE task[t].owner = {s}
    BY <2>1 DEF Close, NoTask
  <2>2. CASE task[t].owner # {s}
    BY <2>2 DEF Close, TypeOK, TasksShaped, Mapped
  <2>3. QED
    BY <2>1, <2>2
<1>3. KnownAtHome' /\ UsesSurvive' /\ CertificatesKept'
  BY DEF Close, TypeOK, KnownAtHome, UsesSurvive, CertificatesKept, NoTask
<1>4. HeldAlone'
  BY DEF Close, TypeOK, HeldAlone, NoTask
<1>5. Undisturbed
  BY DEF Close, Undisturbed, SamePlan
<1>6. QED
  BY <1>1, <1>2, <1>3, <1>4, <1>5, PlansUndisturbed

-----------------------------------------------------------------------------
(***************************************************************************)
(* Tasks.                                                                  *)
(***************************************************************************)
Task == [kind : {"out", "check", "lake", "orphan", "attach"},
         owner : SUBSET Services, mapping : SUBSET Mappings, relies : SUBSET Objects]

\* A task that ends, or goes on with another kind or other objects that its
\* mapping names, and leaves files and collectors alone.
LEMMA TaskChanges ==
  ASSUME Inductive, NEW t \in Tasks, NEW new \in Task,
         task' = [task EXCEPT ![t] = new],
         new.kind = "out" => new.relies = {},
         new.kind # "out" => /\ task[t].kind # "out"
                             /\ new.mapping = task[t].mapping
                             /\ new.owner = task[t].owner
                             /\ new.kind = "check" => task[t].kind = "check",
         \A m \in Mappings : new.kind # "out" /\ new.mapping = {m} => new.relies \subseteq Refs[m],
         UNCHANGED service
  PROVE  TasksShaped' /\ KnownAtHome'
<1> USE DEF Inductive
<1>1. TasksShaped'
  <2> SUFFICES ASSUME NEW q \in Tasks
               PROVE  /\ task'[q].kind = "out" => task'[q].relies = {}
                      /\ task'[q].kind # "out" => \E m \in Mappings : Mapped(q, m)'
    BY DEF TasksShaped
  <2>1. CASE q = t
    <3>1. task'[t] = new
      BY DEF TypeOK
    <3>2. CASE new.kind = "out"
      BY <2>1, <3>1, <3>2
    <3>3. CASE new.kind # "out"
      <4>1. PICK m \in Mappings : Mapped(t, m)
        BY <3>3 DEF TasksShaped
      <4>2. Mapped(t, m)'
        BY <3>1, <3>3, <4>1 DEF Mapped
      <4>3. QED
        BY <2>1, <3>1, <3>3, <4>2
    <3>4. QED
      BY <3>2, <3>3
  <2>2. CASE q # t
    BY <2>2 DEF TypeOK, TasksShaped, Mapped
  <2>3. QED
    BY <2>1, <2>2
<1>2. KnownAtHome'
  BY DEF KnownAtHome
<1>3. QED
  BY <1>1, <1>2

\* A task that has no part in a collection changes nothing that one depends on.
LEMMA HeldKept ==
  ASSUME Inductive, NEW t \in Tasks, NEW new \in Task,
         task' = [task EXCEPT ![t] = new],
         new.kind # "out" => task[t].kind # "out" /\ new.mapping = task[t].mapping,
         \A c \in Collectors : SamePlan(c),
         \A s \in Services : service'[s].open = service[s].open
  PROVE  HeldAlone'
<1> USE DEF Inductive
<1>1. \A q \in Tasks : task'[q].kind # "out" =>
        task[q].kind # "out" /\ task'[q].mapping = task[q].mapping
  BY DEF TypeOK
<1>2. QED
  BY <1>1 DEF HeldAlone, SamePlan

LEMMA EnterInductive ==
  ASSUME Inductive, NEW t \in Tasks, NEW kind \in {"check", "lake", "attach"},
         NEW s \in Services, NEW m \in Mappings, Enter(t, kind, s, m)
  PROVE  Inductive'
<1> USE DEF Inductive
<1> DEFINE new == [kind |-> kind, owner |-> IF kind = "check" THEN {s} ELSE {},
                   mapping |-> {m}, relies |-> {}]
<1>1. new \in Task /\ task' = [task EXCEPT ![t] = new] /\ task'[t] = new
  BY DEF Enter, Task, TypeOK
<1>2. TypeOK'
  BY <1>1 DEF Enter, Task, TypeOK
<1>3. TasksShaped'
  <2>1. Mapped(t, m)'
    BY <1>1 DEF Enter, Mapped
  <2>2. \A q \in Tasks \ {t} : task'[q] = task[q]
    BY DEF Enter, TypeOK
  <2>3. QED
    BY <1>1, <2>1, <2>2 DEF TasksShaped, Enter, Mapped
<1>4. KnownAtHome' /\ UsesSurvive' /\ CertificatesKept'
  BY DEF Enter, TypeOK, KnownAtHome, UsesSurvive, CertificatesKept
<1>5. HeldAlone'
  BY <1>1 DEF Enter, TypeOK, HeldAlone, Guards
<1>6. Undisturbed
  BY DEF Enter, Undisturbed, SamePlan
<1>7. QED
  BY <1>2, <1>3, <1>4, <1>5, <1>6, PlansUndisturbed

\* Steps of a task that leave files and collectors alone.
LEMMA QuietStep ==
  ASSUME Inductive, NEW t \in Tasks, NEW new \in Task,
         task' = [task EXCEPT ![t] = new],
         new.kind = "out" => new.relies = {},
         new.kind # "out" => /\ task[t].kind # "out"
                             /\ new.mapping = task[t].mapping
                             /\ new.owner = task[t].owner
                             /\ new.kind = "check" => task[t].kind = "check",
         \A m \in Mappings : new.kind # "out" /\ new.mapping = {m} => new.relies \subseteq Refs[m],
         new.relies \subseteq files,
         UNCHANGED <<files, torn, service, collector>>,
         pending' \subseteq Pools, kills' \in Nat, aborts' \in Nat
  PROVE  Inductive'
<1> USE DEF Inductive
<1>1. TypeOK'
  BY DEF TypeOK, Task
<1>2. TasksShaped' /\ KnownAtHome'
  BY TaskChanges
<1>3. UsesSurvive' /\ CertificatesKept'
  BY DEF UsesSurvive, CertificatesKept, TypeOK
<1>4. Undisturbed
  BY DEF Undisturbed, SamePlan
<1>5. HeldAlone'
  BY <1>4, HeldKept DEF Undisturbed
<1>6. QED
  BY <1>1, <1>2, <1>3, <1>4, <1>5, PlansUndisturbed

LEMMA TaskType ==
  ASSUME TypeOK, NEW t \in Tasks
  PROVE  task[t] \in Task /\ NoTask \in Task
BY DEF TypeOK, Task, NoTask

LEMMA FindInductive ==
  ASSUME Inductive, NEW t \in Tasks, Find(t) \/ Reuse(t)
  PROVE  Inductive'
<1> USE DEF Inductive
<1>1. PICK m \in task[t].mapping :
        /\ task[t].kind # "out" /\ Refs[m] \subseteq files
        /\ task' = [task EXCEPT ![t].relies = Refs[m]]
  BY DEF Find, Reuse, Missing
<1> DEFINE new == [task[t] EXCEPT !.relies = Refs[m]]
<1>2. m \in Mappings /\ task[t].mapping = {m}
  BY <1>1 DEF TasksShaped, Mapped
<1>3. /\ new \in Task /\ task' = [task EXCEPT ![t] = new]
      /\ new.kind = task[t].kind /\ new.mapping = task[t].mapping
      /\ new.owner = task[t].owner /\ new.relies = Refs[m]
  BY <1>1, <1>2, TaskType DEF Task
<1>4. /\ UNCHANGED <<files, torn, service, collector>>
      /\ pending' \subseteq Pools /\ kills' \in Nat /\ aborts' \in Nat
  BY DEF Find, Reuse, TypeOK
<1>5. /\ new.kind # "out" /\ new.relies \subseteq files
      /\ \A q \in Mappings : new.mapping = {q} => new.relies \subseteq Refs[q]
  BY <1>1, <1>2, <1>3
<1> HIDE DEF new
<1>6. QED
  BY <1>1, <1>2, <1>3, <1>4, <1>5, QuietStep

LEMMA EndInductive ==
  ASSUME Inductive, NEW t \in Tasks,
         \/ Leave(t) \/ Finish(t) \/ OrphanEnds(t)
         \/ /\ task' = [task EXCEPT ![t] = NoTask]
            /\ kills' \in Nat /\ UNCHANGED <<files, torn, pending, service, collector, aborts>>
  PROVE  Inductive'
<1> USE DEF Inductive
<1>1. task' = [task EXCEPT ![t] = NoTask] /\ UNCHANGED <<files, torn, service, collector>>
  BY DEF Leave, Finish, OrphanEnds
<1>2. kills' \in Nat /\ aborts' \in Nat
  BY DEF Leave, Finish, OrphanEnds, TypeOK
<1>3. pending' \subseteq Pools
  <2>1. CASE Finish(t)
    <3>1. PICK m \in Mappings : Mapped(t, m)
      BY <2>1 DEF Finish, TasksShaped
    <3>2. PoolOf(t) \in Pools
      BY <3>1, PoolOfMapped
    <3>3. QED
      BY <2>1, <3>2 DEF Finish, TypeOK
  <2>2. CASE ~ Finish(t)
    BY <2>2 DEF Leave, OrphanEnds, TypeOK
  <2>3. QED
    BY <2>1, <2>2
<1>4. NoTask \in Task /\ NoTask.kind = "out" /\ NoTask.relies = {}
  BY TaskType DEF NoTask
<1>5. QED
  BY <1>1, <1>2, <1>3, <1>4, QuietStep

LEMMA OrphanInductive ==
  ASSUME Inductive, NEW t \in Tasks, Orphan(t)
  PROVE  Inductive'
<1> USE DEF Inductive
<1> DEFINE new == [task[t] EXCEPT !.kind = "orphan"]
<1>1. /\ new \in Task /\ task' = [task EXCEPT ![t] = new]
      /\ new.kind = "orphan" /\ new.mapping = task[t].mapping
      /\ new.owner = task[t].owner /\ new.relies = task[t].relies
  BY TaskType DEF Task, Orphan
<1>2. /\ UNCHANGED <<files, torn, service, collector>>
      /\ pending' \subseteq Pools /\ kills' \in Nat /\ aborts' \in Nat
      /\ task[t].kind = "lake"
  BY DEF Orphan, TypeOK, Failed
<1>3. \A q \in Mappings : new.mapping = {q} => new.relies \subseteq Refs[q]
  BY <1>1, <1>2 DEF TasksShaped, Mapped
<1>4. new.relies \subseteq files
  BY <1>1 DEF UsesSurvive
<1> HIDE DEF new
<1>5. QED
  BY <1>1, <1>2, <1>3, <1>4, QuietStep

\* A task writes into the pool of its mapping, which no collector holds.
LEMMA WriteElsewhere ==
  ASSUME Inductive, NEW t \in Tasks, task[t].kind # "out",
         NEW m \in Mappings, Mapped(t, m), NEW f \in Files, Home[f] = Home[m],
         files' = files \cup {f}, torn' \subseteq torn \cup {m},
         \A c \in Collectors : SamePlan(c)
  PROVE  Undisturbed
<1>1. \A c \in Collectors : Home[m] \notin collector[c].held
  BY UsedIsFree DEF Inductive
<1>2. QED
  BY <1>1 DEF Undisturbed

LEMMA ImportInductive ==
  ASSUME Inductive, NEW t \in Tasks, Import(t)
  PROVE  Inductive'
<1> USE DEF Inductive
<1>1. PICK m \in Mappings : Mapped(t, m)
  BY DEF Import, TasksShaped
<1>2. PICK f \in {m} \cup Refs[m] :
        /\ files' = files \cup {f}
        /\ UNCHANGED collector \/ Aging({f})
  BY <1>1 DEF Import, Mapped
<1>3. f \in Files /\ Home[f] = Home[m]
  BY <1>2
<1>4. /\ collector' \in [Collectors -> Collection]
      /\ \A c \in Collectors : SamePlan(c)
  <2>1. CASE UNCHANGED collector
    BY <2>1 DEF TypeOK, Collection, SamePlan
  <2>2. CASE Aging({f})
    BY <1>3, <2>2, AgingUndisturbed
  <2>3. QED
    BY <1>2, <2>1, <2>2
<1>5. TypeOK'
  BY <1>2, <1>3, <1>4 DEF Import, TypeOK, Collection
<1>6. TasksShaped'
  BY DEF Import, TasksShaped, Mapped
<1>7. KnownAtHome' /\ UsesSurvive' /\ CertificatesKept'
  BY <1>2 DEF Import, KnownAtHome, UsesSurvive, CertificatesKept
<1>8. HeldAlone'
  BY <1>4 DEF Import, HeldAlone, SamePlan
<1>9. Undisturbed
  <2>1. torn' \subseteq torn \cup {m} /\ task[t].kind # "out"
    BY DEF Import
  <2>2. QED
    BY <1>1, <1>2, <1>3, <1>4, <2>1, WriteElsewhere
<1>10. QED
  BY <1>5, <1>6, <1>7, <1>8, <1>9, PlansUndisturbed

LEMMA PublishInductive ==
  ASSUME Inductive, NEW t \in Tasks, Publish(t)
  PROVE  Inductive'
<1> USE DEF Inductive
<1>1. PICK m \in Mappings : Mapped(t, m)
  BY DEF Publish, TasksShaped
<1>2. PICK s \in task[t].owner, f \in At(PoolOf(t), Certificates) :
        /\ files' = files \cup {f}
        /\ service' = [service EXCEPT ![s].known = @ \cup {f}]
        /\ Aging({f})
  BY DEF Publish
<1>3. /\ s \in Services /\ service[s].open /\ Branch[s] = Home[m]
      /\ f \in Certificates /\ Home[f] = Home[m]
  BY <1>1, <1>2, PoolOfMapped DEF Publish, Mapped, At
<1>4. /\ collector' \in [Collectors -> Collection]
      /\ \A c \in Collectors : SamePlan(c)
  BY <1>2, <1>3, AgingUndisturbed
<1>5. /\ service' \in [Services -> [open : BOOLEAN, known : SUBSET Certificates]]
      /\ \A q \in Services : service'[q].open = service[q].open
      /\ service'[s].known = service[s].known \cup {f}
      /\ \A q \in Services \ {s} : service'[q].known = service[q].known
  <2>1. /\ service[s] \in [open : BOOLEAN, known : SUBSET Certificates]
        /\ service' = [service EXCEPT ![s] = [service[s] EXCEPT !.known = service[s].known \cup {f}]]
    BY <1>2, <1>3 DEF TypeOK
  <2>2. service[s].known \cup {f} \in SUBSET Certificates
    BY <1>3, <2>1
  <2>3. [service[s] EXCEPT !.known = service[s].known \cup {f}]
          \in [open : BOOLEAN, known : SUBSET Certificates]
    BY <2>1, <2>2
  <2>4. QED
    BY <1>3, <2>1, <2>3 DEF TypeOK
<1>6. TypeOK'
  BY <1>2, <1>3, <1>4, <1>5 DEF Publish, TypeOK, Collection
<1>7. TasksShaped'
  <2>1. \A q \in Tasks, k \in Mappings : Mapped(q, k) => Mapped(q, k)'
    BY <1>5 DEF Publish, Mapped
  <2>2. QED
    BY <2>1 DEF Publish, TasksShaped
<1>8. KnownAtHome' /\ UsesSurvive' /\ CertificatesKept'
  BY <1>2, <1>3, <1>5 DEF Publish, KnownAtHome, UsesSurvive, CertificatesKept
<1>9. HeldAlone'
  BY <1>4, <1>5 DEF Publish, HeldAlone, SamePlan
<1>10. Undisturbed
  <2>1. /\ torn' \subseteq torn \cup {m} /\ task[t].kind # "out"
    BY DEF Publish
  <2>2. QED
    BY <1>1, <1>2, <1>3, <1>4, <2>1, WriteElsewhere
<1>11. QED
  BY <1>6, <1>7, <1>8, <1>9, <1>10, PlansUndisturbed

LEMMA WriteObjectInductive ==
  ASSUME Inductive, NEW t \in Tasks, WriteObject(t)
  PROVE  Inductive'
<1> USE DEF Inductive
<1>1. PICK m \in Mappings : Mapped(t, m)
  BY DEF WriteObject, TasksShaped
<1>2. PICK o \in Refs[m] :
        /\ files' = files \cup {o}
        /\ task' = [task EXCEPT ![t].relies = @ \cup {o}]
        /\ Aging({o} \ files)
  BY <1>1 DEF WriteObject, Mapped
<1> DEFINE new == [task[t] EXCEPT !.relies = task[t].relies \cup {o}]
<1>3. /\ o \in Objects /\ Home[o] = Home[m] /\ task[t] \in Task
      /\ task[t].relies \cup {o} \in SUBSET Objects
  BY <1>2, TaskType DEF Task
<1>4. /\ new \in Task /\ task' = [task EXCEPT ![t] = new]
      /\ new.kind = task[t].kind /\ new.mapping = task[t].mapping
      /\ new.owner = task[t].owner /\ new.relies = task[t].relies \cup {o}
      /\ new.kind # "out"
  BY <1>2, <1>3 DEF Task, WriteObject
<1> HIDE DEF new
<1>5. /\ collector' \in [Collectors -> Collection]
      /\ \A c \in Collectors : SamePlan(c)
  BY <1>2, <1>3, AgingUndisturbed
<1>6. TypeOK'
  BY <1>2, <1>3, <1>4, <1>5 DEF WriteObject, TypeOK, Collection, Task
<1>7. TasksShaped' /\ KnownAtHome'
  <2>1. \A k \in Mappings : new.mapping = {k} => new.relies \subseteq Refs[k]
    BY <1>1, <1>2, <1>4 DEF Mapped
  <2>2. QED
    BY <1>4, <2>1, TaskChanges DEF WriteObject
<1>8. UsesSurvive' /\ CertificatesKept'
  BY <1>2, <1>4 DEF WriteObject, UsesSurvive, CertificatesKept, TypeOK
<1>9. HeldAlone'
  BY <1>4, <1>5, HeldKept DEF WriteObject
<1>10. Undisturbed
  <2>1. /\ torn' \subseteq torn \cup {m} /\ task[t].kind # "out"
    BY DEF WriteObject
  <2>2. QED
    BY <1>1, <1>2, <1>3, <1>5, <2>1, WriteElsewhere
<1>11. QED
  BY <1>6, <1>7, <1>8, <1>9, <1>10, PlansUndisturbed

LEMMA WriteMappingInductive ==
  ASSUME Inductive, NEW t \in Tasks, WriteMapping(t)
  PROVE  Inductive'
<1> USE DEF Inductive
<1>1. PICK m \in Mappings : Mapped(t, m)
  BY DEF WriteMapping, TasksShaped
<1>2. files' = files \cup {m} /\ torn' = torn \ {m} /\ Aging({m})
  BY <1>1 DEF WriteMapping, Mapped
<1>3. /\ collector' \in [Collectors -> Collection]
      /\ \A c \in Collectors : SamePlan(c)
  BY <1>2, AgingUndisturbed
<1>4. TypeOK'
  BY <1>2, <1>3 DEF WriteMapping, TypeOK, Collection
<1>5. TasksShaped' /\ KnownAtHome'
  BY DEF WriteMapping, TasksShaped, Mapped, KnownAtHome
<1>6. UsesSurvive' /\ CertificatesKept'
  BY <1>2 DEF WriteMapping, UsesSurvive, CertificatesKept
<1>7. HeldAlone'
  BY <1>3 DEF WriteMapping, HeldAlone, SamePlan
<1>8. Undisturbed
  <2>1. /\ torn' \subseteq torn \cup {m} /\ task[t].kind # "out"
    BY <1>2 DEF WriteMapping
  <2>2. QED
    BY <1>1, <1>2, <1>3, <2>1, WriteElsewhere
<1>9. QED
  BY <1>4, <1>5, <1>6, <1>7, <1>8, PlansUndisturbed

LEMMA KillInductive ==
  ASSUME Inductive, NEW t \in Tasks, Kill(t)
  PROVE  Inductive'
<1> USE DEF Inductive
<1>1. /\ task' = [task EXCEPT ![t] = NoTask] /\ task[t].kind # "out"
      /\ UNCHANGED <<pending, service, aborts>> /\ kills' \in Nat
  BY DEF Kill, Failed, TypeOK
<1>2. CASE UNCHANGED <<files, torn, collector>>
  BY <1>1, <1>2, EndInductive
<1>3. CASE ~ UNCHANGED <<files, torn, collector>>
  <2>1. PICK m \in Mappings : Mapped(t, m)
    BY <1>1 DEF TasksShaped
  <2>2. files' = files \cup {m} /\ torn' = torn \cup {m} /\ Aging({m})
    BY <1>3, <2>1 DEF Kill, Mapped
  <2>3. /\ collector' \in [Collectors -> Collection]
        /\ \A c \in Collectors : SamePlan(c)
    BY <2>2, AgingUndisturbed
  <2>4. NoTask \in Task /\ NoTask.kind = "out" /\ NoTask.relies = {}
    BY TaskType DEF NoTask
  <2> HIDE DEF NoTask
  <2>5. TypeOK'
    BY <1>1, <2>2, <2>3, <2>4 DEF TypeOK, Collection, Task
  <2>6. TasksShaped' /\ KnownAtHome'
    BY <1>1, <2>4, TaskChanges
  <2>7. UsesSurvive' /\ CertificatesKept'
    BY <1>1, <2>2, <2>4 DEF UsesSurvive, CertificatesKept, TypeOK
  <2>8. HeldAlone'
    BY <1>1, <2>3, <2>4, HeldKept
  <2>9. Undisturbed
    <3>1. /\ torn' \subseteq torn \cup {m} /\ task[t].kind # "out"
      BY <1>1, <2>2
    <3>2. QED
      BY <1>1, <2>1, <2>2, <2>3, <3>1, WriteElsewhere
  <2>10. QED
    BY <2>5, <2>6, <2>7, <2>8, <2>9, PlansUndisturbed
<1>4. QED
  BY <1>2, <1>3

-----------------------------------------------------------------------------
(***************************************************************************)
(* Collections.                                                            *)
(***************************************************************************)
\* A step of a collector that has no plan afterwards.
LEMMA CollectorStep ==
  ASSUME Inductive, NEW c \in Collectors, NEW new \in Collection,
         collector' = [collector EXCEPT ![c] = new],
         UNCHANGED <<files, torn, service, task>>,
         pending' \subseteq Pools, kills' \in Nat, aborts' \in Nat,
         new.stage # "delete", new.doomed = {},
         new.stage = "out" => new.held = {},
         new.stage # "out" /\ c \in Automatic => new.limit = Target,
         HeldAlone'
  PROVE  Inductive'
<1> USE DEF Inductive
<1>1. /\ collector'[c] = new
      /\ \A d \in Collectors \ {c} : collector'[d] = collector[d]
      /\ collector' \in [Collectors -> Collection]
  BY DEF TypeOK, Collection
<1>2. TypeOK'
  BY <1>1 DEF TypeOK, Collection
<1>3. TasksShaped' /\ KnownAtHome' /\ UsesSurvive' /\ CertificatesKept'
  BY DEF TasksShaped, Mapped, KnownAtHome, UsesSurvive, CertificatesKept
<1>4. DoomedSafely'
  BY <1>1 DEF DoomedSafely
<1>5. StagesKept'
  BY <1>1 DEF StagesKept, Target
<1>6. PlansSuffice'
  <2>1. \A d \in Collectors : collector'[d].stage = "delete" =>
          d # c /\ collector'[d] = collector[d] /\ Suffices(d)
    BY <1>1 DEF PlansSuffice
  <2>2. QED
    BY <2>1, SufficesKept DEF PlansSuffice
<1>7. QED
  BY <1>2, <1>3, <1>4, <1>5, <1>6

\* A collector that holds what it held, or nothing, disturbs nobody.
LEMMA HoldsNoMore ==
  ASSUME Inductive, NEW c \in Collectors, NEW new \in Collection,
         collector' = [collector EXCEPT ![c] = new],
         UNCHANGED <<service, task>>,
         \/ new.held = {}
         \/ new.held = collector[c].held /\ new.certificates = collector[c].certificates
  PROVE  HeldAlone'
<1>1. /\ collector'[c] = new
      /\ \A d \in Collectors \ {c} : collector'[d] = collector[d]
  BY DEF Inductive, TypeOK
<1>2. QED
  BY <1>1 DEF HeldAlone, Inductive

LEMMA CollectorType ==
  ASSUME TypeOK, NEW c \in Collectors
  PROVE  collector[c] \in Collection /\ NoCollection \in Collection
BY DEF TypeOK, Collection, NoCollection

\* The end of a collection, with or without success.
LEMMA EndOfCollection ==
  ASSUME Inductive, NEW c \in Collectors,
         collector' = [collector EXCEPT ![c] = NoCollection],
         UNCHANGED <<files, torn, service, task>>,
         pending' \subseteq Pools, kills' \in Nat, aborts' \in Nat
  PROVE  Inductive'
<1>1. /\ NoCollection \in Collection /\ NoCollection.stage = "out"
      /\ NoCollection.held = {} /\ NoCollection.doomed = {}
  BY CollectorType DEF NoCollection, Inductive
<1>2. HeldAlone'
  BY <1>1, HoldsNoMore
<1>3. QED
  BY <1>1, <1>2, CollectorStep

LEMMA BeginInductive ==
  ASSUME Inductive, NEW c \in Collectors, NEW todo \in SUBSET Pools,
         NEW limit \in Nat \cup {NoLimit}, NEW certificates \in BOOLEAN,
         c \in Automatic => limit = Target,
         Begin(c, todo, limit, certificates)
  PROVE  Inductive'
<1> DEFINE new == [NoCollection EXCEPT !.stage = "lock", !.todo = todo, !.limit = limit,
                                       !.certificates = certificates]
<1>1. /\ new \in Collection /\ new.stage = "lock" /\ new.held = {}
      /\ new.doomed = {} /\ new.limit = limit
  BY DEF NoCollection, Collection
<1>2. /\ collector' = [collector EXCEPT ![c] = new]
      /\ UNCHANGED <<files, torn, pending, service, task, kills, aborts>>
  BY DEF Begin
<1>3. pending' \subseteq Pools /\ kills' \in Nat /\ aborts' \in Nat
  BY <1>2 DEF Inductive, TypeOK
<1> HIDE DEF new
<1>4. HeldAlone'
  BY <1>1, <1>2, HoldsNoMore
<1>5. QED
  BY <1>1, <1>2, <1>3, <1>4, CollectorStep

LEMMA GuardInductive ==
  ASSUME Inductive, NEW c \in Collectors, NEW p \in Pools, Guard(c, p)
  PROVE  Inductive'
<1> USE DEF Inductive
<1>1. PICK young \in SUBSET (IF c \in Manual THEN At(p, files) ELSE {}) :
        collector' = [collector EXCEPT ![c].todo = @ \ {p}, ![c].held = @ \cup {p},
                                       ![c].young = @ \cup young]
  BY DEF Guard
<1> DEFINE new == [collector[c] EXCEPT !.todo = collector[c].todo \ {p},
                                       !.held = collector[c].held \cup {p},
                                       !.young = collector[c].young \cup young]
<1>2. /\ collector[c] \in Collection /\ collector[c].stage = "lock"
      /\ young \in SUBSET Files /\ CanGuard(c, p)
      /\ UNCHANGED <<files, torn, pending, service, task, kills, aborts>>
  BY CollectorType DEF Guard, At, TypeOK
<1>3. collector' = [collector EXCEPT ![c] = new]
  BY <1>1, <1>2 DEF TypeOK
<1>4. /\ new \in Collection /\ new.stage = "lock" /\ new.doomed = collector[c].doomed
      /\ new.held = collector[c].held \cup {p} /\ new.limit = collector[c].limit
      /\ new.certificates = collector[c].certificates
  BY <1>2 DEF Collection
<1> HIDE DEF new
<1>5. HeldAlone'
  <2>1. /\ collector'[c] = new
        /\ \A d \in Collectors \ {c} : collector'[d] = collector[d]
    BY <1>3 DEF TypeOK
  <2>2. \A d \in Collectors : p \notin collector[d].held
    BY <1>2 DEF CanGuard, Guards
  <2>3. \A t \in Tasks : task[t].kind # "out" =>
          task[t].mapping \cap {m \in Mappings : Home[m] = p} = {}
    BY <1>2, GuardedIsUnused DEF CanGuard
  <2>4. new.certificates => \A s \in Services : Branch[s] = p => ~ service[s].open
    BY <1>2, <1>4 DEF CanGuard, Living
  <2>5. QED
    BY <1>2, <1>4, <2>1, <2>2, <2>3, <2>4 DEF HeldAlone
<1>6. new.doomed = {} /\ (c \in Automatic => new.limit = Target)
  BY <1>2, <1>4 DEF StagesKept
<1>7. pending' \subseteq Pools /\ kills' \in Nat /\ aborts' \in Nat
  BY <1>2 DEF TypeOK
<1>8. QED
  BY <1>2, <1>3, <1>4, <1>5, <1>6, <1>7, CollectorStep

LEMMA BusyInductive ==
  ASSUME Inductive, NEW c \in Collectors, NEW p \in Pools, Busy(c, p)
  PROVE  Inductive'
<1> USE DEF Inductive
<1>1. /\ collector[c] \in Collection /\ collector[c].stage = "lock"
      /\ UNCHANGED <<files, torn, pending, service, task, kills, aborts>>
      /\ pending' \subseteq Pools /\ kills' \in Nat /\ aborts' \in Nat
  BY CollectorType DEF Busy, TypeOK
<1>2. CASE c \in Automatic
  <2> DEFINE new == [collector[c] EXCEPT !.todo = collector[c].todo \ {p},
                                         !.protected = collector[c].protected + Counted(p)]
  <2>1. collector' = [collector EXCEPT ![c] = new]
    BY <1>1, <1>2, Zenon DEF Busy
  <2>2. Counted(p) \in Nat
    BY SizeType DEF Counted
  <2>3. collector[c].protected + Counted(p) \in Nat
    BY <1>1, <2>2 DEF Collection
  <2>4. /\ new \in Collection /\ new.stage = "lock" /\ new.doomed = collector[c].doomed
        /\ new.held = collector[c].held /\ new.limit = collector[c].limit
        /\ new.certificates = collector[c].certificates
    BY <1>1, <2>3 DEF Collection
  <2> HIDE DEF new
  <2>5. HeldAlone'
    BY <1>1, <2>1, <2>4, HoldsNoMore
  <2>6. new.doomed = {} /\ new.limit = Target
    BY <1>1, <1>2, <2>4 DEF StagesKept
  <2>7. QED
    BY <1>1, <2>1, <2>4, <2>5, <2>6, CollectorStep
<1>3. CASE c \notin Automatic
  <2>1. collector' = [collector EXCEPT ![c] = NoCollection]
    BY <1>3 DEF Busy
  <2>2. QED
    BY <1>1, <2>1, EndOfCollection
<1>4. QED
  BY <1>2, <1>3

LEMMA FinishedInductive ==
  ASSUME Inductive, NEW c \in Collectors, Finished(c) \/ Abort(c)
  PROVE  Inductive'
<1>1. /\ collector' = [collector EXCEPT ![c] = NoCollection]
      /\ UNCHANGED <<files, torn, service, task>>
  BY DEF Finished, Abort
<1>2. pending' \subseteq Pools /\ kills' \in Nat /\ aborts' \in Nat
  BY DEF Finished, Abort, Failed, Inductive, TypeOK
<1>3. QED
  BY <1>1, <1>2, EndOfCollection

\* The remaining size of a plan is a size.
LEMMA RemainingType ==
  ASSUME TypeOK, NEW c \in Collectors, NEW ms
  PROVE  /\ Remaining(c, ms) \in Int
         /\ Cardinality(Unreferenced(c, ms)) \in Nat
<1>1. Unreferenced(c, ms) \in SUBSET Objects
  BY DEF Unreferenced, ObjectsIn
<1>2. Cardinality(Unreferenced(c, ms)) \in Nat
  BY <1>1, FS_Subset, FS_CardinalityType
<1>3. QED
  BY <1>2, BeforeType DEF Remaining

\* A plan takes old and whole files of the pools it was made for, all that
\* names an object with the object, and enough of them.
LEMMA PlanInductive ==
  ASSUME Inductive, NEW c \in Collectors, Plan(c)
  PROVE  Inductive'
<1> USE DEF Inductive
<1>1. /\ collector[c] \in Collection /\ collector[c].stage = "lock"
      /\ UNCHANGED <<files, torn, pending, service, task, kills, aborts>>
      /\ pending' \subseteq Pools /\ kills' \in Nat /\ aborts' \in Nat
      /\ collector[c].doomed = {}
      /\ c \in Automatic => collector[c].limit = Target
  BY CollectorType DEF Plan, TypeOK, StagesKept
<1> DEFINE Planned(D) == [collector[c] EXCEPT !.stage = "delete", !.doomed = D]
<1>2. ASSUME NEW D \in SUBSET files,
             collector' = [collector EXCEPT ![c] = Planned(D)],
             \A f \in D : /\ Home[f] \in collector[c].held
                          /\ f \notin collector[c].young /\ f \notin torn
                          /\ f \in Certificates => collector[c].certificates
                          /\ f \in Objects => \A m \in Mappings \cap files : f \in Refs[m] => m \in D,
             Suffices(c)'
      PROVE  Inductive'
  <2>1. D \in SUBSET Files
    BY DEF TypeOK
  <2>2. /\ Planned(D) \in Collection /\ Planned(D).stage = "delete" /\ Planned(D).doomed = D
        /\ Planned(D).held = collector[c].held /\ Planned(D).limit = collector[c].limit
        /\ Planned(D).certificates = collector[c].certificates
        /\ Planned(D).young = collector[c].young
    BY <1>1, <2>1 DEF Collection
  <2> HIDE DEF Planned
  <2>3. /\ collector'[c] = Planned(D)
        /\ \A d \in Collectors \ {c} : collector'[d] = collector[d]
        /\ collector' \in [Collectors -> Collection]
    BY <1>2, <2>2 DEF TypeOK, Collection
  <2>4. TypeOK'
    BY <1>1, <2>3 DEF TypeOK, Collection
  <2>5. TasksShaped' /\ KnownAtHome' /\ UsesSurvive' /\ CertificatesKept'
    BY <1>1 DEF TasksShaped, Mapped, KnownAtHome, UsesSurvive, CertificatesKept
  <2>6. HeldAlone'
    BY <1>1, <1>2, <2>2, HoldsNoMore
  <2>7. DoomedSafely'
    BY <1>1, <1>2, <2>2, <2>3 DEF DoomedSafely
  <2>8. StagesKept'
    BY <1>1, <2>2, <2>3 DEF StagesKept, Target
  <2>9. PlansSuffice'
    <3>1. \A d \in Collectors \ {c} : collector'[d].stage = "delete" =>
            collector'[d] = collector[d] /\ Suffices(d)
      BY <2>3 DEF PlansSuffice
    <3>2. QED
      BY <1>1, <1>2, <3>1, SufficesKept DEF PlansSuffice
  <2>10. QED
    BY <2>4, <2>5, <2>6, <2>7, <2>8, <2>9
<1>3. CASE Needed(c) /\ torn \cap MappingsIn(collector[c].held) # {}
  <2>1. collector' = [collector EXCEPT ![c] = NoCollection]
    BY <1>3 DEF Plan
  <2>2. QED
    BY <1>1, <2>1, EndOfCollection
<1>4. CASE Needed(c) /\ torn \cap MappingsIn(collector[c].held) = {}
  <2>1. PICK ms \in Evictions(c) :
          collector' = [collector EXCEPT ![c].stage = "delete",
            ![c].doomed = ms \cup Unreferenced(c, ms) \cup OldCertificates(c)]
    BY <1>4 DEF Plan
  <2> DEFINE D == ms \cup Unreferenced(c, ms) \cup OldCertificates(c)
  <2>2. /\ ms \subseteq Evictable(c) /\ ms \subseteq Mappings \cap files
        /\ Within(c, Remaining(c, ms)) \/ ms = Evictable(c)
    BY DEF Evictions, Evictable, MappingsIn
  <2>3. OldCertificates(c) \subseteq Certificates \cap files /\ Unreferenced(c, ms) \subseteq Objects \cap files
    BY DEF OldCertificates, Unreferenced, ObjectsIn
  <2>4. D \in SUBSET files /\ D \cap Objects = Unreferenced(c, ms)
    BY <2>2, <2>3
  <2>5. collector' = [collector EXCEPT ![c] = Planned(D)]
    BY <1>1, <2>1 DEF TypeOK
  <2>6. ASSUME NEW f \in D
        PROVE  /\ Home[f] \in collector[c].held
               /\ f \notin collector[c].young /\ f \notin torn
               /\ f \in Certificates => collector[c].certificates
               /\ f \in Objects => \A m \in Mappings \cap files : f \in Refs[m] => m \in D
    <3>1. CASE f \in ms
      BY <1>4, <2>2, <3>1 DEF Evictable, MappingsIn, TypeOK
    <3>2. CASE f \in Unreferenced(c, ms)
      <4>1. Home[f] \in collector[c].held /\ f \notin collector[c].young /\ f \in Objects
        BY <3>2 DEF Unreferenced, ObjectsIn
      <4>2. \A m \in Mappings \cap files : f \in Refs[m] => m \in ms
        BY <3>2, <4>1 DEF Unreferenced, MappingsIn
      <4>3. QED
        BY <4>1, <4>2 DEF TypeOK
    <3>3. CASE f \in OldCertificates(c)
      BY <3>3 DEF OldCertificates, TypeOK
    <3>4. QED
      BY <3>1, <3>2, <3>3
  <2>7. Suffices(c)'
    <3>1. /\ collector'[c].doomed = D /\ collector'[c].held = collector[c].held
          /\ collector'[c].limit = collector[c].limit /\ collector'[c].young = collector[c].young
          /\ collector'[c].protected = collector[c].protected
      BY <1>1, <2>5 DEF TypeOK, Collection
    <3>2. Before(c)' = Before(c)
      BY <1>1, <3>1 DEF Before, Size, ObjectsIn
    <3> HIDE DEF D
    <3>3. Left(c)' = Remaining(c, ms)
      BY <2>4, <3>1, <3>2 DEF Left, Remaining
    <3>4. Evictable(c)' = Evictable(c) /\ Unreferenced(c, Evictable(c))' = Unreferenced(c, Evictable(c))
      BY <1>1, <3>1 DEF Evictable, MappingsIn, Unreferenced, ObjectsIn
    <3>5. CASE ms = Evictable(c)
      BY <3>1, <3>4, <3>5 DEF Suffices, D
    <3>6. CASE Within(c, Remaining(c, ms))
      <4>1. CASE c \in Manual
        BY <3>1, <3>3, <3>6, <4>1 DEF Suffices, Within
      <4>2. CASE c \in Automatic
        <5>1. Remaining(c, ms) <= Target
          BY <1>1, <3>6, <4>2 DEF Within
        <5>2. Remaining(c, ms) <= Budget
          BY <5>1, RemainingType, TargetWithinBudget
        <5>3. QED
          BY <3>3, <4>2, <5>2 DEF Suffices
      <4>3. QED
        BY <4>1, <4>2
    <3>7. QED
      BY <2>2, <3>5, <3>6
  <2> HIDE DEF D, Planned
  <2>8. QED
    BY <1>2, <2>4, <2>5, <2>6, <2>7
<1>5. CASE ~ Needed(c)
  <2>1. collector' = [collector EXCEPT ![c] = Planned({})]
    <3>1. [collector[c] EXCEPT !.stage = "delete"] = Planned({})
      BY <1>1 DEF Collection
    <3>2. collector' = [collector EXCEPT ![c] = [collector[c] EXCEPT !.stage = "delete"]]
      BY <1>5 DEF Plan, TypeOK
    <3>3. QED
      BY <3>1, <3>2
  <2>2. Suffices(c)'
    <3>1. c \in Automatic /\ Before(c) <= Budget
      BY <1>5, BeforeType DEF Needed
    <3>2. /\ collector'[c].doomed = {} /\ collector'[c].held = collector[c].held
          /\ collector'[c].protected = collector[c].protected
      BY <1>1, <2>1 DEF TypeOK, Collection
    <3>3. Left(c)' = Before(c)
      BY <1>1, <3>2, FS_EmptySet, BeforeType DEF Left, Before, Size, ObjectsIn
    <3>4. QED
      BY <3>1, <3>3 DEF Suffices
  <2> HIDE DEF Planned
  <2>3. QED
    BY <1>2, <2>1, <2>2
<1>6. QED
  BY <1>3, <1>4, <1>5

\* A set without one of its elements.
LEMMA OneLess ==
  ASSUME NEW S, IsFiniteSet(S), NEW x \in S
  PROVE  /\ Cardinality(S) \in Nat
         /\ Cardinality(S \ {x}) = Cardinality(S) - 1
<1>1. Cardinality(S) \in Nat
  BY FS_CardinalityType
<1>2. Cardinality(S \ {x}) = IF x \in S THEN Cardinality(S) - 1 ELSE Cardinality(S)
  BY FS_RemoveElement
<1>3. QED
  BY <1>1, <1>2

\* A file that goes is one of a pool that the collector holds alone; what is
\* left to go still brings about what was planned.
LEMMA DeletedSuffices ==
  ASSUME Inductive, NEW c \in Collectors, NEW f \in Files, Delete(c, f)
  PROVE  Suffices(c)'
<1> USE DEF Inductive
<1>1. /\ collector[c] \in Collection /\ collector[c].stage = "delete"
      /\ f \in collector[c].doomed /\ files' = files \ {f} /\ Suffices(c)
      /\ f \in files /\ Home[f] \in collector[c].held /\ f \notin collector[c].young
      /\ collector' = [collector EXCEPT ![c].doomed = @ \ {f}]
  BY CollectorType DEF Delete, PlansSuffice, DoomedSafely
<1>2. /\ collector'[c].doomed = collector[c].doomed \ {f}
      /\ collector'[c].held = collector[c].held /\ collector'[c].limit = collector[c].limit
      /\ collector'[c].young = collector[c].young
      /\ collector'[c].protected = collector[c].protected
  BY <1>1 DEF TypeOK, Collection
<1>3. /\ ObjectsIn(collector[c].held)' = ObjectsIn(collector[c].held) \ {f}
      /\ MappingsIn(collector[c].held)' = MappingsIn(collector[c].held) \ {f}
  BY <1>1, <1>2 DEF ObjectsIn, MappingsIn
<1>4. Left(c)' = Left(c)
  <2>1. Size(collector[c].held) \in Nat /\ IsFiniteSet(ObjectsIn(collector[c].held))
    BY SizeType
  <2>2. /\ IsFiniteSet(collector[c].doomed \cap Objects)
        /\ Cardinality(collector[c].doomed \cap Objects) \in Nat
    BY FS_Intersection, FS_CardinalityType
  <2>3. CASE f \in Objects
    <3>1. f \in ObjectsIn(collector[c].held) /\ f \in collector[c].doomed \cap Objects
      BY <1>1, <2>3 DEF ObjectsIn
    <3>2. Size(collector[c].held)' = Size(collector[c].held) - 1
      <4>1. Cardinality(ObjectsIn(collector[c].held) \ {f}) = Cardinality(ObjectsIn(collector[c].held)) - 1
        BY <2>1, <3>1, OneLess
      <4>2. QED
        BY <1>3, <4>1 DEF Size
    <3>3. (collector[c].doomed \cap Objects)' = (collector[c].doomed \cap Objects) \ {f}
      BY <1>2
    <3>4. Cardinality(collector[c].doomed \cap Objects)' = Cardinality(collector[c].doomed \cap Objects) - 1
      <4>1. Cardinality((collector[c].doomed \cap Objects) \ {f}) = Cardinality(collector[c].doomed \cap Objects) - 1
        BY <2>2, <3>1, OneLess
      <4>2. QED
        BY <3>3, <4>1
    <3>5. collector[c].protected \in Nat
      BY <1>1 DEF Collection
    <3>6. QED
      BY <1>2, <2>1, <2>2, <3>2, <3>4, <3>5 DEF Left, Before
  <2>4. CASE f \notin Objects
    <3>1. ObjectsIn(collector[c].held)' = ObjectsIn(collector[c].held)
      BY <1>3, <2>4 DEF ObjectsIn
    <3>2. (collector[c].doomed \cap Objects)' = collector[c].doomed \cap Objects
      BY <1>2, <2>4
    <3>3. QED
      BY <1>2, <3>1, <3>2 DEF Left, Before, Size
  <2>5. QED
    BY <2>3, <2>4
<1>5. CASE c \in Automatic /\ Left(c) <= Budget
  BY <1>4, <1>5 DEF Suffices
<1>6. CASE c \in Manual /\ Within(c, Left(c))
  BY <1>2, <1>4, <1>6 DEF Suffices, Within
<1>7. CASE /\ Evictable(c) \subseteq collector[c].doomed
           /\ Unreferenced(c, Evictable(c)) \subseteq collector[c].doomed
  <2>1. Evictable(c)' = Evictable(c) \ {f}
    BY <1>2, <1>3 DEF Evictable
  <2>2. (MappingsIn(collector[c].held) \ Evictable(c))' = MappingsIn(collector[c].held) \ Evictable(c)
    BY <1>1, <1>2, <1>3, <2>1 DEF Evictable
  <2>3. Unreferenced(c, Evictable(c))' \subseteq Unreferenced(c, Evictable(c)) \ {f}
    BY <1>2, <1>3, <2>2 DEF Unreferenced
  <2>4. QED
    BY <1>2, <1>7, <2>1, <2>3 DEF Suffices
<1>8. QED
  BY <1>1, <1>5, <1>6, <1>7 DEF Suffices

LEMMA DeleteInductive ==
  ASSUME Inductive, NEW c \in Collectors, NEW f \in Files, Delete(c, f)
  PROVE  Inductive'
<1> USE DEF Inductive
<1>1. /\ collector[c] \in Collection /\ collector[c].stage = "delete"
      /\ f \in collector[c].doomed /\ files' = files \ {f}
      /\ f \in files /\ Home[f] \in collector[c].held /\ f \notin torn
      /\ f \in Certificates => collector[c].certificates
      /\ collector' = [collector EXCEPT ![c].doomed = @ \ {f}]
      /\ UNCHANGED <<torn, pending, service, task, kills, aborts>>
  BY CollectorType DEF Delete, DoomedSafely
<1> DEFINE new == [collector[c] EXCEPT !.doomed = collector[c].doomed \ {f}]
<1>2. /\ new \in Collection /\ collector' = [collector EXCEPT ![c] = new]
      /\ new.stage = "delete" /\ new.doomed = collector[c].doomed \ {f}
      /\ new.held = collector[c].held /\ new.limit = collector[c].limit
      /\ new.certificates = collector[c].certificates /\ new.young = collector[c].young
  BY <1>1 DEF Collection, TypeOK
<1> HIDE DEF new
<1>3. /\ collector'[c] = new
      /\ \A d \in Collectors \ {c} : collector'[d] = collector[d]
      /\ collector' \in [Collectors -> Collection]
  BY <1>2 DEF TypeOK, Collection
<1>4. TypeOK'
  BY <1>1, <1>3 DEF TypeOK, Collection
<1>5. TasksShaped' /\ KnownAtHome'
  BY <1>1 DEF TasksShaped, Mapped, KnownAtHome
<1>6. UsesSurvive'
  <2> SUFFICES ASSUME NEW t \in Tasks, f \in task[t].relies
               PROVE  FALSE
    BY <1>1 DEF UsesSurvive
  <2>1. PICK m \in Mappings : Mapped(t, m)
    BY DEF TasksShaped
  <2>2. Home[f] = Home[m]
    BY <2>1 DEF Mapped
  <2>3. task[t].kind # "out"
    BY DEF TasksShaped
  <2>4. QED
    BY <1>1, <2>1, <2>2, <2>3, UsedIsFree
<1>7. CertificatesKept'
  <2> SUFFICES ASSUME NEW s \in Services, f \in service[s].known
               PROVE  FALSE
    BY <1>1 DEF CertificatesKept
  <2>1. f \in Certificates /\ Home[f] = Branch[s] /\ service[s].open
    BY DEF KnownAtHome, TypeOK
  <2>2. QED
    BY <1>1, <2>1 DEF HeldAlone
<1>8. HeldAlone'
  BY <1>1, <1>2, HoldsNoMore
<1>9. \A d \in Collectors \ {c} : Home[f] \notin collector[d].held
  BY <1>1 DEF HeldAlone
<1>10. DoomedSafely'
  <2> SUFFICES ASSUME NEW d \in Collectors, NEW g \in collector'[d].doomed
               PROVE  /\ g \in files' /\ Home[g] \in collector'[d].held
                      /\ g \notin collector'[d].young /\ g \notin torn'
                      /\ g \in Certificates => collector'[d].certificates
                      /\ g \in Objects => \A m \in Mappings \cap files' :
                           g \in Refs[m] => m \in collector'[d].doomed
    BY DEF DoomedSafely
  <2>1. CASE d = c
    BY <1>1, <1>2, <1>3, <2>1 DEF DoomedSafely
  <2>2. CASE d # c
    BY <1>1, <1>3, <1>9, <2>2 DEF DoomedSafely
  <2>3. QED
    BY <2>1, <2>2
<1>11. StagesKept'
  BY <1>1, <1>2, <1>3 DEF StagesKept, Target
<1>12. PlansSuffice'
  <2>1. Suffices(c)'
    BY DeletedSuffices
  <2>2. ASSUME NEW d \in Collectors \ {c}, collector'[d].stage = "delete"
        PROVE  Suffices(d)'
    <3>1. collector'[d] = collector[d] /\ Suffices(d)
      BY <1>3, <2>2 DEF PlansSuffice
    <3>2. \A g \in Files : Home[g] \in collector[d].held => (g \in files' <=> g \in files)
      BY <1>1, <1>9
    <3>3. QED
      BY <3>1, <3>2, SufficesKept
  <2>3. QED
    BY <2>1, <2>2 DEF PlansSuffice
<1>13. QED
  BY <1>4, <1>5, <1>6, <1>7, <1>8, <1>10, <1>11, <1>12

-----------------------------------------------------------------------------
(***************************************************************************)
(* Deletions of databases.                                                 *)
(***************************************************************************)
LEMMA RemovePoolInductive ==
  ASSUME Inductive, NEW p \in Pools, RemovePool(p)
  PROVE  Inductive'
<1> USE DEF Inductive
<1>1. /\ files' = {f \in files : Home[f] # p} /\ torn' = {m \in torn : Home[m] # p}
      /\ pending' = pending \ {p}
      /\ UNCHANGED <<service, task, collector, kills, aborts>>
      /\ Guards(p) = {} /\ ~ Living(p)
  BY DEF RemovePool
<1>2. \A s \in Services : service[s].open => Branch[s] # p
  BY <1>1 DEF Living
<1>3. \A c \in Collectors : p \notin collector[c].held
  BY <1>1 DEF Guards
<1>4. ASSUME NEW t \in Tasks, task[t].kind # "out", NEW m \in Mappings, Mapped(t, m)
      PROVE  Home[m] # p
  <2>1. CASE task[t].kind = "check"
    BY <1>2, <1>4, <2>1 DEF Mapped
  <2>2. CASE task[t].kind # "check"
    BY <1>1, <1>4, <2>2, PoolOfMapped DEF Living, Using
  <2>3. QED
    BY <2>1, <2>2
<1>5. TypeOK'
  BY <1>1 DEF TypeOK
<1>6. TasksShaped' /\ KnownAtHome'
  BY <1>1 DEF TasksShaped, Mapped, KnownAtHome
<1>7. UsesSurvive'
  <2> SUFFICES ASSUME NEW t \in Tasks, NEW o \in task[t].relies
               PROVE  Home[o] # p
    BY <1>1 DEF UsesSurvive
  <2>1. task[t].kind # "out"
    BY DEF TasksShaped
  <2>2. PICK m \in Mappings : Mapped(t, m)
    BY <2>1 DEF TasksShaped
  <2>3. QED
    BY <1>4, <2>1, <2>2 DEF Mapped
<1>8. CertificatesKept'
  BY <1>1, <1>2 DEF CertificatesKept, KnownAtHome
<1>9. HeldAlone'
  BY <1>1 DEF HeldAlone
<1>10. Undisturbed
  BY <1>1, <1>3 DEF Undisturbed, SamePlan
<1>11. QED
  BY <1>5, <1>6, <1>7, <1>8, <1>9, <1>10, PlansUndisturbed

-----------------------------------------------------------------------------
(***************************************************************************)
(* The theorems.                                                           *)
(***************************************************************************)
LEMMA InitInductive == Init => Inductive
<1> SUFFICES ASSUME Init PROVE Inductive
  OBVIOUS
<1>1. TypeOK
  BY DEF Init, TypeOK, NoTask, NoCollection
<1>2. TasksShaped /\ KnownAtHome /\ UsesSurvive /\ CertificatesKept
  BY DEF Init, TasksShaped, KnownAtHome, UsesSurvive, CertificatesKept, NoTask
<1>3. HeldAlone /\ DoomedSafely /\ StagesKept /\ PlansSuffice
  BY DEF Init, HeldAlone, DoomedSafely, StagesKept, PlansSuffice, NoCollection
<1>4. QED
  BY <1>1, <1>2, <1>3 DEF Inductive

LEMMA TaskInductive ==
  ASSUME Inductive, NEW t \in Tasks, TaskStep(t)
  PROVE  Inductive'
<1>1. CASE \E s \in Services, m \in Mappings :
             Check(t, s, m) \/ Build(t, s, m) \/ Attach(t, s, m)
  BY <1>1, EnterInductive DEF Check, Build, Attach
<1>2. CASE Import(t)
  BY <1>2, ImportInductive
<1>3. CASE Find(t) \/ Reuse(t)
  BY <1>3, FindInductive
<1>4. CASE Publish(t)
  BY <1>4, PublishInductive
<1>5. CASE Leave(t) \/ Finish(t) \/ OrphanEnds(t)
  BY <1>5, EndInductive
<1>6. CASE WriteObject(t)
  BY <1>6, WriteObjectInductive
<1>7. CASE WriteMapping(t)
  BY <1>7, WriteMappingInductive
<1>8. CASE Orphan(t)
  BY <1>8, OrphanInductive
<1>9. CASE Kill(t)
  BY <1>9, KillInductive
<1>10. QED
  BY <1>1, <1>2, <1>3, <1>4, <1>5, <1>6, <1>7, <1>8, <1>9 DEF TaskStep

LEMMA CollectorInductive ==
  ASSUME Inductive, NEW c \in Collectors, Tick(c) \/ Collect(c) \/ CollectorWork(c) \/ Abort(c)
  PROVE  Inductive'
<1>1. CASE Tick(c)
  BY <1>1, TargetWithinBudget, BeginInductive DEF Tick
<1>2. CASE Collect(c)
  <2>1. PICK p \in Pools, limit \in Limits, certificates \in BOOLEAN :
          Begin(c, {p}, limit, certificates)
    BY <1>2 DEF Collect
  <2>2. c \notin Automatic /\ limit \in Nat \cup {NoLimit} /\ {p} \in SUBSET Pools
    BY <1>2 DEF Collect
  <2>3. QED
    BY <2>1, <2>2, BeginInductive
<1>3. CASE \E p \in Pools : Guard(c, p) \/ Busy(c, p)
  BY <1>3, GuardInductive, BusyInductive
<1>4. CASE Plan(c)
  BY <1>4, PlanInductive
<1>5. CASE Finished(c) \/ Abort(c)
  BY <1>5, FinishedInductive
<1>6. CASE \E f \in Files : Delete(c, f)
  BY <1>6, DeleteInductive
<1>7. QED
  BY <1>1, <1>2, <1>3, <1>4, <1>5, <1>6 DEF CollectorWork

LEMMA NextInductive == Inductive /\ [Next]_vars => Inductive'
<1> SUFFICES ASSUME Inductive, [Next]_vars PROVE Inductive'
  OBVIOUS
<1>1. CASE \E s \in Services : ServiceStep(s)
  BY <1>1, OpenInductive, LoadInductive, CloseInductive DEF ServiceStep
<1>2. CASE \E t \in Tasks : TaskStep(t)
  BY <1>2, TaskInductive
<1>3. CASE \E c \in Collectors : Tick(c) \/ Collect(c) \/ CollectorWork(c) \/ Abort(c)
  BY <1>3, CollectorInductive
<1>4. CASE \E p \in Pools : RemovePool(p)
  BY <1>4, RemovePoolInductive
<1>5. CASE UNCHANGED vars
  <2>1. TypeOK' /\ TasksShaped' /\ KnownAtHome' /\ UsesSurvive' /\ CertificatesKept' /\ HeldAlone'
    BY <1>5 DEF Inductive, vars, TypeOK, TasksShaped, Mapped, KnownAtHome, UsesSurvive,
                CertificatesKept, HeldAlone
  <2>2. Undisturbed
    BY <1>5 DEF vars, Undisturbed, SamePlan
  <2>3. QED
    BY <2>1, <2>2, PlansUndisturbed DEF Inductive
<1>6. QED
  BY <1>1, <1>2, <1>3, <1>4, <1>5 DEF Next

\* The locks keep users, collectors and deletions of a pool apart, and every
\* plan is safe and sufficient from the moment it is made until it is done.
THEOREM InductiveInvariant == Spec => []Inductive
BY InitInductive, NextInductive, PTL DEF Spec

\* Every variable has its type (CacheGC!TypeOK).
THEOREM TypeCorrect == Spec => []TypeOK
<1>1. Inductive => TypeOK
  BY DEF Inductive
<1>2. QED
  BY <1>1, InductiveInvariant, PTL

\* No collection and no deletion of a database takes an object from a check,
\* or from a native process whose wrapper or service may have died.
THEOREM UsedObjectsSurvive == Spec => []UsesSurvive
<1>1. Inductive => UsesSurvive
  BY DEF Inductive
<1>2. QED
  BY <1>1, InductiveInvariant, PTL

\* The certificates that an open service has in memory stay on disk.
THEOREM LoadedCertificatesStay == Spec => []CertificatesKept
<1>1. Inductive => CertificatesKept
  BY DEF Inductive
<1>2. QED
  BY <1>1, InductiveInvariant, PTL

\* A collection that has done what it planned is within its budget, or nothing
\* is left that it may take.
THEOREM CollectionsMeetBudget == Spec => []EndsWithinBudget
<1>1. Inductive => EndsWithinBudget
  <2> SUFFICES ASSUME Inductive, NEW c \in Collectors,
                      collector[c].stage = "delete", collector[c].doomed = {}
               PROVE  \/ c \in Automatic /\ Before(c) <= Budget
                      \/ c \in Manual /\ Within(c, Before(c))
                      \/ Evictable(c) = {} /\ Unreferenced(c, {}) = {}
    BY DEF EndsWithinBudget
  <2>1. Suffices(c)
    BY DEF Inductive, PlansSuffice
  <2>2. Left(c) = Before(c)
    <3>1. collector[c].doomed \cap Objects = {} /\ Before(c) \in Nat
      BY BeforeType DEF Inductive
    <3>2. QED
      BY <3>1, FS_EmptySet DEF Left
  <2>3. Evictable(c) \subseteq {} => Evictable(c) = {}
    OBVIOUS
  <2>4. QED
    BY <2>1, <2>2, <2>3 DEF Suffices
<1>2. QED
  BY <1>1, InductiveInvariant, PTL

\* A mapping never loses an object that it names, at no point of a collection
\* and whenever one is cut short: whatever names an object goes before it.
THEOREM MappingsKeepObjects == Spec => MappedKeepsObjects
<1>1. Inductive /\ [Next]_vars =>
        [\A m \in Mappings \cap files \cap files' :
           Refs[m] \subseteq files => Refs[m] \subseteq files']_vars
  <2> SUFFICES ASSUME Inductive, Next, NEW m \in Mappings \cap files \cap files',
                      Refs[m] \subseteq files, NEW o \in Refs[m], o \notin files'
               PROVE  FALSE
    OBVIOUS
  <2> USE DEF Inductive
  <2>1. o \in Objects /\ o \in files /\ m \in Files /\ o \in Files /\ Home[o] = Home[m]
        /\ m \notin Objects
    BY FilesAssumption DEF Files
  <2>2. CASE \E s \in Services : ServiceStep(s)
    BY <2>1, <2>2 DEF ServiceStep, Open, Load, Close
  <2>3. CASE \E t \in Tasks : TaskStep(t)
    <3>1. PICK t \in Tasks : TaskStep(t)
      BY <2>3
    <3>2. CASE Import(t) \/ Publish(t) \/ WriteObject(t) \/ WriteMapping(t)
      BY <2>1, <3>2 DEF Import, Publish, WriteObject, WriteMapping
    <3>3. CASE Kill(t)
      BY <2>1, <3>3 DEF Kill
    <3>4. CASE Find(t) \/ Leave(t) \/ Reuse(t) \/ Finish(t) \/ Orphan(t) \/ OrphanEnds(t)
      BY <2>1, <3>4 DEF Find, Leave, Reuse, Finish, Orphan, OrphanEnds
    <3>5. CASE \E s \in Services, n \in Mappings : Check(t, s, n) \/ Build(t, s, n) \/ Attach(t, s, n)
      BY <2>1, <3>5 DEF Enter, Check, Build, Attach
    <3>. QED
      BY <3>1, <3>2, <3>3, <3>4, <3>5 DEF TaskStep
  <2>4. CASE \E c \in Collectors : Tick(c) \/ Collect(c) \/ CollectorWork(c) \/ Abort(c)
    <3>1. PICK c \in Collectors : Tick(c) \/ Collect(c) \/ CollectorWork(c) \/ Abort(c)
      BY <2>4
    <3>2. PICK f \in Files : Delete(c, f)
      <4>1. CASE Tick(c) \/ Collect(c) \/ Abort(c)
        BY <4>1, <2>1 DEF Tick, Collect, Begin, Abort
      <4>2. CASE \E p \in Pools : Guard(c, p) \/ Busy(c, p)
        BY <4>2, <2>1 DEF Guard, Busy
      <4>3. CASE Plan(c) \/ Finished(c)
        BY <4>3, <2>1 DEF Plan, Finished
      <4>4. QED
        BY <3>1, <4>1, <4>2, <4>3 DEF CollectorWork
    <3>3. f = o /\ collector[c].doomed \subseteq Objects /\ f \in collector[c].doomed
      BY <3>2, <2>1 DEF Delete
    <3>4. collector[c].stage = "delete"
      BY <3>2 DEF Delete
    <3>5. m \in collector[c].doomed
      BY <3>3, <3>4, <2>1 DEF DoomedSafely
    <3>6. QED
      BY <3>3, <3>5, <2>1
  <2>5. CASE \E p \in Pools : RemovePool(p)
    BY <2>1, <2>5 DEF RemovePool
  <2>6. QED
    BY <2>2, <2>3, <2>4, <2>5 DEF Next
<1>2. QED
  BY <1>1, InductiveInvariant, PTL DEF Spec, MappedKeepsObjects

-----------------------------------------------------------------------------
(***************************************************************************)
(* The loop that plans an eviction.  Its stages are the plans that follow  *)
(* from a set of mappings evicted so far.                                  *)
(***************************************************************************)
\* The mappings that name an object once ms are evicted.
Naming(c, ms, o) == {m \in MappingsIn(collector[c].held) \ ms : o \in Refs[m]}

PlanOf(c, ms) ==
  [count |-> [o \in Objects |-> Cardinality(Naming(c, ms, o))],
   remove |-> ms \cup Unreferenced(c, ms),
   remaining |-> Remaining(c, ms)]

Retains(c, ms, m) == m \in collector[c].young \/ Within(c, Remaining(c, ms))

\* The objects that go with m when ms have been evicted.
Freed(c, ms, m) ==
  {o \in ObjectsIn(collector[c].held) \cap Refs[m] :
     Cardinality(Naming(c, ms, o)) = 1 /\ o \notin collector[c].young}

LEMMA NamingFinite ==
  ASSUME NEW c, NEW ms, NEW o
  PROVE  /\ IsFiniteSet(Naming(c, ms, o)) /\ Cardinality(Naming(c, ms, o)) \in Nat
         /\ Cardinality(Naming(c, ms, o)) = 0 <=> Naming(c, ms, o) = {}
         /\ Cardinality(Naming(c, ms, o)) = 1 <=> \E m : Naming(c, ms, o) = {m}
<1>1. Naming(c, ms, o) \in SUBSET Mappings
  BY DEF Naming, MappingsIn
<1>2. IsFiniteSet(Naming(c, ms, o))
  BY <1>1, FS_Subset
<1> HIDE DEF Naming
<1>. QED
  BY <1>2, FS_CardinalityType, FS_EmptySet, FS_Singleton

\* The references that are counted first are those of no eviction.
LEMMA LoopStarts ==
  ASSUME NEW c
  PROVE  StartPlan(c) = PlanOf(c, {})
<1>1. \A o : {m \in MappingsIn(collector[c].held) : o \in Refs[m]} = Naming(c, {}, o)
  BY DEF Naming
<1>2. References(c) = [o \in Objects |-> Cardinality(Naming(c, {}, o))]
  <2>1. ASSUME NEW o \in Objects
        PROVE  Cardinality({m \in MappingsIn(collector[c].held) : o \in Refs[m]})
                 = Cardinality(Naming(c, {}, o))
    <3> DEFINE named == {m \in MappingsIn(collector[c].held) : o \in Refs[m]}
    <3>1. named = Naming(c, {}, o)
      BY <1>1
    <3> HIDE DEF named
    <3>2. Cardinality(named) = Cardinality(Naming(c, {}, o))
      BY <3>1
    <3>. QED
      BY <3>2 DEF named
  <2>. QED
    BY <2>1 DEF References
<1>3. Orphans(c) = Unreferenced(c, {})
  <2>1. ASSUME NEW o \in ObjectsIn(collector[c].held)
        PROVE  References(c)[o] = 0 <=>
                 \A m \in MappingsIn(collector[c].held) \ {} : o \notin Refs[m]
    <3>1. o \in Objects
      BY DEF ObjectsIn
    <3>2. References(c)[o] = Cardinality(Naming(c, {}, o))
      BY <1>2, <3>1
    <3>3. References(c)[o] = 0 <=> Naming(c, {}, o) = {}
      BY <3>2, NamingFinite
    <3>. QED
      BY <3>3 DEF Naming
  <2>. QED
    BY <2>1 DEF Orphans, Unreferenced
<1>. QED
  BY <1>2, <1>3, Zenon DEF StartPlan, PlanOf, Remaining

\* The objects that m was the last to name are those that its eviction leaves
\* unreferenced.
LEMMA FreedBy ==
  ASSUME NEW c, NEW ms, NEW m \in MappingsIn(collector[c].held) \ ms
  PROVE  /\ Unreferenced(c, ms \cup {m}) = Unreferenced(c, ms) \cup Freed(c, ms, m)
         /\ Unreferenced(c, ms) \cap Freed(c, ms, m) = {}
<1>1. ASSUME NEW o, o \in Refs[m]
      PROVE  Cardinality(Naming(c, ms, o)) = 1 <=>
               \A n \in MappingsIn(collector[c].held) \ (ms \cup {m}) : o \notin Refs[n]
  <2>1. m \in Naming(c, ms, o)
    BY <1>1 DEF Naming
  <2>2. Cardinality(Naming(c, ms, o)) = 1 <=> Naming(c, ms, o) = {m}
    BY <2>1, NamingFinite
  <2>. QED
    BY <2>1, <2>2 DEF Naming
<1>. QED
  BY <1>1 DEF Unreferenced, Freed

\* One mapping: the plan for the mappings evicted so far becomes that for one more.
LEMMA LoopStep ==
  ASSUME TypeOK, NEW c \in Collectors, NEW ms,
         NEW m \in MappingsIn(collector[c].held) \ ms
  PROVE  EvictNext(c, PlanOf(c, ms), m) =
           IF Retains(c, ms, m) THEN PlanOf(c, ms) ELSE PlanOf(c, ms \cup {m})
<1>1. CASE Retains(c, ms, m)
  BY <1>1 DEF EvictNext, PlanOf, Retains
<1>2. CASE ~ Retains(c, ms, m)
  <2> DEFINE more == ms \cup {m}
             freed == Freed(c, ms, m)
             count == [o \in Objects |-> Cardinality(Naming(c, ms, o))
                                           - (IF o \in Refs[m] THEN 1 ELSE 0)]
  <2>1. freed = {o \in ObjectsIn(collector[c].held) \cap Refs[m] :
                   PlanOf(c, ms).count[o] = 1 /\ o \notin collector[c].young}
    BY DEF PlanOf, ObjectsIn, Freed
  <2>2. EvictNext(c, PlanOf(c, ms), m) =
          [count |-> count, remove |-> (ms \cup Unreferenced(c, ms)) \cup {m} \cup freed,
           remaining |-> Remaining(c, ms) - Cardinality(freed)]
    <3>1. PlanOf(c, ms).remaining = Remaining(c, ms)
          /\ PlanOf(c, ms).remove = ms \cup Unreferenced(c, ms)
      BY DEF PlanOf
    <3>2. count = [o \in Objects |-> PlanOf(c, ms).count[o] - (IF o \in Refs[m] THEN 1 ELSE 0)]
      BY DEF PlanOf
    <3>3. ~ (m \in collector[c].young \/ Within(c, PlanOf(c, ms).remaining))
      BY <1>2, <3>1 DEF Retains
    <3> HIDE DEF freed, count
    <3>. QED
      BY <2>1, <3>1, <3>2, <3>3, Zenon DEF EvictNext
  <2>3. /\ Unreferenced(c, more) = Unreferenced(c, ms) \cup freed
        /\ Unreferenced(c, ms) \cap freed = {}
    BY FreedBy
  <2>4. Remaining(c, more) = Remaining(c, ms) - Cardinality(freed)
    <3>1. Unreferenced(c, ms) \in SUBSET Objects /\ freed \in SUBSET Objects
      BY DEF Unreferenced, ObjectsIn, Freed
    <3> HIDE DEF freed, more
    <3>2. IsFiniteSet(Unreferenced(c, ms)) /\ IsFiniteSet(freed)
      BY <3>1, FS_Subset
    <3>3. Cardinality(Unreferenced(c, more)) =
            Cardinality(Unreferenced(c, ms)) + Cardinality(freed)
              - Cardinality(Unreferenced(c, ms) \cap freed)
      BY <2>3, <3>2, FS_Union
    <3>4. /\ Cardinality(Unreferenced(c, ms) \cap freed) = 0
          /\ Cardinality(Unreferenced(c, ms)) \in Nat /\ Cardinality(freed) \in Nat
          /\ Cardinality(Unreferenced(c, more)) \in Nat /\ Before(c) \in Nat
      BY <2>3, <3>2, FS_EmptySet, FS_CardinalityType, RemainingType, BeforeType
    <3>. QED
      BY <3>3, <3>4 DEF Remaining
  <2>5. count = [o \in Objects |-> Cardinality(Naming(c, more, o))]
    <3>1. ASSUME NEW o \in Objects
          PROVE  Cardinality(Naming(c, ms, o)) - (IF o \in Refs[m] THEN 1 ELSE 0)
                   = Cardinality(Naming(c, more, o))
      <4>1. Naming(c, more, o) = Naming(c, ms, o) \ {m}
        BY DEF Naming
      <4>2. m \in Naming(c, ms, o) <=> o \in Refs[m]
        BY DEF Naming
      <4>3. Cardinality(Naming(c, ms, o) \ {m}) =
              IF m \in Naming(c, ms, o) THEN Cardinality(Naming(c, ms, o)) - 1
              ELSE Cardinality(Naming(c, ms, o))
        BY NamingFinite, FS_RemoveElement
      <4> HIDE DEF more
      <4>. QED
        BY <4>1, <4>2, <4>3, NamingFinite
    <3>. QED
      BY <3>1
  <2>6. ms \cup Unreferenced(c, ms) \cup {m} \cup freed = more \cup Unreferenced(c, more)
    <3> HIDE DEF freed
    <3>. QED
      BY <2>3
  <2> HIDE DEF freed, count, more
  <2>7. EvictNext(c, PlanOf(c, ms), m) = PlanOf(c, more)
    BY <2>2, <2>4, <2>5, <2>6, Zenon DEF PlanOf
  <2>. QED
    BY <1>2, <2>7 DEF more
<1>. QED
  BY <1>1, <1>2

\* f is the recursion of Loop up to stage n.
IsPlanning(f, c, order, n) ==
  f = [k \in 0 .. n |-> IF k = 0 THEN StartPlan(c) ELSE EvictNext(c, f[k - 1], order[k])]

LEMMA PlanningExists ==
  ASSUME NEW c, NEW order, NEW n \in Nat
  PROVE  \E f : IsPlanning(f, c, order, n)
<1> DEFINE P == {k \in 0 .. n : \E f : IsPlanning(f, c, order, k)}
<1>1. 0 \in P
  <2>1. IsPlanning([k \in 0 .. 0 |-> StartPlan(c)], c, order, 0)
    BY DEF IsPlanning
  <2>. QED
    BY <2>1
<1>2. ASSUME NEW k \in 0 .. n, k < n, k \in P PROVE k + 1 \in P
  <2>1. PICK g : IsPlanning(g, c, order, k)
    BY <1>2
  <2> DEFINE f == [i \in 0 .. (k + 1) |-> IF i = k + 1 THEN EvictNext(c, g[k], order[k + 1])
                                          ELSE g[i]]
  <2>2. ASSUME NEW i \in 0 .. (k + 1)
        PROVE  f[i] = IF i = 0 THEN StartPlan(c) ELSE EvictNext(c, f[i - 1], order[i])
    <3>1. CASE i = k + 1
      <4>1. f[i] = EvictNext(c, g[k], order[i]) /\ f[i - 1] = g[k] /\ i # 0
        BY <1>2, <3>1
      <4> HIDE DEF f
      <4>. QED
        BY <4>1
    <3>2. CASE i # k + 1
      <4>1. i \in 0 .. k /\ (i # 0 => i - 1 \in 0 .. (k + 1) /\ i - 1 # k + 1)
        BY <1>2, <3>2
      <4>2. f[i] = g[i] /\ (i # 0 => f[i - 1] = g[i - 1])
        BY <3>2, <4>1
      <4>3. g[i] = IF i = 0 THEN StartPlan(c) ELSE EvictNext(c, g[i - 1], order[i])
        BY <2>1, <4>1 DEF IsPlanning
      <4> HIDE DEF f
      <4>. QED
        BY <4>2, <4>3
    <3>. QED
      BY <3>1, <3>2
  <2>3. f = [i \in 0 .. (k + 1) |-> f[i]]
    OBVIOUS
  <2> HIDE DEF f
  <2>4. IsPlanning(f, c, order, k + 1)
    BY <2>2, <2>3 DEF IsPlanning
  <2>. QED
    BY <1>2, <2>4
<1> HIDE DEF P
<1>3. n \in P
  BY <1>1, <1>2, StageInduction
<1>. QED
  BY <1>3 DEF P

\* An order of last use lists each mapping once.
LEMMA OrderLists ==
  ASSUME NEW S, IsFiniteSet(S), NEW order \in SetToSeqs(S)
  PROVE  /\ Cardinality(S) \in Nat /\ Len(order) = Cardinality(S)
         /\ order \in [1 .. Len(order) -> S]
         /\ \A i, j \in 1 .. Len(order) : order[i] = order[j] => i = j
         /\ \A m \in S : \E i \in 1 .. Len(order) : order[i] = m
<1> DEFINE n == Cardinality(S)
<1>1. n \in Nat
  BY FS_CardinalityType
<1>2. order \in [1 .. n -> S] /\ \A i, j \in 1 .. n : i # j => order[i] # order[j]
  BY DEF SetToSeqs
<1>3. order \in Injection(1 .. n, S)
  BY <1>2 DEF Injection, IsInjective
<1>4. Cardinality(1 .. n) = n
  <2>1. 1 \in Int /\ n \in Int /\ (1 > n => n = 0) /\ n - 1 + 1 = n
    BY <1>1
  <2>. QED
    BY <2>1, FS_Interval
<1>5. order \in Surjection(1 .. n, S)
  BY <1>3, <1>4, FS_Injection
<1>6. Len(order) = n
  BY <1>1, <1>2
<1>. QED
  BY <1>1, <1>2, <1>5, <1>6 DEF Surjection

\* The plan of the loop, and the stages that lead to it.
LEMMA LoopStages ==
  ASSUME NEW c, NEW order, Len(order) \in Nat
  PROVE  \E f : /\ Loop(c, order) = f[Len(order)]
                /\ f[0] = StartPlan(c)
                /\ \A k \in 0 .. Len(order) :
                     k < Len(order) => f[k + 1] = EvictNext(c, f[k], order[k + 1])
<1> DEFINE n == Len(order)
           f == CHOOSE g : IsPlanning(g, c, order, n)
<1>1. Loop(c, order) = f[n]
  BY DEF Loop, IsPlanning
<1>2. IsPlanning(f, c, order, n)
  BY PlanningExists
<1> HIDE DEF f
<1>3. \A k \in 0 .. n : f[k] = IF k = 0 THEN StartPlan(c) ELSE EvictNext(c, f[k - 1], order[k])
  BY <1>2 DEF IsPlanning
<1>4. f[0] = StartPlan(c)
  BY <1>3
<1>5. ASSUME NEW k \in 0 .. n, k < n
      PROVE  f[k + 1] = EvictNext(c, f[k], order[k + 1])
  <2>1. k + 1 \in 0 .. n /\ k + 1 # 0 /\ k + 1 - 1 = k
    BY <1>5
  <2>. QED
    BY <1>3, <2>1
<1>. QED
  BY <1>1, <1>4, <1>5

\* The more mappings go, the less remains.
LEMMA FewerRemain ==
  ASSUME TypeOK, NEW c \in Collectors, NEW ns, NEW ms \in SUBSET ns,
         Within(c, Remaining(c, ms))
  PROVE  Within(c, Remaining(c, ns))
<1>1. Unreferenced(c, ms) \subseteq Unreferenced(c, ns)
  BY DEF Unreferenced
<1>2. Unreferenced(c, ns) \in SUBSET Objects
  BY DEF Unreferenced, ObjectsIn
<1>3. IsFiniteSet(Unreferenced(c, ns))
  BY <1>2, FS_Subset
<1>4. Cardinality(Unreferenced(c, ms)) <= Cardinality(Unreferenced(c, ns))
  BY <1>1, <1>3, FS_Subset
<1>5. /\ Cardinality(Unreferenced(c, ms)) \in Nat /\ Cardinality(Unreferenced(c, ns)) \in Nat
      /\ Before(c) \in Nat
  BY RemainingType, BeforeType
<1>6. collector[c].limit \in Nat \cup {NoLimit}
  BY DEF TypeOK
<1>7. Remaining(c, ns) <= Remaining(c, ms)
      /\ Remaining(c, ns) \in Int /\ Remaining(c, ms) \in Int
  BY <1>4, <1>5 DEF Remaining
<1>. QED
  BY <1>6, <1>7 DEF Within

First(order, k) == {order[i] : i \in 1 .. k}

LEMMA FirstGrows ==
  ASSUME NEW order, NEW k \in Nat
  PROVE  First(order, 0) = {} /\ First(order, k + 1) = First(order, k) \cup {order[k + 1]}
<1>1. 1 .. 0 = {} /\ 1 .. (k + 1) = (1 .. k) \cup {k + 1}
  OBVIOUS
<1>. QED
  BY <1>1 DEF First

\* ms are those that the loop has evicted of the first k: as many as may go,
\* or enough; and it was not enough without the one that went last.
EvictedOf(c, order, k, ms) ==
  /\ ms \subseteq Evictable(c) \cap First(order, k)
  /\ Evictable(c) \cap First(order, k) \subseteq ms \/ Within(c, Remaining(c, ms))
  /\ ms # {} => \E m \in ms : ~ Within(c, Remaining(c, ms \ {m}))

LEMMA MappingsFinite ==
  ASSUME NEW c
  PROVE  IsFiniteSet(MappingsIn(collector[c].held))
<1>1. MappingsIn(collector[c].held) \in SUBSET Mappings
  BY DEF MappingsIn
<1>. QED
  BY <1>1, FS_Subset

LEMMA EvictedStep ==
  ASSUME TypeOK, NEW c \in Collectors, NEW order \in SetToSeqs(MappingsIn(collector[c].held)),
         NEW k \in 0 .. Len(order), k < Len(order), NEW ms, EvictedOf(c, order, k, ms)
  PROVE  \E more : /\ EvictedOf(c, order, k + 1, more)
                   /\ EvictNext(c, PlanOf(c, ms), order[k + 1]) = PlanOf(c, more)
<1> DEFINE m == order[k + 1]
           more == ms \cup {m}
<1>1. /\ k + 1 \in 1 .. Len(order) /\ k \in Nat /\ Len(order) \in Nat
      /\ order \in [1 .. Len(order) -> MappingsIn(collector[c].held)]
      /\ \A i, j \in 1 .. Len(order) : order[i] = order[j] => i = j
  <2>1. /\ Len(order) \in Nat
        /\ order \in [1 .. Len(order) -> MappingsIn(collector[c].held)]
        /\ \A i, j \in 1 .. Len(order) : order[i] = order[j] => i = j
    BY MappingsFinite, OrderLists
  <2>. QED
    BY <2>1
<1>2. m \in MappingsIn(collector[c].held)
  BY <1>1
<1>3. m \notin First(order, k)
  <2> SUFFICES ASSUME NEW i \in 1 .. k, order[i] = m PROVE FALSE
    BY DEF First
  <2>1. i \in 1 .. Len(order) /\ i # k + 1
    BY <1>1
  <2>. QED
    BY <1>1, <2>1
<1>4. First(order, k + 1) = First(order, k) \cup {m}
  BY <1>1, FirstGrows
<1>5. m \notin ms
  BY <1>3 DEF EvictedOf
<1> HIDE DEF m
<1>6. EvictNext(c, PlanOf(c, ms), m) =
        IF Retains(c, ms, m) THEN PlanOf(c, ms) ELSE PlanOf(c, more)
  BY <1>2, <1>5, LoopStep
<1>7. CASE Retains(c, ms, m)
  <2>1. EvictedOf(c, order, k + 1, ms)
    BY <1>4, <1>7 DEF EvictedOf, Retains, Evictable
  <2>. QED
    BY <1>6, <1>7, <2>1 DEF m
<1>8. CASE ~ Retains(c, ms, m)
  <2>1. m \in Evictable(c) /\ ~ Within(c, Remaining(c, ms))
    BY <1>2, <1>8 DEF Retains, Evictable
  <2>2. more \ {m} = ms
    BY <1>5
  <2>3. EvictedOf(c, order, k + 1, more)
    <3>1. more \subseteq Evictable(c) \cap First(order, k + 1)
      BY <1>4, <2>1 DEF EvictedOf
    <3>2. Evictable(c) \cap First(order, k + 1) \subseteq more
      BY <1>4, <2>1 DEF EvictedOf
    <3>3. ~ Within(c, Remaining(c, more \ {m})) /\ m \in more
      BY <2>1, <2>2
    <3>. QED
      BY <3>1, <3>2, <3>3 DEF EvictedOf
  <2>. QED
    BY <1>6, <1>8, <2>3 DEF m
<1>. QED
  BY <1>7, <1>8

\* Whatever the order, the loop plans an eviction.
LEMMA LoopPlansOne ==
  ASSUME TypeOK, NEW c \in Collectors, NEW order \in SetToSeqs(MappingsIn(collector[c].held))
  PROVE  \E ms \in Evictions(c) : Loop(c, order) = PlanOf(c, ms)
<1> DEFINE n == Len(order)
<1>1. /\ n \in Nat /\ order \in [1 .. n -> MappingsIn(collector[c].held)]
      /\ \A m \in MappingsIn(collector[c].held) : \E i \in 1 .. n : order[i] = m
  BY MappingsFinite, OrderLists
<1>2. PICK f : /\ Loop(c, order) = f[n]
               /\ f[0] = StartPlan(c)
               /\ \A k \in 0 .. n : k < n => f[k + 1] = EvictNext(c, f[k], order[k + 1])
  BY <1>1, LoopStages
<1> DEFINE P == {k \in 0 .. n : \E ms : EvictedOf(c, order, k, ms) /\ f[k] = PlanOf(c, ms)}
<1>3. 0 \in P
  <2>1. EvictedOf(c, order, 0, {})
    BY FirstGrows DEF EvictedOf
  <2>. QED
    BY <1>1, <1>2, <2>1, LoopStarts
<1>4. ASSUME NEW k \in 0 .. n, k < n, k \in P PROVE k + 1 \in P
  <2>1. PICK ms : EvictedOf(c, order, k, ms) /\ f[k] = PlanOf(c, ms)
    BY <1>4
  <2>2. PICK more : /\ EvictedOf(c, order, k + 1, more)
                    /\ EvictNext(c, PlanOf(c, ms), order[k + 1]) = PlanOf(c, more)
    BY <1>4, <2>1, EvictedStep
  <2>3. f[k + 1] = PlanOf(c, more) /\ k + 1 \in 0 .. n
    BY <1>1, <1>2, <1>4, <2>1, <2>2
  <2>. QED
    BY <2>2, <2>3
<1> HIDE DEF P
<1>5. n \in P
  <2>1. \A k \in 0 .. n : k \in P
    BY <1>1, <1>3, <1>4, StageInduction
  <2>. QED
    BY <1>1, <2>1
<1>6. PICK ms : EvictedOf(c, order, n, ms) /\ f[n] = PlanOf(c, ms)
  BY <1>5 DEF P
<1>7. First(order, n) = MappingsIn(collector[c].held)
  BY <1>1 DEF First
<1>8. ms \in Evictions(c)
  BY <1>6, <1>7 DEF EvictedOf, Evictions, Evictable
<1>. QED
  BY <1>2, <1>6, <1>8

\* The order has ms in front, and last at their end.
InFront(order, ms, last) ==
  \E a \in 1 .. Len(order) :
    /\ order[a] = last
    /\ \A i \in 1 .. Len(order) : order[i] \in ms <=> i <= a

LEMMA OrderFor ==
  ASSUME NEW S, IsFiniteSet(S), NEW ms \in SUBSET S, NEW last \in ms
  PROVE  \E order \in SetToSeqs(S) : InFront(order, ms, last)
<1> DEFINE A == ms \ {last}
           B == S \ ms
           a == Cardinality(A)
           b == Cardinality(B)
<1>1. IsFiniteSet(A) /\ IsFiniteSet(B) /\ A \in SUBSET S /\ B \in SUBSET S
  BY FS_Subset
<1>2. a \in Nat /\ b \in Nat /\ ExistsBijection(1 .. a, A) /\ ExistsBijection(1 .. b, B)
  BY <1>1, FS_CardinalityType
<1>3. PICK f : f \in Bijection(1 .. a, A)
  BY <1>2 DEF ExistsBijection
<1>4. PICK g : g \in Bijection(1 .. b, B)
  BY <1>2 DEF ExistsBijection
<1>5. Cardinality(S) = a + 1 + b
  <2>1. Cardinality(A \cup {last}) = a + 1 /\ IsFiniteSet(A \cup {last})
    BY <1>1, FS_AddElement
  <2>2. A \cup {last} = ms /\ ms \cup B = S /\ ms \cap B = {}
    OBVIOUS
  <2>3. Cardinality(ms) = a + 1 /\ IsFiniteSet(ms)
    BY <2>1, <2>2
  <2>4. Cardinality(ms \cup B) = Cardinality(ms) + b - Cardinality(ms \cap B)
    BY <1>1, <2>3, FS_Union
  <2>5. Cardinality(ms \cap B) = 0
    BY <2>2, FS_EmptySet
  <2>6. Cardinality(S) = Cardinality(ms \cup B)
    BY <2>2
  <2> HIDE DEF A, B, a, b
  <2>. QED
    BY <1>2, <2>3, <2>4, <2>5, <2>6
<1>6. /\ \A i \in 1 .. a : f[i] \in A
      /\ \A i, j \in 1 .. a : f[i] = f[j] => i = j
      /\ \A i \in 1 .. b : g[i] \in B
      /\ \A i, j \in 1 .. b : g[i] = g[j] => i = j
  BY <1>3, <1>4 DEF Bijection, Injection, IsInjective
<1> HIDE DEF A, B, a, b
<1> DEFINE n == a + 1 + b
           order == [i \in 1 .. n |-> IF i <= a THEN f[i]
                                      ELSE IF i = a + 1 THEN last ELSE g[i - a - 1]]
<1>7. ASSUME NEW i \in 1 .. n
      PROVE  /\ i <= a => i \in 1 .. a /\ order[i] = f[i] /\ order[i] \in A
             /\ i = a + 1 => order[i] = last
             /\ i > a + 1 => /\ i - a - 1 \in 1 .. b /\ order[i] = g[i - a - 1]
                             /\ order[i] \in B
  BY <1>2, <1>6
<1>8. \A x \in A : x \in ms /\ x # last
  BY DEF A
<1>9. \A x \in B : x \notin ms
  BY DEF B
<1>10. order \in [1 .. n -> S]
  <2>1. ASSUME NEW i \in 1 .. n PROVE order[i] \in S
    <3>1. i <= a \/ i = a + 1 \/ i > a + 1
      BY <1>2
    <3>2. order[i] \in A \/ order[i] = last \/ order[i] \in B
      BY <1>7, <3>1
    <3> HIDE DEF order
    <3>. QED
      BY <1>1, <3>2
  <2>2. order = [i \in 1 .. n |-> order[i]]
    OBVIOUS
  <2> HIDE DEF order, n
  <2>. QED
    BY <2>1, <2>2
<1>11. ASSUME NEW i \in 1 .. n, NEW j \in 1 .. n, order[i] = order[j] PROVE i = j
  <2>1. CASE i <= a
    BY <1>2, <1>6, <1>7, <1>8, <1>9, <1>11, <2>1
  <2>2. CASE i = a + 1
    BY <1>2, <1>6, <1>7, <1>8, <1>9, <1>11, <2>2
  <2>3. CASE i > a + 1
    BY <1>2, <1>6, <1>7, <1>8, <1>9, <1>11, <2>3
  <2>. QED
    BY <1>2, <2>1, <2>2, <2>3
<1>12. ASSUME NEW i \in 1 .. n PROVE order[i] \in ms <=> i <= a + 1
  BY <1>2, <1>7, <1>8, <1>9
<1>13. a + 1 \in 1 .. n /\ order[a + 1] = last /\ n \in Nat
  BY <1>2
<1>14. Len(order) = n
  BY <1>13
<1> HIDE DEF order
<1>15. order \in SetToSeqs(S)
  BY <1>5, <1>10, <1>11 DEF SetToSeqs
<1>. QED
  BY <1>12, <1>13, <1>14, <1>15 DEF InFront

\* Each eviction that may be planned is, in some order.
LEMMA LoopPlansEach ==
  ASSUME TypeOK, NEW c \in Collectors, NEW ms \in Evictions(c)
  PROVE  \E order \in SetToSeqs(MappingsIn(collector[c].held)) : Loop(c, order) = PlanOf(c, ms)
<1> DEFINE M == MappingsIn(collector[c].held)
<1>1. IsFiniteSet(M)
  BY MappingsFinite
<1>2. ms \in SUBSET Evictable(c) /\ ms \in SUBSET M
  BY DEF Evictions, Evictable
<1>3. CASE ms = {}
  <2>1. PICK order : order \in SetToSeqs(M)
    <3>1. PICK f : f \in Bijection(1 .. Cardinality(M), M)
      BY <1>1, FS_CardinalityType DEF ExistsBijection
    <3>. QED
      BY <3>1 DEF SetToSeqs, Bijection, Injection, IsInjective
  <2>2. PICK ns \in Evictions(c) : Loop(c, order) = PlanOf(c, ns)
    BY <2>1, LoopPlansOne
  <2>3. CASE ms = Evictable(c)
    BY <1>3, <2>1, <2>2, <2>3 DEF Evictions
  <2>4. CASE Within(c, Remaining(c, ms))
    <3>1. \A m : Within(c, Remaining(c, ns \ {m}))
      BY <1>3, <2>4, FewerRemain
    <3>2. ns = {}
      BY <3>1 DEF Evictions
    <3>. QED
      BY <1>3, <2>1, <2>2, <3>2
  <2>. QED
    BY <2>3, <2>4 DEF Evictions
<1>4. CASE ms # {}
  <2>1. PICK last \in ms : ~ Within(c, Remaining(c, ms \ {last}))
    BY <1>4 DEF Evictions
  <2> HIDE DEF M
  <2>2. PICK order \in SetToSeqs(M) : InFront(order, ms, last)
    BY <1>1, <1>2, OrderFor
  <2> DEFINE n == Len(order)
  <2>3. PICK a \in 1 .. n : order[a] = last /\ \A i \in 1 .. n : order[i] \in ms <=> i <= a
    BY <2>2 DEF InFront
  <2>4. /\ n \in Nat /\ order \in [1 .. n -> M]
        /\ \A i, j \in 1 .. n : order[i] = order[j] => i = j
        /\ \A m \in M : \E i \in 1 .. n : order[i] = m
    BY <1>1, OrderLists
  <2>5. PICK f : /\ Loop(c, order) = f[n]
                 /\ f[0] = StartPlan(c)
                 /\ \A k \in 0 .. n : k < n => f[k + 1] = EvictNext(c, f[k], order[k + 1])
    BY <2>4, LoopStages
  <2> DEFINE P == {k \in 0 .. n : f[k] = PlanOf(c, ms \cap First(order, k))}
  <2>6. 0 \in P
    <3>1. ms \cap First(order, 0) = {}
      BY FirstGrows
    <3>2. f[0] = PlanOf(c, ms \cap First(order, 0))
      BY <2>5, <3>1, LoopStarts, Zenon
    <3>. QED
      BY <2>4, <3>2
  <2>7. ASSUME NEW k \in 0 .. n, k < n, k \in P PROVE k + 1 \in P
    <3> DEFINE m == order[k + 1]
               some == ms \cap First(order, k)
    <3>1. k + 1 \in 1 .. n /\ k + 1 \in 0 .. n /\ k \in Nat
      BY <2>4, <2>7
    <3>2. m \in M /\ f[k + 1] = EvictNext(c, f[k], m) /\ f[k] = PlanOf(c, some)
      BY <2>4, <2>5, <2>7, <3>1
    <3>3. m \notin First(order, k)
      <4> SUFFICES ASSUME NEW i \in 1 .. k, order[i] = m PROVE FALSE
        BY DEF First
      <4>1. i \in 1 .. n /\ i # k + 1
        BY <2>4, <2>7
      <4>. QED
        BY <2>4, <3>1, <4>1
    <3>4. First(order, k + 1) = First(order, k) \cup {m}
      BY <3>1, FirstGrows
    <3>5. m \in ms <=> k + 1 <= a
      BY <2>3, <3>1
    <3> HIDE DEF m
    <3>6. f[k + 1] = IF Retains(c, some, m) THEN PlanOf(c, some) ELSE PlanOf(c, some \cup {m})
      <4>1. m \in MappingsIn(collector[c].held) \ some
        BY <3>2, <3>3 DEF M
      <4> HIDE DEF some
      <4>. QED
        BY <3>2, <4>1, LoopStep
    <3>7. CASE m \in ms
      <4>1. last \notin some
        <5> SUFFICES ASSUME NEW i \in 1 .. k, order[i] = last PROVE FALSE
          BY DEF First
        <5>1. i \in 1 .. n /\ i # a
          BY <2>3, <2>4, <3>1, <3>5, <3>7
        <5>. QED
          BY <2>3, <2>4, <5>1
      <4>2. some \in SUBSET (ms \ {last})
        BY <4>1
      <4>3. ~ Within(c, Remaining(c, some))
        BY <2>1, <4>2, FewerRemain
      <4>4. ~ Retains(c, some, m)
        BY <1>2, <3>7, <4>3 DEF Retains, Evictable
      <4>5. ms \cap First(order, k + 1) = some \cup {m}
        BY <3>4, <3>7
      <4> HIDE DEF some
      <4>. QED
        BY <3>1, <3>6, <4>4, <4>5
    <3>8. CASE m \notin ms
      <4>1. some = ms
        <5> SUFFICES ASSUME NEW x \in ms PROVE x \in First(order, k)
          OBVIOUS
        <5>1. PICK i \in 1 .. n : order[i] = x
          BY <1>2, <2>4 DEF M
        <5>2. i <= a /\ ~ k + 1 <= a
          BY <2>3, <3>5, <3>8, <5>1
        <5>3. i \in 1 .. k
          BY <2>4, <3>1, <5>2
        <5>. QED
          BY <5>1, <5>3 DEF First
      <4>2. Retains(c, ms, m)
        <5>1. CASE m \in collector[c].young
          BY <5>1 DEF Retains
        <5>2. CASE m \notin collector[c].young
          <6>1. m \in Evictable(c)
            BY <3>2, <5>2 DEF Evictable, M
          <6>2. Within(c, Remaining(c, ms))
            BY <3>8, <6>1 DEF Evictions
          <6>. QED
            BY <6>2 DEF Retains
        <5>. QED
          BY <5>1, <5>2
      <4>3. ms \cap First(order, k + 1) = some
        BY <3>4, <3>8
      <4> HIDE DEF some
      <4>. QED
        BY <3>1, <3>6, <4>1, <4>2, <4>3
    <3>. QED
      BY <3>7, <3>8
  <2> HIDE DEF P
  <2>8. \A k \in 0 .. n : k \in P
    BY <2>4, <2>6, <2>7, StageInduction
  <2>9. f[n] = PlanOf(c, ms \cap First(order, n))
    BY <2>4, <2>8 DEF P
  <2>10. ms \cap First(order, n) = ms
    BY <1>2, <2>4 DEF First, M
  <2>. QED
    BY <2>5, <2>9, <2>10 DEF M
<1>. QED
  BY <1>3, <1>4

\* What goes of the objects is what is left unreferenced.
LEMMA PlanCounts ==
  ASSUME TypeOK, NEW c \in Collectors, NEW ms \in SUBSET Mappings
  PROVE  PlanOf(c, ms).remaining =
           Before(c) - Cardinality(PlanOf(c, ms).remove \cap Objects)
<1>1. (ms \cup Unreferenced(c, ms)) \cap Objects = Unreferenced(c, ms)
  BY DEF Unreferenced, ObjectsIn
<1>. QED
  BY <1>1 DEF PlanOf, Remaining

\* The loop of collect_pools, which counts references, plans exactly the
\* evictions from which CacheGC chooses, and counts what they leave.
THEOREM LoopIsPlan == Spec => []LoopPlansEvictions
<1>1. ASSUME TypeOK PROVE LoopPlansEvictions
  <2> USE <1>1
  <2> SUFFICES ASSUME NEW c \in Collectors
               PROVE  LET orders == SetToSeqs(MappingsIn(collector[c].held))
                      IN  /\ {Loop(c, order).remove : order \in orders} =
                               {ms \cup Unreferenced(c, ms) : ms \in Evictions(c)}
                          /\ \A order \in orders :
                               Loop(c, order).remaining =
                                 Before(c) - Cardinality(Loop(c, order).remove \cap Objects)
    BY DEF LoopPlansEvictions
  <2> DEFINE orders == SetToSeqs(MappingsIn(collector[c].held))
  <2>1. ASSUME NEW order \in orders
        PROVE  \E ms \in Evictions(c) : Loop(c, order) = PlanOf(c, ms)
    BY LoopPlansOne
  <2>2. ASSUME NEW ms \in Evictions(c)
        PROVE  \E order \in orders : Loop(c, order) = PlanOf(c, ms)
    BY LoopPlansEach
  <2>3. ASSUME NEW ms \in Evictions(c)
        PROVE  PlanOf(c, ms).remove = ms \cup Unreferenced(c, ms)
    BY DEF PlanOf
  <2>4. ASSUME NEW ms \in Evictions(c)
        PROVE  PlanOf(c, ms).remaining =
                 Before(c) - Cardinality(PlanOf(c, ms).remove \cap Objects)
    <3>1. ms \in SUBSET Mappings
      BY DEF Evictions, Evictable, MappingsIn
    <3>. QED
      BY <3>1, PlanCounts
  <2> HIDE DEF orders
  <2>5. {Loop(c, order).remove : order \in orders} =
          {ms \cup Unreferenced(c, ms) : ms \in Evictions(c)}
    <3>1. ASSUME NEW order \in orders
          PROVE  Loop(c, order).remove \in {ms \cup Unreferenced(c, ms) : ms \in Evictions(c)}
      <4>1. PICK ms \in Evictions(c) : Loop(c, order) = PlanOf(c, ms)
        BY <2>1
      <4>2. Loop(c, order).remove = ms \cup Unreferenced(c, ms)
        BY <2>3, <4>1, Zenon
      <4>. QED
        BY <4>2
    <3>2. ASSUME NEW ms \in Evictions(c)
          PROVE  ms \cup Unreferenced(c, ms) \in {Loop(c, order).remove : order \in orders}
      <4>1. PICK order \in orders : Loop(c, order) = PlanOf(c, ms)
        BY <2>2
      <4>2. Loop(c, order).remove = ms \cup Unreferenced(c, ms)
        BY <2>3, <4>1, Zenon
      <4>. QED
        BY <4>2
    <3> DEFINE planned == {Loop(c, order).remove : order \in orders}
               allowed == {ms \cup Unreferenced(c, ms) : ms \in Evictions(c)}
    <3>3. planned \subseteq allowed
      BY <3>1
    <3>4. allowed \subseteq planned
      BY <3>2
    <3> HIDE DEF planned, allowed
    <3>5. planned = allowed
      BY <3>3, <3>4
    <3>. QED
      BY <3>5 DEF planned, allowed
  <2>6. ASSUME NEW order \in orders
        PROVE  Loop(c, order).remaining =
                 Before(c) - Cardinality(Loop(c, order).remove \cap Objects)
    BY <2>1, <2>4
  <2>. QED
    BY <2>5, <2>6 DEF orders
<1>2. Inductive => TypeOK
  BY DEF Inductive
<1>. QED
  BY <1>1, <1>2, InductiveInvariant, PTL
=============================================================================
