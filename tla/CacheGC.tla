------------------------------ MODULE CacheGC ------------------------------
(***************************************************************************)
(* The shared Lean cache of each database (lean/cache.rs) and its garbage  *)
(* collection (lean/gc.rs).  A pool holds Lake's immutable objects, the    *)
(* mappings from a compiler input to the objects it produced, and proof    *)
(* certificates.  Services, native Lake processes and collectors share a   *)
(* pool through three file locks: live (who needs the pool to exist),      *)
(* access (who is using its objects) and lease (collectors among           *)
(* themselves, and deletions of the database).  Any process may end, and   *)
(* its locks with it, between two steps.                                   *)
(***************************************************************************)
EXTENDS Naturals, FiniteSets

CONSTANTS
  Pools,         \* the pools under one cache root, one per database
  Objects,       \* artifact files, each of one unit of size
  Mappings,      \* Lake's output mappings, a file per compiler input
  Certificates,  \* proof records
  Home,          \* the pool of each file
  Refs,          \* the objects each mapping names
  Services,
  Branch,        \* the pool of each service's database
  Tasks,         \* checks of a service, native Lake processes and imports
  Legacy,        \* mappings of private caches that older versions left behind
  Automatic,     \* the collectors of entry servers
  Manual,        \* runs of "mdc cache gc"
  Budget,        \* cache_max_bytes
  Limits,        \* values of --max-bytes, NoLimit where it is not given
  NoLimit,
  MaxKills,      \* bound: native processes that are killed or fail, or NoLimit
  MaxAborts      \* bound: collections that end early, or NoLimit

Collectors == Automatic \cup Manual
Files == Objects \cup Mappings \cup Certificates

ASSUME FilesAssumption ==
  /\ Objects \cap Mappings = {} /\ Objects \cap Certificates = {}
  /\ Mappings \cap Certificates = {}
  /\ Home \in [Files -> Pools]
  /\ Refs \in [Mappings -> SUBSET Objects]
  /\ \A m \in Mappings : \A o \in Refs[m] : Home[o] = Home[m]
  /\ Branch \in [Services -> Pools]
  /\ Legacy \subseteq Mappings
ASSUME BudgetAssumption ==
  /\ Budget \in Nat \ {0}
  /\ NoLimit \notin Nat /\ Limits \subseteq Nat \cup {NoLimit}
  /\ {MaxKills, MaxAborts} \subseteq Nat \cup {NoLimit}
  /\ IsFiniteSet(Objects) /\ IsFiniteSet(Mappings)
ASSUME ActorsAssumption == Automatic \cap Manual = {}

VARIABLES
  files,      \* the files that exist
  torn,       \* mappings whose content is incomplete
  pending,    \* pools with a gc.pending marker
  service,    \* whether each is open, and the certificates it has loaded
  task,       \* what each task is, and the objects it relies on
  collector,  \* the stage of each collection, what it holds and plans
  kills,
  aborts

vars == <<files, torn, pending, service, task, collector, kills, aborts>>

NoTask == [kind |-> "out", owner |-> {}, mapping |-> {}, relies |-> {}]
NoCollection ==
  [stage |-> "out", todo |-> {}, held |-> {}, protected |-> 0,
   limit |-> NoLimit, certificates |-> FALSE, young |-> {}, doomed |-> {}]

Init ==
  /\ files = {} /\ torn = {} /\ pending = {}
  /\ service = [s \in Services |-> [open |-> FALSE, known |-> {}]]
  /\ task = [t \in Tasks |-> NoTask]
  /\ collector = [c \in Collectors |-> NoCollection]
  /\ kills = 0 /\ aborts = 0

\* Failures are counted where their number is bounded.
MayFail(count, most) == most # NoLimit => count < most
Failed(count, most) == IF most = NoLimit THEN count ELSE count + 1

(***************************************************************************)
(* Locks.                                                                  *)
(***************************************************************************)

At(p, fs) == {f \in fs : Home[f] = p}

PoolOf(t) == Home[CHOOSE m \in task[t].mapping : TRUE]

\* Mutant: the native child does not inherit the access lease of its wrapper.
UsingUnlessOrphaned(p) ==
  {t \in Tasks : task[t].kind \notin {"out", "orphan"} /\ PoolOf(t) = p}

\* Shared holders of access.lock: checks, imports, Lake wrappers and, once a
\* wrapper has died, the native child that inherited its descriptor.
Using(p) == {t \in Tasks : task[t].kind # "out" /\ PoolOf(t) = p}

\* Shared holders of live.lock other than collectors.
Living(p) ==
  \/ \E s \in Services : service[s].open /\ Branch[s] = p
  \/ \E t \in Using(p) : task[t].kind # "check"

\* A collector of p holds lease.lock and access.lock exclusively.
Guards(p) == {c \in Collectors : p \in collector[c].held}

\* Mutant: certificates are collected under a shared live lease.
GuardAmongLiving(c, p) == Guards(p) = {} /\ Using(p) = {}

CanGuard(c, p) ==
  /\ Guards(p) = {}
  /\ Using(p) = {}
  /\ collector[c].certificates => ~Living(p)

(***************************************************************************)
(* Services.                                                               *)
(***************************************************************************)

\* Pool::open: the live lease of a branch service.
Open(s) ==
  /\ ~service[s].open
  /\ \A c \in Guards(Branch[s]) : ~collector[c].certificates
  /\ service' = [service EXCEPT ![s].open = TRUE]
  /\ UNCHANGED <<files, torn, pending, task, collector, kills, aborts>>

\* Certificates are loaded into memory when they are first needed.
Load(s) ==
  /\ service[s].open
  /\ service' = [service EXCEPT
       ![s].known = @ \cup At(Branch[s], files \cap Certificates)]
  /\ UNCHANGED <<files, torn, pending, task, collector, kills, aborts>>

\* A service ends, by a stop or a crash, and the checks inside it end with
\* it; native processes and blocking imports have leases of their own.
Close(s) ==
  /\ service[s].open
  /\ service' = [service EXCEPT ![s] = [open |-> FALSE, known |-> {}]]
  /\ task' = [t \in Tasks |->
       IF task[t].owner = {s} THEN NoTask ELSE task[t]]
  /\ UNCHANGED <<files, torn, pending, collector, kills, aborts>>

(***************************************************************************)
(* Checks, imports and native Lake processes.  All poll for the shared     *)
(* access lease, so a task that waits is a task that has not begun.        *)
(***************************************************************************)

Enter(t, kind, s, m) ==
  /\ task[t].kind = "out"
  /\ service[s].open /\ Branch[s] = Home[m]
  /\ Guards(Home[m]) = {}
  /\ task' = [task EXCEPT ![t] =
       [kind |-> kind, owner |-> IF kind = "check" THEN {s} ELSE {},
        mapping |-> {m}, relies |-> {}]]
  /\ UNCHANGED <<files, torn, pending, service, collector, kills, aborts>>

Check(t, s, m) == Enter(t, "check", s, m)
Build(t, s, m) == Enter(t, "lake", s, m)
Attach(t, s, m) == m \in Legacy /\ Enter(t, "attach", s, m)

\* A collection that has fixed its cutoff takes what is written later as young.
Aging(new) ==
  collector' = [c \in Collectors |->
    IF collector[c].stage = "lock"
    THEN [collector[c] EXCEPT !.young = @ \cup new] ELSE collector[c]]

\* Pool::attach links the files of a private cache, in the order of the
\* directory, with the times they have, or copies them, which makes them new;
\* a file that is there is kept.
Import(t) ==
  /\ task[t].kind = "attach"
  /\ \E m \in task[t].mapping : \E f \in ({m} \cup Refs[m]) \ files :
       /\ files' = files \cup {f}
       /\ UNCHANGED collector \/ Aging({f})
  /\ UNCHANGED <<torn, pending, service, task, kills, aborts>>

\* A check finds all objects of a result: it may answer "built".
Find(t) ==
  /\ task[t].kind = "check"
  /\ \E m \in task[t].mapping :
       /\ Refs[m] \subseteq files
       /\ task' = [task EXCEPT ![t].relies = Refs[m]]
  /\ UNCHANGED <<files, torn, pending, service, collector, kills, aborts>>

\* Certificates::publish, under a live lease of its own.
Publish(t) ==
  /\ task[t].kind = "check"
  /\ \E s \in task[t].owner, f \in At(PoolOf(t), Certificates) :
       /\ files' = files \cup {f}
       /\ service' = [service EXCEPT ![s].known = @ \cup {f}]
       /\ Aging({f})
  /\ UNCHANGED <<torn, pending, task, kills, aborts>>

\* Lake uses a mapping only if it can read it and finds what it names.
Missing(m) == m \notin files \ torn \/ ~(Refs[m] \subseteq files)

Reuse(t) ==
  /\ task[t].kind \in {"lake", "orphan"}
  /\ \E m \in task[t].mapping :
       /\ ~Missing(m)
       /\ task' = [task EXCEPT ![t].relies = Refs[m]]
  /\ UNCHANGED <<files, torn, pending, service, collector, kills, aborts>>

\* Lake compiles and stores the objects one by one, those that exist by
\* content included, and then the mapping.
WriteObject(t) ==
  /\ task[t].kind \in {"lake", "orphan"}
  /\ \E m \in task[t].mapping : \E o \in Refs[m] \ task[t].relies :
       /\ Missing(m)
       /\ files' = files \cup {o}
       /\ task' = [task EXCEPT ![t].relies = @ \cup {o}]
       /\ Aging({o} \ files)
  /\ UNCHANGED <<torn, pending, service, kills, aborts>>

WriteMapping(t) ==
  /\ task[t].kind \in {"lake", "orphan"}
  /\ \E m \in task[t].mapping :
       /\ Missing(m) /\ task[t].relies = Refs[m]
       /\ files' = files \cup {m}
       /\ torn' = torn \ {m}
       /\ Aging({m})
  /\ UNCHANGED <<pending, service, task, kills, aborts>>

\* Mutant: the marker is written into the project's directory, not the pool.
FinishInProject(t) ==
  /\ task[t].kind = "lake"
  /\ pending' = pending \cup task[t].mapping
  /\ task' = [task EXCEPT ![t] = NoTask]
  /\ UNCHANGED <<files, torn, service, collector, kills, aborts>>

\* The end of a check or a complete import, and of a Lake wrapper, which asks
\* for a collection while it still holds its access lease.
Leave(t) ==
  /\ \/ task[t].kind = "check"
     \/ task[t].kind = "attach"
          /\ \A m \in task[t].mapping : {m} \cup Refs[m] \subseteq files
  /\ task' = [task EXCEPT ![t] = NoTask]
  /\ UNCHANGED <<files, torn, pending, service, collector, kills, aborts>>

Finish(t) ==
  /\ task[t].kind = "lake"
  /\ pending' = pending \cup {PoolOf(t)}
  /\ task' = [task EXCEPT ![t] = NoTask]
  /\ UNCHANGED <<files, torn, service, collector, kills, aborts>>

\* The wrapper dies alone: its native child goes on under the inherited leases.
Orphan(t) ==
  /\ task[t].kind = "lake"
  /\ MayFail(kills, MaxKills) /\ kills' = Failed(kills, MaxKills)
  /\ task' = [task EXCEPT ![t].kind = "orphan"]
  /\ UNCHANGED <<files, torn, pending, service, collector, aborts>>

\* The process group of a build is killed, perhaps in the middle of the
\* mapping; or the process of an import.  A wrapper that returns an error, or
\* cannot write its marker, and an import that fails end in the same way.
Kill(t) ==
  /\ task[t].kind \in {"lake", "orphan", "attach"}
  /\ MayFail(kills, MaxKills) /\ kills' = Failed(kills, MaxKills)
  /\ task' = [task EXCEPT ![t] = NoTask]
  /\ \/ UNCHANGED <<files, torn, collector>>
     \/ /\ task[t].kind # "attach"
        /\ \E m \in task[t].mapping :
             /\ Missing(m) /\ task[t].relies = Refs[m]
             /\ files' = files \cup {m} /\ torn' = torn \cup {m}
             /\ Aging({m})
  /\ UNCHANGED <<pending, service, aborts>>

OrphanEnds(t) ==
  /\ task[t].kind = "orphan"
  /\ task' = [task EXCEPT ![t] = NoTask]
  /\ UNCHANGED <<files, torn, pending, service, collector, kills, aborts>>

(***************************************************************************)
(* Collections.                                                            *)
(***************************************************************************)

ObjectsIn(ps) == {o \in Objects \cap files : Home[o] \in ps}
MappingsIn(ps) == {m \in Mappings \cap files : Home[m] \in ps}
Size(ps) == Cardinality(ObjectsIn(ps))

\* Four fifths of the budget, without an overflowing product.
Target == (Budget \div 5) * 4 + ((Budget % 5) * 4) \div 5

\* The cutoff is fixed here: what is written from now on is newer.
Begin(c, todo, limit, certificates) ==
  /\ collector[c].stage = "out"
  /\ collector' = [collector EXCEPT ![c] =
       [NoCollection EXCEPT !.stage = "lock", !.todo = todo, !.limit = limit,
                            !.certificates = certificates]]
  /\ UNCHANGED <<files, torn, pending, service, task, kills, aborts>>

\* One automatic collection at a time (gc.lock).  It is due when a pool has
\* a request or five minutes have passed; the clock is not modelled.
Tick(c) ==
  /\ c \in Automatic
  /\ \A other \in Automatic : collector[other].stage = "out"
  /\ Begin(c, Pools, Target, FALSE)

\* mdc cache gc
Collect(c) ==
  /\ c \in Manual
  /\ \E p \in Pools, limit \in Limits, certificates \in BOOLEAN :
       Begin(c, {p}, limit, certificates)

\* The three leases of one pool, and the scan of its files.  Because of
\* --older-than-days the cutoff may be older than any of them.
Guard(c, p) ==
  /\ collector[c].stage = "lock" /\ p \in collector[c].todo
  /\ CanGuard(c, p)
  /\ \E young \in SUBSET (IF c \in Manual THEN At(p, files) ELSE {}) :
       collector' = [collector EXCEPT ![c].todo = @ \ {p}, ![c].held = @ \cup {p},
                                      ![c].young = @ \cup young]
  /\ UNCHANGED <<files, torn, pending, service, task, kills, aborts>>

\* What an automatic collection counts of a busy pool, under a live lease.
Counted(p) == IF \E c \in Guards(p) : collector[c].certificates THEN 0 ELSE Size({p})

\* A busy pool: an automatic collection goes on, a manual one fails.
Busy(c, p) ==
  /\ collector[c].stage = "lock" /\ p \in collector[c].todo
  /\ ~CanGuard(c, p)
  /\ collector' = [collector EXCEPT ![c] =
       IF c \in Automatic
       THEN [collector[c] EXCEPT !.todo = @ \ {p}, !.protected = @ + Counted(p)]
       ELSE NoCollection]
  /\ UNCHANGED <<files, torn, pending, service, task, kills, aborts>>

Before(c) == collector[c].protected + Size(collector[c].held)
\* Mutant: the objects of busy pools do not count.
NeededAlone(c) == c \in Automatic => Size(collector[c].held) > Budget

Needed(c) == c \in Automatic => Before(c) > Budget

Within(c, n) == collector[c].limit # NoLimit /\ n <= collector[c].limit

\* Mutant: objects that no mapping named in the first place are kept.
UnreferencedNow(c, ms) ==
  {o \in ObjectsIn(collector[c].held) :
     /\ o \notin collector[c].young
     /\ \E m \in ms : o \in Refs[m]
     /\ \A m \in MappingsIn(collector[c].held) \ ms : o \notin Refs[m]}

\* The objects that go once the mappings ms are evicted: the old ones that no
\* remaining mapping names.
Unreferenced(c, ms) ==
  {o \in ObjectsIn(collector[c].held) :
     /\ o \notin collector[c].young
     /\ \A m \in MappingsIn(collector[c].held) \ ms : o \notin Refs[m]}

Remaining(c, ms) == Before(c) - Cardinality(Unreferenced(c, ms))

Evictable(c) == MappingsIn(collector[c].held) \ collector[c].young

\* Mutant: the eviction stops after one mapping.
EvictionsOfOne(c) == {ms \in SUBSET Evictable(c) : Cardinality(ms) <= 1}

\* The sets of mappings a collection may evict: in some order (that of last
\* use), for as long as the limit is exceeded.
Evictions(c) ==
  {ms \in SUBSET Evictable(c) :
     /\ Within(c, Remaining(c, ms)) \/ ms = Evictable(c)
     /\ ms # {} => \E m \in ms : ~Within(c, Remaining(c, ms \ {m}))}

OldCertificates(c) ==
  IF collector[c].certificates
  THEN {f \in Certificates \cap files : Home[f] \in collector[c].held}
         \ collector[c].young
  ELSE {}

\* Everything is planned before anything is deleted; an unreadable mapping
\* fails the collection.
Plan(c) ==
  /\ collector[c].stage = "lock" /\ collector[c].todo = {}
  /\ \/ /\ Needed(c) /\ torn \cap MappingsIn(collector[c].held) # {}
        /\ collector' = [collector EXCEPT ![c] = NoCollection]
     \/ /\ Needed(c) /\ torn \cap MappingsIn(collector[c].held) = {}
        /\ \E ms \in Evictions(c) :
             collector' = [collector EXCEPT ![c].stage = "delete",
               ![c].doomed = ms \cup Unreferenced(c, ms) \cup OldCertificates(c)]
     \/ /\ ~Needed(c)
        /\ collector' = [collector EXCEPT ![c].stage = "delete"]
  /\ UNCHANGED <<files, torn, pending, service, task, kills, aborts>>

\* Mutant: the files are deleted in the order of the scan.
DeleteUnordered(c, f) ==
  /\ collector[c].stage = "delete" /\ f \in collector[c].doomed
  /\ files' = files \ {f}
  /\ collector' = [collector EXCEPT ![c].doomed = @ \ {f}]
  /\ UNCHANGED <<torn, pending, service, task, kills, aborts>>

\* Objects are deleted after everything that names them.
Delete(c, f) ==
  /\ collector[c].stage = "delete" /\ f \in collector[c].doomed
  /\ f \in Objects => collector[c].doomed \subseteq Objects
  /\ files' = files \ {f}
  /\ collector' = [collector EXCEPT ![c].doomed = @ \ {f}]
  /\ UNCHANGED <<torn, pending, service, task, kills, aborts>>

\* An automatic collection answers the requests of the pools it scanned.
Finished(c) ==
  /\ collector[c].stage = "delete" /\ collector[c].doomed = {}
  /\ pending' = IF c \in Automatic THEN pending \ collector[c].held ELSE pending
  /\ collector' = [collector EXCEPT ![c] = NoCollection]
  /\ UNCHANGED <<files, torn, service, task, kills, aborts>>

\* A crash, an input/output error or a dry run.
Abort(c) ==
  /\ collector[c].stage # "out"
  /\ MayFail(aborts, MaxAborts) /\ aborts' = Failed(aborts, MaxAborts)
  /\ collector' = [collector EXCEPT ![c] = NoCollection]
  /\ UNCHANGED <<files, torn, pending, service, task, kills>>

\* delete_database: under the exclusive lease and live locks the pool is
\* moved aside as a whole.
RemovePool(p) ==
  /\ Guards(p) = {} /\ ~Living(p)
  /\ files' = {f \in files : Home[f] # p}
  /\ torn' = {m \in torn : Home[m] # p}
  /\ pending' = pending \ {p}
  /\ UNCHANGED <<service, task, collector, kills, aborts>>

ServiceStep(s) == Open(s) \/ Load(s) \/ Close(s)

TaskStep(t) ==
  \/ \E s \in Services, m \in Mappings :
       Check(t, s, m) \/ Build(t, s, m) \/ Attach(t, s, m)
  \/ Import(t) \/ Find(t) \/ Publish(t) \/ Leave(t)
  \/ Reuse(t) \/ WriteObject(t) \/ WriteMapping(t) \/ Finish(t)
  \/ Orphan(t) \/ Kill(t) \/ OrphanEnds(t)

CollectorWork(c) ==
  \/ \E p \in Pools : Guard(c, p) \/ Busy(c, p)
  \/ Plan(c) \/ Finished(c)
  \/ \E f \in Files : Delete(c, f)

Next ==
  \/ \E s \in Services : ServiceStep(s)
  \/ \E t \in Tasks : TaskStep(t)
  \/ \E c \in Collectors : Tick(c) \/ Collect(c) \/ CollectorWork(c) \/ Abort(c)
  \/ \E p \in Pools : RemovePool(p)

Spec == Init /\ [][Next]_vars

\* The timer of a running entry server fires again and again, and a
\* collection that has begun goes on.  Nothing is assumed of the others.
Fairness == \A c \in Collectors :
  WF_vars(CollectorWork(c))

LiveSpec == Spec /\ Fairness /\ WF_vars(\E c \in Automatic : Tick(c))

(***************************************************************************)
(* Properties.                                                             *)
(***************************************************************************)

\* Every variable has its type.
TypeOK ==
  /\ files \subseteq Files /\ torn \subseteq Mappings \cap files
  /\ pending \subseteq Pools
  /\ service \in [Services -> [open : BOOLEAN, known : SUBSET Certificates]]
  /\ task \in [Tasks -> [kind : {"out", "check", "lake", "orphan", "attach"},
                        owner : SUBSET Services, mapping : SUBSET Mappings,
                        relies : SUBSET Objects]]
  /\ collector \in [Collectors ->
       [stage : {"out", "lock", "delete"}, todo : SUBSET Pools, held : SUBSET Pools,
        protected : Nat, limit : Nat \cup {NoLimit}, certificates : BOOLEAN,
        young : SUBSET Files, doomed : SUBSET Files]]
  /\ kills \in Nat /\ aborts \in Nat

\* No object is deleted while a check that found it, or a Lake process that
\* wrote or restored it, is still at work: not when its service or its
\* wrapper has died either.
UsesSurvive == \A t \in Tasks : task[t].relies \subseteq files

\* A mapping that has all its objects keeps them for as long as it is there,
\* whenever a collection or a compiler process ends: a build would otherwise
\* take a hit for objects that are not there.
MappedKeepsObjects ==
  [][\A m \in Mappings \cap files \cap files' :
       Refs[m] \subseteq files => Refs[m] \subseteq files']_vars

\* The certificates that an open service has loaded stay on disk, where other
\* services and its own restart look for them.
CertificatesKept == \A s \in Services : service[s].known \subseteq files

\* A collection that has deleted all it planned is within its budget, or what
\* is left is too young or named by a mapping that is.
EndsWithinBudget == \A c \in Collectors :
  collector[c].stage = "delete" /\ collector[c].doomed = {} =>
    \/ c \in Automatic /\ Before(c) <= Budget
    \/ c \in Manual /\ Within(c, Before(c))
    \/ Evictable(c) = {} /\ Unreferenced(c, {}) = {}

Idle ==
  /\ \A t \in Tasks : task[t].kind = "out"
  /\ \A c \in Manual : collector[c].stage = "out"

\* Once no one uses the caches, the pools together come down to the budget for
\* good, with the objects that killed builds and collections left behind.  The
\* one exception is a mapping that a kill left half-written: it fails every
\* collection, of whichever pools, until a build of its input completes it or
\* its database is deleted.
BudgetMet == <>[]Idle => <>[](Size(Pools) <= Budget \/ torn # {})

\* The same without the exception, which the collections do not keep.
BudgetMetByAll == <>[]Idle => <>[](Size(Pools) <= Budget)

\* The comment on the removal of gc.pending, "Writers cannot lose a new
\* request": while the pools exceed the budget and nothing is at work, a
\* request is outstanding, unless a writer was killed before it made one.
RequestsKept ==
  Idle /\ kills = 0 /\ (\A c \in Collectors : collector[c].stage = "out")
    => Size(Pools) <= Budget \/ pending # {}
=============================================================================
