----------------------------- MODULE LeanCheck -----------------------------
(***************************************************************************)
(* Lean checks and the statuses of nodes (src/lean.rs,                     *)
(* src/lean/certificates.rs).                                              *)
(*                                                                         *)
(* A check captures the Lean inputs of a node and everything below it,     *)
(* waits for other checks, compiles, and records what it learned.  By then *)
(* the branch may hold other inputs, and other checks may have recorded    *)
(* theirs.  Evidence is kept in each service, one result per node, and in  *)
(* a certificate store on disk that the services of a database share, one  *)
(* result per input key.  A service brings its results up to date with the *)
(* store when it reads a snapshot, once per branch version and store       *)
(* generation.  The flag synced stands for the pair (version, generation)  *)
(* being the current one, so that neither number has to grow.              *)
(*                                                                         *)
(* The store can be opened when the pinned compiler is installed and says  *)
(* in time which one it is; until then checks keep their results to        *)
(* themselves.                                                             *)
(***************************************************************************)
EXTENDS Naturals, Sequences, FiniteSets

CONSTANTS
  Services,   \* the branches of one database that are served
  Checks,     \* bound: checks under way at once
  Order,      \* the nodes, dependencies first
  DepsOf,     \* each node's direct dependencies
  Sources,    \* Lean sources: "proved", "gap" (a sorry) and "broken"
  Slots,      \* compiler workers of one service
  MaxSaves,   \* bound: changes of a source
  Nothing     \* no result

Nodes == {Order[i] : i \in DOMAIN Order}

ASSUME LeanAssumption ==
  /\ Order \in Seq(Nodes)
  /\ Sources \subseteq {"proved", "gap", "broken"}
  /\ \A n \in Nodes : DepsOf[n] \subseteq Nodes
  /\ \A i, j \in DOMAIN Order : Order[j] \in DepsOf[Order[i]] => j < i
  /\ Slots \in Nat \ {0} /\ MaxSaves \in Nat

VARIABLES
  head,      \* per service: the source of each node of its branch
  store,     \* certificates: the certified results on disk
  opened,    \* per service: the entry of LeanService::certificates
  missed,    \* history: keys certified while the store could not be opened
  results,   \* per service and node: LeanService::results
  synced,    \* per service: the results reflect this version and generation
  snapshot,  \* per service: the snapshot lock and the progress of a read
  seen,      \* per service: no certificate since the read took its generation
  check,     \* per check: what it captured and how far it has come
  saves      \* changes so far

vars == <<head, store, opened, missed, results, synced, snapshot, seen, check, saves>>

-----------------------------------------------------------------------------
(***************************************************************************)
(* Inputs, keys and what the compiler says of them.                        *)
(***************************************************************************)
Closed(set) == \A n \in set : DepsOf[n] \subseteq set

\* Input::capture: the node and all it depends on.
Chain == [n \in Nodes |->
            {m \in Nodes : \A set \in SUBSET Nodes :
                             n \in set /\ Closed(set) => m \in set}]

\* The recursive Lean key covers the sources of the whole chain.
KeyOf(src, n) == [node |-> n, text |-> [m \in Chain[n] |-> src[m]]]

Keys == UNION {{KeyOf(src, n) : src \in [Nodes -> Sources]} : n \in Nodes}

Result == [key : Keys, certified : BOOLEAN, sorry : BOOLEAN,
           below : {"yes", "no", "unknown"}]

ASSUME NothingAssumption == Nothing \notin Result

\* The compiler accepts a file if it can build all imports.
Compiles(key) == \A m \in DOMAIN key.text : key.text[m] # "broken"

\* formal_status, for whoever knew everything.
TrueStatus(key) ==
  IF ~ Compiles(key) THEN "unverified"
  ELSE IF key.text[key.node] = "gap" THEN "sorry"
  ELSE IF \E m \in DOMAIN key.text : key.text[m] = "gap" THEN "conditional"
  ELSE "verified"

\* A result of the node that certifies the given inputs.
Certifies(res, src, n) ==
  res[n] # Nothing /\ res[n].key = KeyOf(src, n) /\ res[n].certified

\* dependencies_have_sorry
DependenciesSorry(res, src, n) ==
  IF \E m \in DepsOf[n] : ~ Certifies(res, src, m) \/ res[m].below = "unknown"
  THEN "unknown"
  ELSE IF \E m \in DepsOf[n] : res[m].sorry \/ res[m].below = "yes"
  THEN "yes" ELSE "no"

\* dependency_errors is empty.
AllCertified(res, src, n) == \A m \in DepsOf[n] : Certifies(res, src, m)

-----------------------------------------------------------------------------
Stages == {"idle", "captured", "waiting", "locked", "queued", "hired", "chained",
           "native", "recording", "finishing", "answered"}

Check == [stage : Stages, service : Services, target : Nodes,
          src : [Nodes -> Sources], left : SUBSET Nodes,
          observed : SUBSET Nodes,
          evidence : [Nodes -> Result \cup {Nothing}],
          result : Result \cup {Nothing}]

NoResults == [n \in Nodes |-> Nothing]

\* Every result is of its node; a read holds the snapshot until it is done.
TypeOK ==
  /\ head \in [Services -> [Nodes -> Sources]]
  /\ store \in SUBSET Result
  /\ opened \in [Services -> {"unopened", "failed", "open"}]
  /\ missed \subseteq Keys
  /\ results \in [Services -> [Nodes -> Result \cup {Nothing}]]
  /\ synced \in [Services -> BOOLEAN]
  /\ snapshot \in [Services -> {"free", "reading", "held"}]
  /\ seen \in [Services -> BOOLEAN]
  /\ check \in [Checks -> Check \cup {[stage |-> "idle"]}]
  /\ \A s \in Services, n \in Nodes :
       results[s][n] # Nothing => results[s][n].key.node = n
  /\ \A r, q \in store : r.key = q.key => r = q
  /\ saves \in 0 .. MaxSaves

Init ==
  /\ head \in [Services -> [Nodes -> Sources]]
  /\ store = {} /\ missed = {}
  /\ opened = [s \in Services |-> "unopened"]
  /\ results = [s \in Services |-> NoResults]
  /\ synced = [s \in Services |-> FALSE]
  /\ snapshot = [s \in Services |-> "free"]
  /\ seen = [s \in Services |-> FALSE]
  /\ check = [c \in Checks |-> [stage |-> "idle"]]
  /\ saves = 0

Set(c, stage) == check' = [check EXCEPT ![c].stage = stage]

\* LeanService::certificates, whose failure is remembered: only checks retry.
Lookups(s, retry) ==
  IF opened[s] = "open" \/ (opened[s] = "failed" /\ ~ retry)
  THEN {opened[s]} ELSE {"failed", "open"}

Found(s, retry, entry) ==
  /\ entry \in Lookups(s, retry)
  /\ opened' = [opened EXCEPT ![s] = entry]

\* Certificates::publish and refresh advance the generation of the store.
Advance ==
  /\ synced' = [s \in Services |-> FALSE]
  /\ seen' = [s \in Services |-> FALSE]

-----------------------------------------------------------------------------
(***************************************************************************)
(* restore_results: the stored certificates of the nodes' keys,            *)
(* dependencies first, checked again against the graph at hand.            *)
(***************************************************************************)
\* Mutant: the nodes are not sorted by depth.
RestoredUnsorted(res, src, nodes) ==
  [n \in Nodes |->
     LET stored == {r \in store : r.key = KeyOf(src, n)} IN
     IF n \notin nodes \/ stored = {} THEN res[n]
     ELSE [(CHOOSE r \in stored : TRUE) EXCEPT
             !.certified = AllCertified(res, src, n),
             !.below = DependenciesSorry(res, src, n)]]

RestoreNode(res, src, nodes, n) ==
  LET stored == {r \in store : r.key = KeyOf(src, n)} IN
  IF n \notin nodes \/ stored = {} THEN res
  ELSE [res EXCEPT ![n] = [(CHOOSE r \in stored : TRUE) EXCEPT
                             !.certified = AllCertified(res, src, n),
                             !.below = DependenciesSorry(res, src, n)]]

Restored(res, src, nodes) ==
  LET restore[i \in 0 .. Len(Order)] ==
        IF i = 0 THEN res ELSE RestoreNode(restore[i - 1], src, nodes, Order[i])
  IN restore[Len(Order)]

(***************************************************************************)
(* Service::read: sync_snapshot under the snapshot lock.  Without a store  *)
(* the results stay as they are.                                           *)
(***************************************************************************)
Read(s) ==
  /\ snapshot[s] = "free"
  /\ \E entry \in Lookups(s, FALSE) :
       LET restores == entry = "open" /\ ~ synced[s] IN
         /\ Found(s, FALSE, entry)
         /\ snapshot' = [snapshot EXCEPT ![s] = IF restores THEN "reading" ELSE "held"]
         /\ seen' = [seen EXCEPT ![s] = restores]
  /\ UNCHANGED <<head, store, missed, results, synced, check, saves>>

Sync(s) ==
  /\ snapshot[s] = "reading"
  /\ results' = [results EXCEPT ![s] = Restored(results[s], head[s], Nodes)]
  /\ synced' = [synced EXCEPT ![s] = seen[s]]
  /\ snapshot' = [snapshot EXCEPT ![s] = "held"]
  /\ seen' = [seen EXCEPT ![s] = FALSE]
  /\ UNCHANGED <<head, store, opened, missed, check, saves>>

\* The request has used the snapshot: shown statuses, say.
Release(s) ==
  /\ snapshot[s] = "held"
  /\ snapshot' = [snapshot EXCEPT ![s] = "free"]

Look(s) == Release(s) /\ UNCHANGED <<head, store, opened, missed, results, synced, seen, check, saves>>

\* A commit by this service, or by another one in the next read.
Save(s, n, source) ==
  /\ Release(s)
  /\ saves < MaxSaves
  /\ saves' = saves + 1
  /\ source # head[s][n]
  /\ head' = [head EXCEPT ![s][n] = source]
  /\ synced' = [synced EXCEPT ![s] = FALSE]
  /\ UNCHANGED <<store, opened, missed, results, seen, check>>

-----------------------------------------------------------------------------
(***************************************************************************)
(* LeanService::check.                                                     *)
(***************************************************************************)
Capture(c, s, n) ==
  /\ check[c].stage = "idle"
  /\ Release(s)
  /\ check' = [check EXCEPT ![c] =
       [stage |-> "captured", service |-> s, target |-> n, src |-> head[s],
        left |-> {}, observed |-> {}, evidence |-> NoResults,
        result |-> Nothing]]
  /\ UNCHANGED <<head, store, opened, missed, results, synced, seen, saves>>

\* cached_input: restore the chain, if there is a store, and answer if all of it
\* is certified.
Recalled(s, entry, src, nodes) ==
  IF entry = "open" THEN Restored(results[s], src, nodes) ELSE results[s]

Complete(res, c) ==
  \A m \in Chain[check[c].target] : Certifies(res, check[c].src, m)

After == [captured |-> "waiting", locked |-> "queued", hired |-> "chained"]

Cached(c) ==
  /\ check[c].stage \in DOMAIN After
  /\ LET s == check[c].service
         n == check[c].target
     IN \E entry \in Lookups(s, FALSE) :
        LET res == Recalled(s, entry, check[c].src, Chain[n]) IN
          /\ Found(s, FALSE, entry)
          /\ results' = [results EXCEPT ![s] = res]
          /\ IF Complete(res, c)
             THEN check' = [check EXCEPT ![c].stage = "answered", ![c].result = res[n]]
             ELSE Set(c, After[check[c].stage])
  /\ UNCHANGED <<head, store, missed, synced, snapshot, seen, saves>>

\* One check per key at a time, across the branches; then refresh, of a store
\* that can be opened by now.
Holding == Stages \ {"idle", "captured", "waiting", "answered"}

Fly(c) ==
  /\ check[c].stage = "waiting"
  /\ \A b \in Checks : check[b].stage \in Holding =>
       KeyOf(check[b].src, check[b].target) # KeyOf(check[c].src, check[c].target)
  /\ Set(c, "locked")
  /\ \E entry \in Lookups(check[c].service, TRUE) :
       /\ Found(check[c].service, TRUE, entry)
       /\ IF entry = "open" THEN Advance ELSE UNCHANGED <<synced, seen>>
  /\ UNCHANGED <<head, store, missed, results, snapshot, saves>>

\* A worker is free.
Working == {"hired", "chained", "native", "recording", "finishing"}

Hire(c) ==
  /\ check[c].stage = "queued"
  /\ Cardinality({b \in Checks : /\ check[b].stage \in Working
                                 /\ check[b].service = check[c].service}) < Slots
  /\ Set(c, "hired")
  /\ UNCHANGED <<head, store, opened, missed, results, synced, snapshot, seen, saves>>

\* check_chain looks at the cache once more; its answer goes through the end
\* of check.
CachedChain(c) ==
  /\ check[c].stage = "chained"
  /\ LET s == check[c].service
         n == check[c].target
     IN \E entry \in Lookups(s, FALSE) :
        LET res == Recalled(s, entry, check[c].src, Chain[n]) IN
          /\ Found(s, FALSE, entry)
          /\ results' = [results EXCEPT ![s] = res]
          /\ IF Complete(res, c)
             THEN check' = [check EXCEPT ![c].stage = "finishing", ![c].result = res[n]]
             ELSE Set(c, "native")
  /\ UNCHANGED <<head, store, missed, synced, snapshot, seen, saves>>

\* The compiler has loaded the imports and answered.  What is known of the
\* chain is copied now: other checks may record other revisions meanwhile.
Compile(c) ==
  /\ check[c].stage = "native"
  /\ LET s == check[c].service
         n == check[c].target
         src == check[c].src
         known == [m \in Nodes |->
                     IF /\ m \in Chain[n]
                        /\ results[s][m] # Nothing
                        /\ results[s][m].key = KeyOf(src, m)
                     THEN results[s][m] ELSE Nothing]
     IN check' = [check EXCEPT
          ![c].stage = "recording",
          ![c].left = Chain[n],
          ![c].evidence = known,
          ![c].observed =
             IF Compiles(KeyOf(src, n))
             THEN {n} \cup {m \in Chain[n] : ~ Certifies(known, src, m)}
             ELSE {n}]
  /\ UNCHANGED <<head, store, opened, missed, results, synced, snapshot, seen, saves>>

\* Lean cannot be started, times out or is stopped.
Fail(c) ==
  /\ check[c].stage \in {"native", "recording"}
  /\ check' = [check EXCEPT ![c] = [stage |-> "idle"]]
  /\ UNCHANGED <<head, store, opened, missed, results, synced, snapshot, seen, saves>>

Next1(c) ==
  CHOOSE m \in check[c].left :
    \A k \in check[c].left :
      (CHOOSE i \in DOMAIN Order : Order[i] = m)
        <= (CHOOSE i \in DOMAIN Order : Order[i] = k)

Stored(key) == \E q \in store : q.key = key

\* Mutant: the store keeps one certificate of a node, the latest.
PublishLatest(r, entry) ==
  IF r.certified /\ entry = "open"
  THEN /\ store' = {q \in store : q.key.node # r.key.node} \cup {r}
       /\ missed' = missed \ {r.key}
       /\ Advance
  ELSE /\ missed' = IF r.certified /\ ~ Stored(r.key) THEN missed \cup {r.key} ELSE missed
       /\ UNCHANGED <<store, synced, seen>>

\* persist_result: a result that is certified goes into the store, if there is
\* one; the check goes on without.
Publish(r, entry) ==
  IF r.certified /\ entry = "open"
  THEN /\ store' = {q \in store : q.key # r.key} \cup {r}
       /\ missed' = missed \ {r.key}
       /\ Advance
  ELSE /\ missed' = IF r.certified /\ ~ Stored(r.key) THEN missed \cup {r.key} ELSE missed
       /\ UNCHANGED <<store, synced, seen>>

\* Mutant: the result is kept under the node that was asked for.
KeepAtTarget(c, m, r) ==
  LET s == check[c].service IN
    /\ results' = [results EXCEPT ![s][check[c].target] = r]
    /\ check' = [check EXCEPT
         ![c].left = check[c].left \ {m},
         ![c].evidence[m] = r,
         ![c].result = IF m = check[c].target THEN r ELSE check[c].result]

Keep(c, m, r) ==
  LET s == check[c].service IN
    /\ results' = [results EXCEPT ![s][m] = r]
    /\ check' = [check EXCEPT
         ![c].left = check[c].left \ {m},
         ![c].evidence[m] = r,
         ![c].result = IF m = check[c].target THEN r ELSE check[c].result]

\* Mutant: the evidence of dependencies is looked up as it is now.
RecordNow(c) ==
  /\ check[c].stage = "recording" /\ check[c].left # {}
  /\ LET m == Next1(c)
         src == check[c].src
         known == results[check[c].service]
     IN /\ m \in check[c].observed
        /\ LET r == [key |-> KeyOf(src, m),
                     certified |-> /\ m = check[c].target => Compiles(KeyOf(src, m))
                                   /\ AllCertified(known, src, m),
                     sorry |-> src[m] = "gap",
                     below |-> DependenciesSorry(known, src, m)]
           IN /\ Keep(c, m, r)
              /\ \E entry \in Lookups(check[c].service, TRUE) :
                   Found(check[c].service, TRUE, entry) /\ Publish(r, entry)
  /\ UNCHANGED <<head, snapshot, saves>>

\* Mutant: the result is recorded under the inputs the branch has by now.
RecordPresent(c) ==
  /\ check[c].stage = "recording" /\ check[c].left # {}
  /\ LET m == Next1(c)
         src == check[c].src
         known == check[c].evidence
     IN /\ m \in check[c].observed
        /\ LET r == [key |-> KeyOf(head[check[c].service], m),
                     certified |-> /\ m = check[c].target => Compiles(KeyOf(src, m))
                                   /\ AllCertified(known, src, m),
                     sorry |-> src[m] = "gap",
                     below |-> DependenciesSorry(known, src, m)]
           IN /\ Keep(c, m, r)
              /\ \E entry \in Lookups(check[c].service, TRUE) :
                   Found(check[c].service, TRUE, entry) /\ Publish(r, entry)
  /\ UNCHANGED <<head, snapshot, saves>>

Record(c) ==
  /\ check[c].stage = "recording" /\ check[c].left # {}
  /\ LET m == Next1(c)
         src == check[c].src
         known == check[c].evidence
     IN /\ m \in check[c].observed
        /\ LET r == [key |-> KeyOf(src, m),
                     certified |-> /\ m = check[c].target => Compiles(KeyOf(src, m))
                                   /\ AllCertified(known, src, m),
                     sorry |-> src[m] = "gap",
                     below |-> DependenciesSorry(known, src, m)]
           IN /\ Keep(c, m, r)
              /\ \E entry \in Lookups(check[c].service, TRUE) :
                   Found(check[c].service, TRUE, entry) /\ Publish(r, entry)
  /\ UNCHANGED <<head, snapshot, saves>>

\* A result that was known gets its transitive evidence completed.
Recover(c) ==
  /\ check[c].stage = "recording" /\ check[c].left # {}
  /\ LET m == Next1(c)
         known == check[c].evidence
     IN /\ m \notin check[c].observed
        /\ IF known[m] = Nothing
           THEN /\ check' = [check EXCEPT ![c].left = check[c].left \ {m}]
                /\ UNCHANGED results
           ELSE Keep(c, m, [known[m] EXCEPT
                              !.below = DependenciesSorry(known, check[c].src, m)])
  /\ UNCHANGED <<head, store, opened, missed, synced, snapshot, seen, saves>>

\* synced is reset: the recorded results may be of other inputs.
Settle(c) ==
  /\ check[c].stage = "recording" /\ check[c].left = {}
  /\ check' = [check EXCEPT ![c].stage = "finishing", ![c].observed = {},
                            ![c].evidence = NoResults]
  /\ synced' = [synced EXCEPT ![check[c].service] = FALSE]
  /\ UNCHANGED <<head, store, opened, missed, results, snapshot, seen, saves>>

Finish(c) ==
  /\ check[c].stage = "finishing"
  /\ results' = [results EXCEPT
       ![check[c].service][check[c].target] = check[c].result]
  /\ synced' = [synced EXCEPT ![check[c].service] = FALSE]
  /\ Set(c, "answered")
  /\ UNCHANGED <<head, store, opened, missed, snapshot, seen, saves>>

\* lean_check reads the branch again: a result for other inputs than its
\* present ones is a conflict.
Reply(c) ==
  /\ check[c].stage = "answered"
  /\ Release(check[c].service)
  /\ check' = [check EXCEPT ![c] = [stage |-> "idle"]]
  /\ UNCHANGED <<head, store, opened, missed, results, synced, seen, saves>>

\* The process ends; branches and certificates remain.
Restart ==
  /\ opened' = [s \in Services |-> "unopened"]
  /\ results' = [s \in Services |-> NoResults]
  /\ snapshot' = [s \in Services |-> "free"]
  /\ check' = [c \in Checks |-> [stage |-> "idle"]]
  /\ synced' = [s \in Services |-> FALSE]
  /\ seen' = [s \in Services |-> FALSE]
  /\ UNCHANGED <<head, store, missed, saves>>

Next ==
  \/ \E s \in Services :
       \/ Read(s) \/ Sync(s) \/ Look(s)
       \/ \E n \in Nodes, source \in Sources : Save(s, n, source)
       \/ \E n \in Nodes, c \in Checks : Capture(c, s, n)
  \/ \E c \in Checks :
       \/ Cached(c) \/ Fly(c) \/ Hire(c) \/ CachedChain(c) \/ Compile(c) \/ Fail(c)
       \/ Record(c) \/ Recover(c) \/ Settle(c) \/ Finish(c) \/ Reply(c)
  \/ Restart

Spec == Init /\ [][Next]_vars

-----------------------------------------------------------------------------
(***************************************************************************)
(* Properties.                                                             *)
(***************************************************************************)
\* formal_status
Status(res, src, n) ==
  IF ~ Certifies(res, src, n) THEN "unverified"
  ELSE IF res[n].sorry THEN "sorry"
  ELSE IF res[n].below = "yes" THEN "conditional"
  ELSE IF res[n].below = "no" THEN "verified"
  ELSE "unverified"

\* A status other than unverified is the truth about the node's present
\* source and all it depends on, whatever mix of revisions, branches and
\* restarts the results come from.
StatusTrue ==
  \A s \in Services, n \in Nodes :
    Status(results[s], head[s], n) \in {"unverified", TrueStatus(KeyOf(head[s], n))}

\* A stored certificate never lacks the certificates of what it imports, so
\* that restoring it can succeed, unless the store could not be opened when
\* those were certified.
StoreClosed ==
  \A r \in store : \A m \in DepsOf[r.key.node] :
    Stored(KeyOf(r.key.text, m)) \/ KeyOf(r.key.text, m) \in missed

\* Without that exception: a check goes on when the store cannot be opened for a
\* node, and may open it for the next.
ImportsStored ==
  \A r \in store : \A m \in DepsOf[r.key.node] : Stored(KeyOf(r.key.text, m))

\* A check that ends says exactly whether its inputs compile; it does not
\* fail for the results of other revisions that were recorded meanwhile.
CheckDecides ==
  \A c \in Checks :
    check[c].stage = "answered" =>
      /\ check[c].result.key = KeyOf(check[c].src, check[c].target)
      /\ check[c].result.certified <=> Compiles(check[c].result.key)

\* The whole chain of the node's present inputs has certificates.
ChainStored(s, n) == \A m \in Chain[n] : Stored(KeyOf(head[s], m))

\* A read that brings the results up to date shows the status of every node
\* whose present inputs have certificates.
ReadRestores ==
  [][\A s \in Services :
       snapshot[s] = "reading" /\ snapshot'[s] = "held" =>
         \A n \in Nodes :
           ChainStored(s, n) =>
             Status(results'[s], head[s], n) = TrueStatus(KeyOf(head[s], n))]_vars

Recording(s) ==
  \E c \in Checks : check[c].stage \in {"recording", "finishing"}
                      /\ check[c].service = s

\* "Shared evidence restores graph statuses in memory on startup and after
\* graph/evidence changes": where nothing has changed since, and nothing is
\* being recorded, certified nodes show it.
StatusRestored ==
  \A s \in Services :
    snapshot[s] = "held" /\ synced[s] /\ ~ Recording(s) =>
      \A n \in Nodes :
        ChainStored(s, n) => Status(results[s], head[s], n) # "unverified"
=============================================================================
