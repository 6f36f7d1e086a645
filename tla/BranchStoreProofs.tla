------------------------- MODULE BranchStoreProofs -------------------------
(***************************************************************************)
(* Proofs about BranchStore for every set of nodes, services and clients:  *)
(* its inductive invariant; that the projections of its snapshots are what *)
(* they should be; that it implements NodeGraph; and that its edits        *)
(* overwrite nothing unread and its clients never read backwards.          *)
(***************************************************************************)
EXTENDS BranchStore, SnapshotIndexProofs, TLAPS

(***************************************************************************)
(* Validation lemmas: what the guards of the handlers guarantee about the  *)
(* graph their transaction would produce.                                  *)
(***************************************************************************)

\* A validated change of a valid graph gives a valid graph, also when the
\* graph-wide checks are skipped (Snapshot::validate_changes).
LEMMA ValidChangesLemma ==
  ASSUME NEW nodes \in Graph, NEW docs \in Graph, NEW project,
         ValidGraph(nodes, project), ValidChanges(nodes, project, docs)
  PROVE  ValidGraph(Merge(nodes, docs), project)
<1> DEFINE merged == Merge(nodes, docs)
<1>1. \A i \in Ids : merged[i] = IF docs[i] # NoNode THEN docs[i] ELSE nodes[i]
  BY DEF Merge
<1>2. Live(nodes) \subseteq Live(merged) /\ Live(docs) \subseteq Live(merged)
  BY <1>1 DEF Live
<1>3. ModulesFree(merged, project)
  BY <1>1 DEF ModulesFree, Live, ValidGraph, ValidChanges
<1>4. CASE KeepsShape(nodes, docs)
  <2>1. Live(merged) = Live(nodes)
    BY <1>1, <1>4 DEF KeepsShape, Live
  <2>2. \A i \in Live(nodes) : /\ merged[i].name = nodes[i].name
                               /\ merged[i].deps = nodes[i].deps
    BY <1>1, <1>4 DEF KeepsShape, Live
  <2>3. UniqueNames(merged) /\ Closed(merged) /\ Acyclic(merged)
    BY <2>1, <2>2 DEF ValidGraph, UniqueNames, Closed, Acyclic
  <2>4. QED
    BY <1>3, <2>3 DEF ValidGraph
<1>5. CASE ~ KeepsShape(nodes, docs)
  <2>1. /\ UniqueNames(merged)
        /\ \A i \in Live(docs) : docs[i].deps \subseteq Live(merged)
        /\ Acyclic(merged)
    BY <1>5 DEF ValidChanges
  <2>2. Closed(merged)
    BY <1>1, <1>2, <2>1 DEF Closed, Live, ValidGraph
  <2>3. QED
    BY <1>3, <2>1, <2>2 DEF ValidGraph
<1>6. QED
  BY <1>4, <1>5

\* Deleting a node with the links of all its referrers keeps the graph valid;
\* delete_node runs no validation of its own.
LEMMA RemovedLemma ==
  ASSUME NEW nodes \in Graph, NEW project, NEW id \in Ids,
         ValidGraph(nodes, project)
  PROVE  ValidGraph(Removed(nodes, id, ReferrersOf(nodes)[id]), project)
<1> DEFINE left == Removed(nodes, id, ReferrersOf(nodes)[id])
<1>1. \A i \in Ids : i \in Live(left) => i \in Live(nodes) /\ i # id
  BY DEF Live, Removed, ReferrersOf
<1>2. \A i \in Live(nodes) \ {id} :
        /\ left[i] # NoNode
        /\ left[i].name = nodes[i].name
        /\ left[i].deps = nodes[i].deps \ {id}
  <2> SUFFICES ASSUME NEW i \in Live(nodes) \ {id}
               PROVE  /\ left[i] # NoNode
                      /\ left[i].name = nodes[i].name
                      /\ left[i].deps = nodes[i].deps \ {id}
    OBVIOUS
  <2>1. nodes[i] \in Node /\ i \in Ids
    BY DEF Live, Graph
  <2>2. CASE i \in ReferrersOf(nodes)[id]
    <3>1. left[i] = [nodes[i] EXCEPT !.deps = @ \ {id}]
      BY <2>1, <2>2 DEF Removed
    <3>2. left[i] \in Node
      BY <3>1, <2>1 DEF Node
    <3>3. QED
      BY <3>1, <3>2, <2>1, NoNodeAssumption DEF Node
  <2>3. CASE i \notin ReferrersOf(nodes)[id]
    <3>1. left[i] = nodes[i]
      BY <2>1, <2>3 DEF Removed
    <3>2. id \notin nodes[i].deps
      BY <2>3 DEF ReferrersOf
    <3>3. QED
      BY <3>1, <3>2 DEF Live
  <2>4. QED
    BY <2>2, <2>3
<1>3. Live(left) = Live(nodes) \ {id}
  BY <1>1, <1>2 DEF Live
<1>4. ModulesFree(left, project) /\ UniqueNames(left) /\ Closed(left)
  BY <1>2, <1>3 DEF ValidGraph, ModulesFree, UniqueNames, Closed
<1>5. Acyclic(left)
  <2> SUFFICES ASSUME NEW S \in SUBSET Live(left), S # {}
               PROVE  \E i \in S : left[i].deps \cap S = {}
    BY DEF Acyclic
  <2>1. PICK i \in S : nodes[i].deps \cap S = {}
    BY <1>3 DEF ValidGraph, Acyclic
  <2>2. QED
    BY <2>1, <1>2, <1>3
<1>6. QED
  BY <1>4, <1>5 DEF ValidGraph

\* A change that keeps every name and dependency keeps the referrers.
LEMMA KeepsShapeReferrers ==
  ASSUME NEW nodes \in Graph, NEW docs \in Graph, KeepsShape(nodes, docs)
  PROVE  ReferrersOf(Merge(nodes, docs)) = ReferrersOf(nodes)
<1> DEFINE merged == Merge(nodes, docs)
<1>1. \A i \in Ids : merged[i] = IF docs[i] # NoNode THEN docs[i] ELSE nodes[i]
  BY DEF Merge
<1>2. Live(merged) = Live(nodes)
  BY <1>1 DEF KeepsShape, Live
<1>3. \A j \in Live(nodes) : merged[j].deps = nodes[j].deps
  BY <1>1 DEF KeepsShape, Live
<1>4. QED
  BY <1>2, <1>3 DEF ReferrersOf

\* Shapes of the graphs the handlers build.
LEMMA GraphTypes ==
  ASSUME NEW nodes \in Graph
  PROVE  /\ \A docs \in Graph : Merge(nodes, docs) \in Graph
         /\ \A id \in Ids, P \in SUBSET Live(nodes) :
              Removed(nodes, id, P) \in Graph
         /\ ReferrersOf(nodes) \in [Ids -> SUBSET Ids]
         /\ \A id \in Ids : ReferrersOf(nodes)[id] \subseteq Live(nodes)
         /\ EmptyGraph \in Graph
<1>1. \A docs \in Graph : Merge(nodes, docs) \in Graph
  BY DEF Graph, Merge
<1>2. ASSUME NEW id \in Ids, NEW P \in SUBSET Live(nodes)
      PROVE  Removed(nodes, id, P) \in Graph
  <2>1. \A i \in P : [nodes[i] EXCEPT !.deps = @ \ {id}] \in Node
    BY DEF Graph, Live, Node
  <2>2. QED
    BY <2>1 DEF Removed, Graph
<1>3. /\ ReferrersOf(nodes) \in [Ids -> SUBSET Ids]
      /\ \A id \in Ids : ReferrersOf(nodes)[id] \subseteq Live(nodes)
  BY DEF ReferrersOf, Live
<1>4. EmptyGraph \in Graph
  BY DEF EmptyGraph, Graph
<1>5. QED
  BY <1>1, <1>2, <1>3, <1>4

(***************************************************************************)
(* The index: hashing leaves the module index alone.                       *)
(***************************************************************************)
LEMMA ModulesTypes ==
  ASSUME NEW nodes
  PROVE  ModulesOf(nodes) \in [Names -> Ids \cup {NoId}]
BY DEF ModulesOf, Live

IndexShaped(x) == /\ DOMAIN x = DOMAIN NoIndex
                  /\ x.modules \in [Names -> Ids \cup {NoId}]

LEMMA RecomputeGraphShape ==
  ASSUME NEW x, DOMAIN x = DOMAIN NoIndex, NEW nodes
  PROVE  IndexShaped(RecomputeGraph(x, nodes))
BY ModulesTypes DEF IndexShaped, RecomputeGraph, NoIndex

LEMMA RefreshShape ==
  ASSUME NEW x, IndexShaped(x), NEW nodes, NEW project, NEW refs, NEW seeds
  PROVE  IndexShaped(RefreshLeanKeys(x, nodes, project, refs, seeds))
<1>1. \A a, b : IndexShaped([x EXCEPT !.prefixes = a, !.keys = b])
  BY DEF IndexShaped, NoIndex
<1>2. QED
  BY <1>1, Zenon DEF RefreshLeanKeys

LEMMA IndexShapes ==
  /\ \A nodes, project : IndexShaped(Recompute(nodes, project))
  /\ \A x, nodes, project, docs, refs :
       IndexShaped(x) => IndexShaped(ApplyIndex(x, nodes, project, docs, refs))
  /\ \A x, left, project, id, parents :
       IndexShaped(x) => IndexShaped(RemoveIndex(x, left, project, id, parents))
<1>1. ASSUME NEW nodes, NEW project
      PROVE  IndexShaped(Recompute(nodes, project))
  <2>1. IndexShaped(RecomputeGraph(NoIndex, nodes))
    BY RecomputeGraphShape
  <2>2. QED
    BY <2>1, RefreshShape DEF Recompute
<1>2. ASSUME NEW x, NEW nodes, NEW project, NEW docs, NEW refs, IndexShaped(x)
      PROVE  IndexShaped(ApplyIndex(x, nodes, project, docs, refs))
  <2> DEFINE graphed == IF KeepsShape(nodes, docs) THEN x
                        ELSE RecomputeGraph(x, Merge(nodes, docs))
  <2>1. IndexShaped(graphed)
    BY <1>2, RecomputeGraphShape DEF IndexShaped
  <2>2. IndexShaped(RefreshLeanKeys(graphed, Merge(nodes, docs), project, refs,
                                    LeanChanged(nodes, docs)))
    BY <2>1, RefreshShape
  <2>3. QED
    BY <2>2 DEF ApplyIndex
<1>3. ASSUME NEW x, NEW left, NEW project, NEW id, NEW parents, IndexShaped(x)
      PROVE  IndexShaped(RemoveIndex(x, left, project, id, parents))
  <2> DEFINE dropped == [x EXCEPT !.keys[id] = NoKey, !.prefixes[id] = NoKey]
  <2>1. DOMAIN dropped = DOMAIN NoIndex
    BY <1>3 DEF IndexShaped
  <2>2. IndexShaped(RecomputeGraph(dropped, left))
    BY <2>1, RecomputeGraphShape
  <2>3. QED
    BY <2>2, RefreshShape DEF RemoveIndex
<1>4. QED
  BY <1>1, <1>2, <1>3

(***************************************************************************)
(* Transactions.                                                           *)
(***************************************************************************)
\* The content a transaction leaves, for each kind of operation.
LEMMA CommittedCases ==
  ASSUME NEW b \in Branch, NEW q \in Request
  PROVE  /\ q.op = "save" => Committed(b, q) = [b EXCEPT !.nodes = Merge(b.nodes, q.docs)]
         /\ q.op = "delete" => Committed(b, q) = [b EXCEPT !.nodes = Removed(b.nodes, q.id, q.parents)]
         /\ q.op = "lean_project" => Committed(b, q) = [b EXCEPT !.project = q.project]
         /\ q.op = "latex_project" => Committed(b, q) = [b EXCEPT !.latex = q.latex]
         /\ q.op = "import" =>
              Committed(b, q) = [b EXCEPT !.nodes = Merge(b.nodes, q.docs),
                                          !.project = q.project, !.latex = q.latex]
BY DEF Committed, Branch

\* What a handler has established about the transaction it sends.
Sound(s, q) ==
  LET after == Committed(snapshot[s], q)
  IN  /\ q \in Request
      /\ q.base = snapshot[s].version
      /\ q.op = "delete" => q.id \in Ids /\ q.parents = referrers[s][q.id]
      /\ q.op = "import" => Live(snapshot[s].nodes) = {}
      /\ ValidGraph(snapshot[s].nodes, snapshot[s].project) =>
           ValidGraph(after.nodes, after.project)

LEMMA CommittedType ==
  ASSUME NEW b \in Branch, NEW q \in Request,
         q.op = "delete" => q.id \in Ids /\ q.parents = ReferrersOf(b.nodes)[q.id]
  PROVE  Committed(b, q) \in Branch
<1>1. b.nodes \in Graph /\ q.docs \in Graph
  BY DEF Branch, Request
<1>2. Merge(b.nodes, q.docs) \in Graph
  BY <1>1, GraphTypes
<1>3. q.op = "delete" => Removed(b.nodes, q.id, q.parents) \in Graph
  BY <1>1, GraphTypes
<1>4. q.op \in Ops /\ q.project \in Projects /\ q.latex \in LatexProjects
  BY DEF Request
<1>5. /\ \A n \in Graph : [b EXCEPT !.nodes = n] \in Branch
      /\ \A p \in Projects : [b EXCEPT !.project = p] \in Branch
      /\ \A l \in LatexProjects : [b EXCEPT !.latex = l] \in Branch
  BY DEF Branch
<1>6. CASE q.op = "save"
  BY <1>2, <1>5, <1>6, CommittedCases
<1>7. CASE q.op = "delete"
  BY <1>3, <1>5, <1>7, CommittedCases
<1>8. CASE q.op = "lean_project"
  BY <1>4, <1>5, <1>8, CommittedCases
<1>9. CASE q.op = "latex_project"
  BY <1>4, <1>5, <1>9, CommittedCases
<1>10. CASE q.op = "import"
  <2> DEFINE after == [b EXCEPT !.nodes = Merge(b.nodes, q.docs),
                                !.project = q.project, !.latex = q.latex]
  <2>1. after \in Branch
    BY <1>2, <1>4 DEF Branch
  <2>2. Committed(b, q) = after
    BY <1>10, CommittedCases
  <2>3. QED
    BY <2>1, <2>2
<1>11. QED
  BY <1>4, <1>6, <1>7, <1>8, <1>9, <1>10 DEF Ops

\* Sending a sound transaction from a fresh or a loaded handler.
LEMMA SendInductive ==
  ASSUME Inductive, NEW s \in Services, NEW c \in Clients, NEW q,
         Serving(s, c), Sound(s, q), Send(s, q), minted' \in SUBSET Ids
  PROVE  Inductive'
<1> DEFINE w0 == [owner |-> s, req |-> q]
<1> USE DEF Inductive
<1>1. /\ wire' = wire \cup {w0}
      /\ handler' = [handler EXCEPT ![s] = [stage |-> "commit", req |-> q]]
      /\ UNCHANGED <<db, snapshot, referrers, index, seen>>
  BY DEF Send
<1>2. /\ q \in Request /\ q.base \in Nat /\ q.base = snapshot[s].version
      /\ w0 \in [owner : Services \cup {Nobody}, req : Request]
  BY DEF Sound, Request
<1>3. handler[s].stage \in {"idle", "loaded"}
  BY DEF Serving, Loaded, Idle
<1>4. TypeOK'
  <2>1. [stage |-> "commit", req |-> q] \in Handler
    BY <1>2 DEF Handler
  <2>2. wire' \in SUBSET [owner : Services \cup {Nobody}, req : Request]
    BY <1>1, <1>2 DEF TypeOK
  <2>3. handler' \in [Services -> Handler]
    BY <1>1, <2>1 DEF TypeOK
  <2>4. QED
    BY <1>1, <2>2, <2>3 DEF TypeOK
<1>5. GraphStaysValid' /\ SnapshotCoherent' /\ ProjectionsShaped'
  BY <1>1 DEF GraphStaysValid, SnapshotCoherent, ProjectionsShaped
<1>6. \A t \in Services :
        handler'[t] = IF t = s THEN [stage |-> "commit", req |-> q] ELSE handler[t]
  BY <1>1 DEF TypeOK
<1>7. VersionsBounded'
  BY <1>1, <1>2, <1>6 DEF VersionsBounded
<1>8. OwnersWait'
  <2>1. \A w \in wire : w.owner # s
    BY <1>3 DEF OwnersWait
  <2>2. QED
    BY <1>1, <1>6, <2>1 DEF OwnersWait
<1>9. \A t \in Services : HandlerAgrees(t)'
  BY <1>1, <1>2, <1>6 DEF HandlerAgrees, Sound
<1>10. WireStaysValid'
  <2>1. ASSUME q.base = db.version
        PROVE  /\ Committed(db, q) \in Branch
               /\ ValidGraph(Committed(db, q).nodes, Committed(db, q).project)
    <3>1. snapshot[s] = db
      BY <2>1, <1>2 DEF SnapshotCoherent
    <3>2. referrers[s] = ReferrersOf(db.nodes)
      BY <3>1 DEF ProjectionsShaped
    <3>3. Committed(db, q) \in Branch
      BY <1>2, <3>1, <3>2, CommittedType DEF Sound, TypeOK
    <3>4. QED
      BY <3>1, <3>3 DEF Sound, GraphStaysValid
  <2>2. QED
    BY <1>1, <2>1 DEF WireStaysValid
<1>11. QED
  BY <1>4, <1>5, <1>7, <1>8, <1>9, <1>10

(***************************************************************************)
(* Steps that touch neither the head nor the transactions' contents.       *)
(***************************************************************************)
\* After the step no transaction waits for s, and the others are unchanged.
Freed(s) ==
  \A w \in wire' :
    /\ w \in [owner : Services \cup {Nobody}, req : Request]
    /\ w.owner # s
    /\ \E v \in wire : v.req = w.req /\ (w.owner # Nobody => v = w)

LEMMA FreedLemma ==
  ASSUME Inductive, NEW s \in Services,
         \/ wire' = Orphaned(s)
         \/ wire' = wire /\ handler[s].stage # "commit"
         \/ \E w \in wire : w.owner = s /\ wire' = wire \ {w}
  PROVE  Freed(s)
<1> USE DEF Inductive
<1>1. CASE wire' = Orphaned(s)
  <2> SUFFICES ASSUME NEW v \in wire,
                      NEW w, w = IF v.owner = s THEN [v EXCEPT !.owner = Nobody] ELSE v
               PROVE  /\ w \in [owner : Services \cup {Nobody}, req : Request]
                      /\ w.owner # s
                      /\ v.req = w.req /\ (w.owner # Nobody => v = w)
    BY <1>1 DEF Orphaned, Freed
  <2>1. v \in [owner : Services \cup {Nobody}, req : Request]
    BY DEF TypeOK
  <2>2. QED
    BY <2>1, BranchStoreAssumption
<1>2. CASE wire' = wire /\ handler[s].stage # "commit"
  BY <1>2 DEF OwnersWait, TypeOK, Freed
<1>3. ASSUME NEW w \in wire, w.owner = s, wire' = wire \ {w}
      PROVE  Freed(s)
  <2> SUFFICES ASSUME NEW x \in wire, x # w
               PROVE  /\ x \in [owner : Services \cup {Nobody}, req : Request]
                      /\ x.owner # s
    BY <1>3 DEF Freed
  <2>1. /\ w \in [owner : Services \cup {Nobody}, req : Request]
        /\ x \in [owner : Services \cup {Nobody}, req : Request]
    BY DEF TypeOK
  <2>2. x.owner = s => x.req = w.req
    BY <1>3 DEF OwnersWait
  <2>3. QED
    BY <1>3, <2>1, <2>2
<1>4. QED
  BY <1>1, <1>2, <1>3

\* The service's own handler ends, with or without a new snapshot.
LEMMA HandlerEnds ==
  ASSUME Inductive, NEW s \in Services, Freed(s),
         handler' = [handler EXCEPT ![s] = Idle],
         UNCHANGED db,
         snapshot' \in [Services -> Branch], seen' \in [Clients -> Seen],
         minted' \in SUBSET Ids,
         referrers' \in [Services -> [Ids -> SUBSET Ids]],
         DOMAIN index' = Services,
         \A t \in Services \ {s} : /\ snapshot'[t] = snapshot[t]
                                   /\ referrers'[t] = referrers[t]
                                   /\ index'[t] = index[t],
         snapshot'[s].version <= db.version,
         snapshot'[s].version = db.version => snapshot'[s] = db,
         IndexShaped(index'[s]),
         referrers'[s] = ReferrersOf(snapshot'[s].nodes)
  PROVE  Inductive'
<1> USE DEF Inductive
<1>0. Idle.stage = "idle"
  BY DEF Idle
<1>1. \A t \in Services : handler'[t] = IF t = s THEN Idle ELSE handler[t]
  BY DEF TypeOK
<1>2. \A w \in wire' :
        /\ w \in [owner : Services \cup {Nobody}, req : Request]
        /\ w.owner # s
        /\ \E v \in wire : v.req = w.req /\ (w.owner # Nobody => v = w)
  BY DEF Freed
<1>3. TypeOK'
  <2>1. Idle \in Handler
    BY DEF Handler
  <2>2. wire' \in SUBSET [owner : Services \cup {Nobody}, req : Request]
    BY <1>2
  <2>3. handler' \in [Services -> Handler]
    BY <2>1 DEF TypeOK
  <2>4. QED
    BY <2>2, <2>3 DEF TypeOK
<1>4. GraphStaysValid'
  BY DEF GraphStaysValid
<1>5. SnapshotCoherent'
  BY DEF SnapshotCoherent
<1>6. VersionsBounded'
  <2>1. \A t \in Services :
          /\ snapshot'[t].version <= db.version
          /\ handler'[t].stage = "replied" => handler'[t].version <= db.version
    BY <1>0, <1>1 DEF VersionsBounded
  <2>2. \A w \in wire' : w.req.base <= db.version
    BY <1>2 DEF VersionsBounded
  <2>3. QED
    BY <2>1, <2>2 DEF VersionsBounded
<1>7. ProjectionsShaped'
  <2>1. \A t \in Services : /\ IndexShaped(index'[t])
                            /\ referrers'[t] = ReferrersOf(snapshot'[t].nodes)
    BY DEF ProjectionsShaped, IndexShaped
  <2>2. QED
    BY <2>1 DEF ProjectionsShaped, IndexShaped, NoIndex
<1>8. OwnersWait'
  BY <1>1, <1>2, BranchStoreAssumption DEF OwnersWait
<1>9. \A t \in Services : HandlerAgrees(t)'
  <2> TAKE t \in Services
  <2>1. CASE t = s
    BY <1>0, <1>1, <2>1 DEF HandlerAgrees
  <2>2. CASE t # s
    <3>1. /\ handler'[t] = handler[t] /\ snapshot'[t] = snapshot[t]
          /\ referrers'[t] = referrers[t] /\ db' = db
      BY <1>1, <2>2
    <3>2. HandlerAgrees(t)
      OBVIOUS
    <3>3. QED
      BY <3>1, <3>2, Zenon DEF HandlerAgrees, Committed
  <2>3. QED
    BY <2>1, <2>2
<1>10. WireStaysValid'
  BY <1>2 DEF WireStaysValid
<1>11. QED
  BY <1>3, <1>4, <1>5, <1>6, <1>7, <1>8, <1>9, <1>10

\* Replies that need no transaction.
LEMMA RespondInductive ==
  ASSUME Inductive, NEW s \in Services, NEW c \in Clients,
         NEW i \in Ids \cup {NoId}, Serving(s, c), Respond(s, c, i)
  PROVE  Inductive'
<1> USE DEF Inductive
<1>1. handler[s].stage \in {"idle", "loaded"}
  BY DEF Serving, Loaded, Idle
<1>2. snapshot[s] \in Branch /\ snapshot[s].version \in Nat
  BY DEF TypeOK, Branch
<1>3. i # NoId => i \in Ids /\ snapshot[s].nodes[i] \in Node \cup {NoNode}
  BY <1>2 DEF Branch, Graph
<1>4. [version |-> snapshot[s].version, id |-> i,
       rev |-> IF i = NoId THEN NoNode ELSE snapshot[s].nodes[i]] \in Seen
  BY <1>2, <1>3 DEF Seen
<1>5. seen' \in [Clients -> Seen]
  BY <1>4 DEF Respond, TypeOK
<1>6. /\ handler' = [handler EXCEPT ![s] = Idle]
      /\ UNCHANGED <<db, minted, wire, snapshot, referrers, index>>
  BY DEF Respond
<1>7. /\ snapshot[s].version <= db.version
      /\ snapshot[s].version = db.version => snapshot[s] = db
      /\ IndexShaped(index[s])
      /\ referrers[s] = ReferrersOf(snapshot[s].nodes)
      /\ minted \in SUBSET Ids
      /\ snapshot \in [Services -> Branch]
      /\ referrers \in [Services -> [Ids -> SUBSET Ids]]
      /\ DOMAIN index = Services
  BY DEF VersionsBounded, SnapshotCoherent, ProjectionsShaped, TypeOK, IndexShaped
<1>8. Freed(s)
  BY <1>1, <1>6, FreedLemma
<1>9. QED
  BY <1>5, <1>6, <1>7, <1>8, HandlerEnds

LEMMA Current ==
  ASSUME Inductive, NEW s \in Services
  PROVE  /\ snapshot[s].version <= db.version
         /\ snapshot[s].version = db.version => snapshot[s] = db
         /\ IndexShaped(index[s])
         /\ referrers[s] = ReferrersOf(snapshot[s].nodes)
         /\ minted \in SUBSET Ids
         /\ seen \in [Clients -> Seen]
         /\ db \in Branch /\ db.version \in Nat /\ db.nodes \in Graph
         /\ snapshot \in [Services -> Branch]
         /\ snapshot[s] \in Branch /\ snapshot[s].version \in Nat
         /\ snapshot[s].nodes \in Graph
         /\ referrers \in [Services -> [Ids -> SUBSET Ids]]
         /\ DOMAIN index = Services
BY DEF Inductive, VersionsBounded, SnapshotCoherent, ProjectionsShaped, TypeOK,
       IndexShaped, Branch

LEMMA RestartInductive ==
  ASSUME Inductive, NEW s \in Services, Restart(s)
  PROVE  Inductive'
<1>1. Freed(s)
  BY FreedLemma DEF Restart
<1>2. /\ snapshot' \in [Services -> Branch] /\ snapshot'[s] = db
      /\ referrers' \in [Services -> [Ids -> SUBSET Ids]]
      /\ referrers'[s] = ReferrersOf(db.nodes)
  BY Current, GraphTypes DEF Restart
<1>3. DOMAIN index' = Services /\ IndexShaped(index'[s])
  BY Current, IndexShapes DEF Restart
<1>4. \A t \in Services \ {s} : /\ snapshot'[t] = snapshot[t]
                                /\ referrers'[t] = referrers[t]
                                /\ index'[t] = index[t]
  BY Current DEF Restart
<1>5. /\ handler' = [handler EXCEPT ![s] = Idle]
      /\ UNCHANGED <<db, minted, seen>>
  BY DEF Restart
<1>6. /\ seen' \in [Clients -> Seen] /\ minted' \in SUBSET Ids
      /\ snapshot'[s].version <= db.version
  BY <1>2, <1>5, Current
<1>7. QED
  BY <1>1, <1>2, <1>3, <1>4, <1>5, <1>6, HandlerEnds

LEMMA AbandonInductive ==
  ASSUME Inductive, NEW s \in Services, Abandon(s)
  PROVE  Inductive'
<1>1. Freed(s)
  BY FreedLemma DEF Abandon
<1>2. QED
  BY <1>1, Current, HandlerEnds DEF Abandon

\* A transaction that never commits: refused by the database or lost.
LEMMA DroppedInductive ==
  ASSUME Inductive, NEW w \in wire, Conflict(w) \/ Lose(w)
  PROVE  Inductive'
<1>1. CASE w.owner = Nobody
  <2>1. handler' = handler /\ wire' = wire \ {w}
    BY <1>1 DEF Conflict, Lose, Answer
  <2>2. UNCHANGED <<db, minted, snapshot, referrers, index, seen>>
    BY DEF Conflict, Lose
  <2>3. TypeOK' /\ GraphStaysValid' /\ SnapshotCoherent' /\ VersionsBounded'
    BY <2>1, <2>2 DEF Inductive, TypeOK, GraphStaysValid, SnapshotCoherent,
                      VersionsBounded
  <2>4. ProjectionsShaped' /\ OwnersWait' /\ WireStaysValid'
    BY <2>1, <2>2 DEF Inductive, ProjectionsShaped, OwnersWait, WireStaysValid
  <2>5. \A s \in Services : HandlerAgrees(s)'
    BY <2>1, <2>2 DEF Inductive, HandlerAgrees
  <2>6. QED
    BY <2>3, <2>4, <2>5 DEF Inductive
<1>2. CASE w.owner # Nobody
  <2>1. w.owner \in Services
    BY <1>2 DEF Inductive, TypeOK
  <2>2. /\ handler' = [handler EXCEPT ![w.owner] = Idle]
        /\ wire' = wire \ {w}
        /\ UNCHANGED <<db, minted, snapshot, referrers, index, seen>>
    BY <1>2 DEF Conflict, Lose, Answer
  <2>3. Freed(w.owner)
    BY <2>1, <2>2, FreedLemma
  <2>4. QED
    BY <2>1, <2>2, <2>3, Current, HandlerEnds
<1>3. QED
  BY <1>1, <1>2

\* Service::read reloads and goes on as the handler of client c.
LEMMA LoadInductive ==
  ASSUME Inductive, NEW s \in Services, NEW c \in Clients, Load(s, c)
  PROVE  Inductive'
<1> USE DEF Inductive
<1>1. /\ snapshot' = [snapshot EXCEPT ![s] = db]
      /\ referrers' = [referrers EXCEPT ![s] = ReferrersOf(db.nodes)]
      /\ index' = [index EXCEPT ![s] = Recompute(db.nodes, db.project)]
      /\ handler' = [handler EXCEPT ![s] = Loaded(c)]
      /\ handler[s].stage = "idle"
      /\ UNCHANGED <<db, minted, wire, seen>>
  BY DEF Load, Idle
<1>2. Loaded(c) \in Handler /\ Loaded(c).stage = "loaded"
  BY DEF Loaded, Handler
<1>3. ReferrersOf(db.nodes) \in [Ids -> SUBSET Ids]
  BY Current, GraphTypes
<1>4. \A t \in Services :
        /\ handler'[t] = IF t = s THEN Loaded(c) ELSE handler[t]
        /\ snapshot'[t] = IF t = s THEN db ELSE snapshot[t]
        /\ referrers'[t] = IF t = s THEN ReferrersOf(db.nodes) ELSE referrers[t]
        /\ index'[t] = IF t = s THEN Recompute(db.nodes, db.project) ELSE index[t]
  BY <1>1, Current DEF TypeOK
<1>5. TypeOK'
  <2>1. /\ handler' \in [Services -> Handler]
        /\ referrers' \in [Services -> [Ids -> SUBSET Ids]]
        /\ snapshot' \in [Services -> Branch]
    BY <1>1, <1>2, <1>3, Current DEF TypeOK
  <2>2. QED
    BY <1>1, <2>1 DEF TypeOK
<1>6. GraphStaysValid' /\ SnapshotCoherent' /\ WireStaysValid'
  BY <1>1, <1>4 DEF GraphStaysValid, SnapshotCoherent, WireStaysValid
<1>7. VersionsBounded'
  <2>1. \A t \in Services :
          /\ snapshot'[t].version <= db.version
          /\ handler'[t].stage = "replied" => handler'[t].version <= db.version
    BY <1>2, <1>4, Current DEF VersionsBounded
  <2>2. QED
    BY <1>1, <2>1 DEF VersionsBounded
<1>8. ProjectionsShaped'
  <2>1. \A t \in Services : /\ IndexShaped(index'[t])
                            /\ referrers'[t] = ReferrersOf(snapshot'[t].nodes)
    BY <1>4, Current, IndexShapes
  <2>2. DOMAIN index' = Services
    BY <1>1, Current
  <2>3. QED
    BY <2>1, <2>2 DEF ProjectionsShaped, IndexShaped, NoIndex
<1>9. OwnersWait'
  BY <1>1, <1>4 DEF OwnersWait
<1>10. \A t \in Services : HandlerAgrees(t)'
  <2> TAKE t \in Services
  <2>1. CASE t = s
    BY <1>2, <1>4, <2>1 DEF HandlerAgrees
  <2>2. CASE t # s
    <3>1. /\ handler'[t] = handler[t] /\ snapshot'[t] = snapshot[t]
          /\ referrers'[t] = referrers[t] /\ db' = db
      BY <1>1, <1>4, <2>2
    <3>2. HandlerAgrees(t)
      OBVIOUS
    <3>3. QED
      BY <3>1, <3>2, Zenon DEF HandlerAgrees, Committed
  <2>3. QED
    BY <2>1, <2>2
<1>11. QED
  BY <1>5, <1>6, <1>7, <1>8, <1>9, <1>10

(***************************************************************************)
(* The database accepts a transaction; its service takes it over.          *)
(***************************************************************************)
LEMMA CommitInductive ==
  ASSUME Inductive, NEW w \in wire, Commit(w)
  PROVE  Inductive'
<1> DEFINE after == Committed(db, w.req)
<1> DEFINE reply(v) == [stage |-> "replied", req |-> w.req, version |-> v]
<1> USE DEF Inductive
<1>1. PICK v \in {db.version, db.version + 1} :
        /\ v = db.version => after = db
        /\ db' = [after EXCEPT !.version = v]
        /\ Answer(w, reply(v))
  BY DEF Commit
<1>2. /\ w.req.base = db.version
      /\ wire' = wire \ {w}
      /\ UNCHANGED <<minted, snapshot, referrers, index, seen>>
  BY DEF Commit
<1>3. /\ w.owner \in Services \cup {Nobody}
      /\ w.req \in Request
      /\ w \in [owner : Services \cup {Nobody}, req : Request]
  BY DEF TypeOK
<1>4. after \in Branch /\ ValidGraph(after.nodes, after.project)
  BY <1>2 DEF WireStaysValid
<1>5. v \in Nat /\ v >= db.version /\ db.version \in Nat
  <2>1. db.version \in Nat
    BY DEF TypeOK, Branch
  <2>2. v = db.version \/ v = db.version + 1
    OBVIOUS
  <2>3. QED
    BY <2>1, <2>2
<1>6. /\ db' \in Branch /\ db'.version = v
      /\ db'.nodes = after.nodes /\ db'.project = after.project
  BY <1>1, <1>4, <1>5 DEF Branch
<1>7. v = db.version => db' = db
  BY <1>1, <1>4 DEF TypeOK, Branch
<1>8. v # db.version => v = db.version + 1
  BY <1>1
<1>9. \A s \in Services :
        handler'[s] = IF s = w.owner THEN reply(v) ELSE handler[s]
  BY <1>1, <1>3, BranchStoreAssumption DEF Answer, TypeOK
<1>10. reply(v) \in Handler /\ reply(v).stage = "replied"
       /\ reply(v).version = v /\ reply(v).req = w.req
  BY <1>3, <1>5 DEF Handler
<1>11. TypeOK'
  <2>1. handler' \in [Services -> Handler]
    BY <1>1, <1>10 DEF Answer, TypeOK
  <2>2. QED
    BY <1>2, <1>6, <2>1 DEF TypeOK
<1>12. GraphStaysValid'
  BY <1>4, <1>6 DEF GraphStaysValid
<1>13. SnapshotCoherent'
  <2> SUFFICES ASSUME NEW s \in Services, snapshot[s].version = db'.version
               PROVE  snapshot[s] = db'
    BY <1>2 DEF SnapshotCoherent
  <2>1. db'.version = db.version
    BY <1>5, <1>6, <1>8, Current
  <2>2. QED
    BY <2>1, <1>6, <1>7, Current
<1>14. VersionsBounded'
  <2>1. \A s \in Services : snapshot'[s].version <= db'.version
    BY <1>2, <1>5, <1>6, Current
  <2>2. \A s \in Services : handler'[s].stage = "replied" => handler'[s].version <= db'.version
    <3> SUFFICES ASSUME NEW s \in Services, handler'[s].stage = "replied"
                 PROVE  handler'[s].version <= db'.version
      OBVIOUS
    <3>1. CASE s = w.owner
      BY <1>5, <1>6, <1>9, <1>10, <3>1
    <3>2. CASE s # w.owner
      <4>1. handler[s] \in Handler /\ handler[s].stage = "replied"
        BY <1>9, <3>2 DEF TypeOK
      <4>2. handler[s].version \in Nat /\ handler[s].version <= db.version
        BY <4>1 DEF Handler, VersionsBounded, Idle
      <4>3. QED
        BY <1>5, <1>6, <1>9, <3>2, <4>2
    <3>3. QED
      BY <3>1, <3>2
  <2>3. \A x \in wire' : x.req.base <= db'.version
    <3> TAKE x \in wire'
    <3>1. x \in wire /\ x.req.base \in Nat
      BY <1>2 DEF TypeOK, Request
    <3>2. QED
      BY <1>5, <1>6, <3>1 DEF VersionsBounded
  <2>4. QED
    BY <2>1, <2>2, <2>3 DEF VersionsBounded
<1>15. ProjectionsShaped'
  <2>1. /\ index' = index /\ referrers' = referrers
        /\ snapshot' = snapshot
    BY <1>2
  <2>2. ProjectionsShaped
    OBVIOUS
  <2>3. QED
    BY <2>1, <2>2, Zenon DEF ProjectionsShaped
<1>16. OwnersWait'
  <2> SUFFICES ASSUME NEW x \in wire, x # w, NEW s \in Services, x.owner = s
               PROVE  handler'[s].stage = "commit" /\ handler'[s].req = x.req
    BY <1>2 DEF OwnersWait
  <2>1. handler[s].stage = "commit" /\ handler[s].req = x.req
    BY DEF OwnersWait
  <2>2. x \in [owner : Services \cup {Nobody}, req : Request]
    BY DEF TypeOK
  <2>3. s # w.owner
    <3> SUFFICES ASSUME s = w.owner PROVE FALSE
      OBVIOUS
    <3>1. x.req = w.req
      BY <2>1 DEF OwnersWait
    <3>2. QED
      BY <1>3, <2>2, <3>1
  <2>4. QED
    BY <1>9, <2>1, <2>3
<1>17. \A s \in Services : HandlerAgrees(s)'
  <2> TAKE s \in Services
  <2>1. CASE s = w.owner
    <3>1. handler[s].stage = "commit" /\ handler[s].req = w.req
      BY <2>1 DEF OwnersWait
    <3>2. snapshot[s].version = db.version
      BY <1>2, <3>1 DEF HandlerAgrees
    <3>3. snapshot[s] = db
      BY <3>2, Current
    <3>4. handler'[s] = reply(v)
      BY <1>9, <2>1
    <3>5. /\ w.req.op = "delete" =>
               w.req.id \in Ids /\ w.req.parents = referrers[s][w.req.id]
          /\ w.req.op = "import" => Live(snapshot[s].nodes) = {}
      BY <3>1 DEF HandlerAgrees
    <3>6. db' = [Committed(snapshot'[s], w.req) EXCEPT !.version = v]
      BY <1>1, <1>2, <3>3
    <3>7. QED
      BY <1>2, <1>10, <3>4, <3>5, <3>6 DEF HandlerAgrees
  <2>2. CASE s # w.owner
    <3>1. handler'[s] = handler[s] /\ snapshot'[s] = snapshot[s]
          /\ referrers'[s] = referrers[s]
      BY <1>2, <1>9, <2>2
    <3>2. handler[s].stage = "replied" /\ handler[s].version = db'.version => db' = db
      <4> SUFFICES ASSUME handler[s].stage = "replied", handler[s].version = db'.version
                   PROVE  db' = db
        OBVIOUS
      <4>1. handler[s].version <= db.version
        BY DEF VersionsBounded
      <4>2. QED
        BY <1>5, <1>6, <1>7, <1>8, <4>1
    <3>3. HandlerAgrees(s)
      OBVIOUS
    <3>4. QED
      BY <3>1, <3>2, <3>3, Zenon DEF HandlerAgrees, Committed
  <2>3. QED
    BY <2>1, <2>2
<1>18. WireStaysValid'
  <2> SUFFICES ASSUME NEW x \in wire, x.req.base = db'.version
               PROVE  LET then == Committed(db', x.req)
                      IN  then \in Branch /\ ValidGraph(then.nodes, then.project)
    BY <1>2 DEF WireStaysValid
  <2>1. x.req.base <= db.version
    BY DEF VersionsBounded
  <2>2. db' = db
    BY <1>5, <1>6, <1>7, <1>8, <2>1
  <2>3. QED
    BY <2>2 DEF WireStaysValid
<1>19. QED
  BY <1>11, <1>12, <1>13, <1>14, <1>15, <1>16, <1>17, <1>18

\* Applying an accepted transaction locally gives what the database computed.
LEMMA ApplyFacts ==
  ASSUME Inductive, NEW s \in Services, Apply(s)
  PROVE  LET q == handler[s].req
             v == handler[s].version
             local == snapshot[s]
             after == Committed(local, q)
             parents == ReferrersOf(local.nodes)[q.id]
             shown == IF q.op = "save" THEN q.read.id ELSE NoId
         IN  /\ handler[s].stage = "replied" /\ q \in Request /\ after \in Branch
             /\ q.op = "delete" => q.id \in Ids /\ q.parents = parents
             /\ v \in Nat /\ v <= db.version
             /\ v = db.version => db = [after EXCEPT !.version = v]
             /\ snapshot' = [snapshot EXCEPT ![s] = [after EXCEPT !.version = v]]
             /\ referrers' = [referrers EXCEPT ![s] = ReferrersOf(after.nodes)]
             /\ DOMAIN index' = Services
             /\ \A t \in Services \ {s} : index'[t] = index[t]
             /\ index'[s] =
                  CASE q.op = "save" ->
                         ApplyIndex(index[s], local.nodes, after.project, q.docs,
                                    ReferrersOf(after.nodes))
                    [] q.op = "delete" ->
                         RemoveIndex(index[s], after.nodes, after.project, q.id, parents)
                    [] q.op = "latex_project" -> index[s]
                    [] OTHER -> Recompute(after.nodes, after.project)
             /\ seen' = [seen EXCEPT ![q.client] =
                  [version |-> v, id |-> shown,
                   rev |-> IF shown = NoId THEN NoNode ELSE after.nodes[shown]]]
             /\ handler' = [handler EXCEPT ![s] = Idle]
             /\ UNCHANGED <<db, minted, wire>>
<1> DEFINE q == handler[s].req
           v == handler[s].version
           local == snapshot[s]
           parents == referrers[s][q.id]
           nodes == CASE q.op = "save" -> Merge(local.nodes, q.docs)
                      [] q.op = "import" -> q.docs
                      [] q.op = "delete" -> Removed(local.nodes, q.id, parents)
                      [] OTHER -> local.nodes
           project == IF q.op \in {"lean_project", "import"}
                      THEN q.project ELSE local.project
           latex == IF q.op \in {"latex_project", "import"}
                    THEN q.latex ELSE local.latex
           links == IF q.op = "save" /\ KeepsShape(local.nodes, q.docs)
                    THEN referrers[s] ELSE ReferrersOf(nodes)
           shown == IF q.op = "save" THEN q.read.id ELSE NoId
           now == [version |-> v, nodes |-> nodes, project |-> project,
                   latex |-> latex]
           after == Committed(local, q)
<1>1. handler[s].stage = "replied" /\ handler[s] \in Handler
  BY DEF Apply, Inductive, TypeOK
<1>2. q \in Request /\ v \in Nat
  BY <1>1 DEF Handler, Idle
<1>3. /\ q.op = "delete" => q.id \in Ids /\ q.parents = parents
      /\ q.op = "import" => Live(local.nodes) = {}
      /\ v = db.version => db = [after EXCEPT !.version = v]
      /\ v <= db.version
  BY <1>1 DEF Inductive, HandlerAgrees, VersionsBounded
<1>4. local \in Branch /\ local.nodes \in Graph
      /\ referrers[s] = ReferrersOf(local.nodes)
  BY Current
<1>5. after \in Branch
  BY <1>2, <1>3, <1>4, CommittedType
<1>6. q.op \in Ops /\ q.docs \in Graph /\ q.project \in Projects
      /\ q.latex \in LatexProjects
  BY <1>2 DEF Request
<1>7. nodes = after.nodes /\ project = after.project /\ latex = after.latex
  <2>0. \A n, p, l :
          /\ [local EXCEPT !.nodes = n].nodes = n
          /\ [local EXCEPT !.nodes = n].project = local.project
          /\ [local EXCEPT !.nodes = n].latex = local.latex
          /\ [local EXCEPT !.project = p].nodes = local.nodes
          /\ [local EXCEPT !.project = p].project = p
          /\ [local EXCEPT !.project = p].latex = local.latex
          /\ [local EXCEPT !.latex = l].nodes = local.nodes
          /\ [local EXCEPT !.latex = l].project = local.project
          /\ [local EXCEPT !.latex = l].latex = l
    BY <1>4 DEF Branch
  <2>1. CASE q.op = "save"
    <3>1. /\ nodes = Merge(local.nodes, q.docs)
          /\ project = local.project /\ latex = local.latex
      BY <2>1
    <3>2. after = [local EXCEPT !.nodes = Merge(local.nodes, q.docs)]
      BY <1>2, <1>4, <2>1, CommittedCases
    <3>3. QED
      BY <2>0, <3>1, <3>2
  <2>2. CASE q.op = "delete"
    <3>1. /\ nodes = Removed(local.nodes, q.id, parents)
          /\ project = local.project /\ latex = local.latex
      BY <2>2
    <3>2. Committed(local, q) = [local EXCEPT !.nodes = Removed(local.nodes, q.id, q.parents)]
      BY <1>2, <1>4, <2>2, CommittedCases
    <3>3. after = [local EXCEPT !.nodes = Removed(local.nodes, q.id, parents)]
      BY <1>3, <2>2, <3>2, Zenon
    <3>4. QED
      BY <2>0, <3>1, <3>3
  <2>3. CASE q.op = "lean_project"
    <3>1. /\ nodes = local.nodes
          /\ project = q.project /\ latex = local.latex
      BY <2>3
    <3>2. after = [local EXCEPT !.project = q.project]
      BY <1>2, <1>4, <2>3, CommittedCases
    <3>3. QED
      BY <2>0, <3>1, <3>2
  <2>4. CASE q.op = "latex_project"
    <3>1. /\ nodes = local.nodes
          /\ project = local.project /\ latex = q.latex
      BY <2>4
    <3>2. after = [local EXCEPT !.latex = q.latex]
      BY <1>2, <1>4, <2>4, CommittedCases
    <3>3. QED
      BY <2>0, <3>1, <3>2
  <2>5. CASE q.op = "import"
    <3>1. \A i \in Ids : local.nodes[i] = NoNode
      BY <1>3, <2>5 DEF Live
    <3>2. Merge(local.nodes, q.docs) = q.docs
      BY <1>6, <3>1 DEF Merge, Graph
    <3>3. /\ nodes = q.docs
          /\ project = q.project /\ latex = q.latex
      BY <2>5
    <3>4. after = [local EXCEPT !.nodes = q.docs, !.project = q.project,
                                !.latex = q.latex]
      <4>1. Committed(local, q) = [local EXCEPT !.nodes = Merge(local.nodes, q.docs),
                                   !.project = q.project, !.latex = q.latex]
        BY <1>2, <1>4, <2>5, CommittedCases
      <4>2. QED
        BY <3>2, <4>1, Zenon
    <3>5. after.nodes = q.docs /\ after.project = q.project /\ after.latex = q.latex
      BY <1>4, <3>4 DEF Branch
    <3>6. QED
      BY <3>3, <3>5
  <2>6. QED
    BY <1>6, <2>1, <2>2, <2>3, <2>4, <2>5 DEF Ops
<1>8. now = [after EXCEPT !.version = v]
  BY <1>5, <1>7 DEF Branch
<1>9. parents = ReferrersOf(local.nodes)[q.id]
  BY <1>4
<1>10. links = ReferrersOf(after.nodes)
  <2>1. links = ReferrersOf(nodes)
    BY <1>4, <1>6, KeepsShapeReferrers
  <2>. QED
    BY <1>7, <2>1
<1>11. /\ snapshot' = [snapshot EXCEPT ![s] = now]
       /\ referrers' = [referrers EXCEPT ![s] = links]
       /\ index' = [index EXCEPT ![s] =
            CASE q.op = "save" ->
                   ApplyIndex(@, local.nodes, project, q.docs, links)
              [] q.op = "delete" -> RemoveIndex(@, nodes, project, q.id, parents)
              [] q.op = "latex_project" -> @
              [] OTHER -> Recompute(nodes, project)]
       /\ seen' = [seen EXCEPT ![q.client] =
            [version |-> v, id |-> shown,
             rev |-> IF shown = NoId THEN NoNode ELSE nodes[shown]]]
       /\ handler' = [handler EXCEPT ![s] = Idle]
       /\ UNCHANGED <<db, minted, wire>>
  BY Zenon DEF Apply
<1>12. DOMAIN index = Services
  BY DEF Inductive, ProjectionsShaped
<1> HIDE DEF nodes, project, latex, links, parents, now, after
<1>13. /\ DOMAIN index' = Services
       /\ \A t \in Services \ {s} : index'[t] = index[t]
       /\ index'[s] =
            CASE q.op = "save" -> ApplyIndex(index[s], local.nodes, project, q.docs, links)
              [] q.op = "delete" -> RemoveIndex(index[s], nodes, project, q.id, parents)
              [] q.op = "latex_project" -> index[s]
              [] OTHER -> Recompute(nodes, project)
  BY <1>11, <1>12
<1>14. /\ snapshot' = [snapshot EXCEPT ![s] = [after EXCEPT !.version = v]]
       /\ referrers' = [referrers EXCEPT ![s] = ReferrersOf(after.nodes)]
  BY <1>8, <1>10, <1>11, Zenon
<1>15. index'[s] =
         CASE q.op = "save" -> ApplyIndex(index[s], local.nodes, after.project, q.docs,
                                          ReferrersOf(after.nodes))
           [] q.op = "delete" -> RemoveIndex(index[s], after.nodes, after.project, q.id,
                                             ReferrersOf(local.nodes)[q.id])
           [] q.op = "latex_project" -> index[s]
           [] OTHER -> Recompute(after.nodes, after.project)
  BY <1>7, <1>9, <1>10, <1>13
<1>16. seen' = [seen EXCEPT ![q.client] =
         [version |-> v, id |-> shown,
          rev |-> IF shown = NoId THEN NoNode ELSE after.nodes[shown]]]
  BY <1>7, <1>11, Zenon
<1>17. q.op = "delete" => q.id \in Ids /\ q.parents = ReferrersOf(local.nodes)[q.id]
  BY <1>3, <1>9
<1>. QED
  BY <1>1, <1>2, <1>3, <1>5, <1>11, <1>13, <1>14, <1>15, <1>16, <1>17 DEF after

LEMMA ApplyInductive ==
  ASSUME Inductive, NEW s \in Services, Apply(s)
  PROVE  Inductive'
<1> DEFINE q == handler[s].req
           v == handler[s].version
           after == Committed(snapshot[s], q)
           now == [after EXCEPT !.version = v]
           shown == IF q.op = "save" THEN q.read.id ELSE NoId
<1>1. /\ handler[s].stage = "replied" /\ q \in Request /\ after \in Branch
      /\ v \in Nat /\ v <= db.version
      /\ v = db.version => db = now
      /\ snapshot' = [snapshot EXCEPT ![s] = now]
      /\ referrers' = [referrers EXCEPT ![s] = ReferrersOf(after.nodes)]
      /\ DOMAIN index' = Services
      /\ \A t \in Services \ {s} : index'[t] = index[t]
      /\ seen' = [seen EXCEPT ![q.client] =
           [version |-> v, id |-> shown,
            rev |-> IF shown = NoId THEN NoNode ELSE after.nodes[shown]]]
      /\ handler' = [handler EXCEPT ![s] = Idle]
      /\ UNCHANGED <<db, minted, wire>>
  BY ApplyFacts
<1>2. IndexShaped(index'[s])
  <2>1. IndexShaped(index[s])
    BY Current
  <2>2. index'[s] =
          CASE q.op = "save" ->
                 ApplyIndex(index[s], snapshot[s].nodes, after.project, q.docs,
                            ReferrersOf(after.nodes))
            [] q.op = "delete" ->
                 RemoveIndex(index[s], after.nodes, after.project, q.id,
                             ReferrersOf(snapshot[s].nodes)[q.id])
            [] q.op = "latex_project" -> index[s]
            [] OTHER -> Recompute(after.nodes, after.project)
    BY ApplyFacts
  <2> HIDE DEF after, q
  <2>. QED
    BY <2>1, <2>2, IndexShapes
<1> HIDE DEF after
<1>3. now \in Branch /\ now.version = v /\ now.nodes = after.nodes /\ after.nodes \in Graph
  BY <1>1 DEF Branch
<1>4. seen' \in [Clients -> Seen]
  <2>1. shown \in Ids \cup {NoId} /\ q.client \in Clients
    BY <1>1 DEF Request, Seen
  <2>2. shown # NoId => after.nodes[shown] \in Node \cup {NoNode}
    BY <1>3, <2>1 DEF Graph
  <2>3. [version |-> v, id |-> shown,
         rev |-> IF shown = NoId THEN NoNode ELSE after.nodes[shown]] \in Seen
    BY <1>1, <2>1, <2>2 DEF Seen
  <2>. QED
    BY <1>1, <2>1, <2>3, Current
<1>5. Freed(s)
  BY <1>1, FreedLemma
<1>6. ReferrersOf(after.nodes) \in [Ids -> SUBSET Ids]
  BY <1>3, GraphTypes
<1> HIDE DEF now
<1>7. /\ snapshot' \in [Services -> Branch] /\ snapshot'[s] = now
      /\ referrers' \in [Services -> [Ids -> SUBSET Ids]]
      /\ referrers'[s] = ReferrersOf(snapshot'[s].nodes)
      /\ minted' \in SUBSET Ids
  BY <1>1, <1>3, <1>6, Current
<1>8. /\ snapshot'[s].version <= db.version
      /\ snapshot'[s].version = db.version => snapshot'[s] = db
  BY <1>1, <1>3, <1>7
<1>9. \A t \in Services \ {s} : /\ snapshot'[t] = snapshot[t]
                                /\ referrers'[t] = referrers[t]
                                /\ index'[t] = index[t]
  BY <1>1, Current
<1>. QED
  BY <1>1, <1>2, <1>4, <1>5, <1>7, <1>8, <1>9, HandlerEnds

(***************************************************************************)
(* The handlers.                                                           *)
(***************************************************************************)
LEMMA TransactionType ==
  ASSUME Inductive, NEW s \in Services, NEW c \in Clients,
         NEW op \in Ops, NEW docs \in Graph
  PROVE  LET q == Transaction(s, c, op, docs)
         IN  /\ q \in Request
             /\ q.op = op /\ q.docs = docs /\ q.base = snapshot[s].version
<1>1. /\ snapshot[s].version \in Nat /\ snapshot[s].project \in Projects
      /\ snapshot[s].latex \in LatexProjects
      /\ seen[c] \in Seen
  BY Current DEF Branch
<1>2. QED
  BY <1>1 DEF Transaction, Request

\* Service::save: the guards of validate_changes make the transaction sound.
LEMMA SaveInductive ==
  ASSUME Inductive, NEW s \in Services, NEW c \in Clients, NEW q \in Request,
         Serving(s, c), q.op = "save", q.base = snapshot[s].version,
         Save(s, q), minted' \in SUBSET Ids
  PROVE  Inductive'
<1> DEFINE local == snapshot[s]
<1>1. local \in Branch /\ local.nodes \in Graph /\ q.docs \in Graph
  BY Current DEF Request
<1>2. Committed(local, q) = [local EXCEPT !.nodes = Merge(local.nodes, q.docs)]
  BY <1>1, CommittedCases
<1>3. /\ Committed(local, q).nodes = Merge(local.nodes, q.docs)
      /\ Committed(local, q).project = local.project
  BY <1>1, <1>2 DEF Branch
<1>4. ValidChanges(local.nodes, local.project, q.docs) /\ Send(s, q)
  BY DEF Save
<1>5. ValidGraph(local.nodes, local.project) =>
        ValidGraph(Committed(local, q).nodes, Committed(local, q).project)
  BY <1>1, <1>3, <1>4, ValidChangesLemma
<1>6. Sound(s, q)
  BY <1>5 DEF Sound
<1>7. QED
  BY <1>4, <1>6, SendInductive

LEMMA OnlyType ==
  /\ \A i \in Ids, node \in Node : Only(i, node) \in Graph
  /\ \A n \in Names : NewNode(n) \in Node
<1>1. EmptyGraph \in Graph
  BY DEF EmptyGraph, Graph
<1>2. \A i \in Ids, node \in Node : Only(i, node) \in Graph
  BY <1>1 DEF Only, Graph
<1>3. \A n \in Names : NewNode(n) \in Node
  <2>1. NoBlock \in Source
    BY DEF Source
  <2>2. \A n \in Names : [name |-> n, lean |-> NoBlock, latex |-> NoBlock,
                          deps |-> {}] \in Node
    BY <2>1 DEF Node
  <2>3. QED
    BY <2>2 DEF NewNode
<1>4. QED
  BY <1>2, <1>3

LEMMA CheckedNode ==
  ASSUME Inductive, NEW s \in Services, NEW c \in Clients, NEW i \in Ids,
         CheckRevision(s, c, i)
  PROVE  snapshot[s].nodes[i] \in Node
BY Current DEF CheckRevision, Graph

LEMMA SaveNodeInductive ==
  ASSUME Inductive, NEW s \in Services, NEW c \in Clients, NEW i \in Ids,
         NEW node \in Node, Serving(s, c), SaveNode(s, c, i, node)
  PROVE  Inductive'
<1>1. Only(i, node) \in Graph
  BY OnlyType
<1>2. minted' \in SUBSET Ids
  BY Current DEF SaveNode
<1>3. "save" \in Ops
  BY DEF Ops
<1>4. QED
  BY <1>1, <1>2, <1>3, TransactionType, SaveInductive DEF SaveNode

LEMMA CreationInductive ==
  ASSUME Inductive, NEW s \in Services, NEW c \in Clients, Creations(s, c)
  PROVE  Inductive'
<1>1. PICK i \in Ids, n \in Names :
        \/ CreateNode(s, c, i, n)
        \/ \E parent \in Ids : CreateChild(s, c, i, n, parent)
  BY DEF Creations
<1>2. /\ Only(i, NewNode(n)) \in Graph
      /\ NewNode(n) \in Node
      /\ minted \cup {i} \in SUBSET Ids
      /\ "save" \in Ops
  BY OnlyType, Current DEF Ops
<1>3. CASE CreateNode(s, c, i, n)
  <2> DEFINE t == Transaction(s, c, "save", Only(i, NewNode(n)))
             read == [version |-> snapshot[s].version, id |-> i, rev |-> NoNode]
             q == [t EXCEPT !.read = read]
  <2>1. t \in Request /\ t.op = "save" /\ t.base = snapshot[s].version
    BY <1>2, TransactionType
  <2>2. read \in Seen
    BY Current DEF Seen
  <2>3. q \in Request /\ q.op = "save" /\ q.base = snapshot[s].version
    BY <2>1, <2>2 DEF Request
  <2>4. Serving(s, c) /\ Save(s, q) /\ minted' = minted \cup {i}
    BY <1>3 DEF CreateNode
  <2>5. QED
    BY <1>2, <2>3, <2>4, SaveInductive
<1>4. ASSUME NEW parent \in Ids, CreateChild(s, c, i, n, parent)
      PROVE  Inductive'
  <2> DEFINE linked == [snapshot[s].nodes[parent] EXCEPT !.deps = @ \cup {i}]
             docs == [Only(i, NewNode(n)) EXCEPT ![parent] = linked]
             q == Transaction(s, c, "save", docs)
  <2>1. Serving(s, c) /\ Save(s, q) /\ minted' = minted \cup {i}
        /\ CheckRevision(s, c, parent)
    BY <1>4 DEF CreateChild
  <2>2. linked \in Node
    BY <2>1, CheckedNode DEF Node
  <2>3. docs \in Graph
    BY <1>2, <2>2 DEF Graph
  <2>4. q \in Request /\ q.op = "save" /\ q.base = snapshot[s].version
    BY <1>2, <2>3, TransactionType
  <2>5. QED
    BY <1>2, <2>1, <2>4, SaveInductive
<1>5. QED
  BY <1>1, <1>3, <1>4

LEMMA SourceEditInductive ==
  ASSUME Inductive, NEW s \in Services, NEW c \in Clients, SourceEdits(s, c)
  PROVE  Inductive'
<1>1. PICK i \in Ids :
        \/ \E lean, latex \in Inputs \cup {NoBlock} : SaveBlocks(s, c, i, lean, latex)
        \/ \E language \in {"lean", "latex"} : DeleteBlock(s, c, i, language)
  BY DEF SourceEdits
<1> DEFINE old == snapshot[s].nodes[i]
<1>2. NoBlock \in Source /\ Inputs \subseteq Source
  BY BranchStoreAssumption DEF Source
<1>3. ASSUME NEW lean \in Inputs \cup {NoBlock}, NEW latex \in Inputs \cup {NoBlock},
             SaveBlocks(s, c, i, lean, latex)
      PROVE  Inductive'
  <2> DEFINE node == [old EXCEPT !.lean = IF lean = NoBlock THEN @ ELSE lean,
                                 !.latex = IF latex = NoBlock THEN @ ELSE latex]
  <2>1. Serving(s, c) /\ CheckRevision(s, c, i) /\ SaveNode(s, c, i, node)
    BY <1>3 DEF SaveBlocks
  <2>2. old \in Node
    BY <2>1, CheckedNode
  <2>3. node \in Node
    BY <1>2, <2>2 DEF Node
  <2>4. QED
    BY <2>1, <2>3, SaveNodeInductive
<1>4. ASSUME NEW language \in {"lean", "latex"}, DeleteBlock(s, c, i, language)
      PROVE  Inductive'
  <2> DEFINE node == [old EXCEPT ![language] = NoBlock]
  <2>1. Serving(s, c) /\ CheckRevision(s, c, i) /\ SaveNode(s, c, i, node)
    BY <1>4 DEF DeleteBlock
  <2>2. old \in Node
    BY <2>1, CheckedNode
  <2>3. node \in Node
    <3>1. [old EXCEPT !.lean = NoBlock] \in Node /\ [old EXCEPT !.latex = NoBlock] \in Node
      BY <1>2, <2>2 DEF Node
    <3>2. QED
      BY <3>1
  <2>4. QED
    BY <2>1, <2>3, SaveNodeInductive
<1>5. QED
  BY <1>1, <1>3, <1>4

LEMMA ResolveType ==
  ASSUME Inductive, NEW s \in Services, NEW ref \in Ids \cup Names
  PROVE  Resolve(s, ref) \in Ids \cup {NoId}
BY Current DEF Resolve, IndexShaped

LEMMA LinkEditInductive ==
  ASSUME Inductive, NEW s \in Services, NEW c \in Clients, LinkEdits(s, c)
  PROVE  Inductive'
<1>1. PICK i \in Ids :
        \/ \E ref \in Ids \cup Names : AddDep(s, c, i, ref)
        \/ \E D \in (SUBSET Ids) \ {{}} : RemoveDeps(s, c, i, D)
  BY DEF LinkEdits
<1> DEFINE old == snapshot[s].nodes[i]
<1>2. ASSUME NEW ref \in Ids \cup Names, AddDep(s, c, i, ref)
      PROVE  Inductive'
  <2> DEFINE dep == Resolve(s, ref)
             node == [old EXCEPT !.deps = @ \cup {dep}]
  <2>1. /\ Serving(s, c) /\ CheckRevision(s, c, i) /\ dep # NoId
        /\ Respond(s, c, i) \/ SaveNode(s, c, i, node)
    BY <1>2 DEF AddDep
  <2>2. dep \in Ids
    BY <2>1, ResolveType
  <2>3. old \in Node
    BY <2>1, CheckedNode
  <2>4. node \in Node
    BY <2>2, <2>3 DEF Node
  <2>5. QED
    BY <2>1, <2>4, RespondInductive, SaveNodeInductive
<1>3. ASSUME NEW D \in (SUBSET Ids) \ {{}}, RemoveDeps(s, c, i, D)
      PROVE  Inductive'
  <2> DEFINE node == [old EXCEPT !.deps = @ \ D]
  <2>1. Serving(s, c) /\ CheckRevision(s, c, i) /\ SaveNode(s, c, i, node)
    BY <1>3 DEF RemoveDeps
  <2>2. old \in Node
    BY <2>1, CheckedNode
  <2>3. node \in Node
    BY <2>2 DEF Node
  <2>4. QED
    BY <2>1, <2>3, SaveNodeInductive
<1>4. QED
  BY <1>1, <1>2, <1>3

LEMMA DeleteInductive ==
  ASSUME Inductive, NEW s \in Services, NEW c \in Clients, NEW i \in Ids,
         DeleteNode(s, c, i)
  PROVE  Inductive'
<1> DEFINE local == snapshot[s]
           t == Transaction(s, c, "delete", EmptyGraph)
           q == [t EXCEPT !.id = i, !.parents = referrers[s][i]]
<1>1. t \in Request /\ t.op = "delete" /\ t.base = local.version
  BY GraphTypes, Current, TransactionType DEF Ops
<1>2. referrers[s][i] \in SUBSET Ids
  BY Current
<1>3. /\ q \in Request /\ q.op = "delete" /\ q.base = local.version
      /\ q.id = i /\ q.parents = referrers[s][i]
  BY <1>1, <1>2 DEF Request
<1>4. local \in Branch /\ local.nodes \in Graph
      /\ referrers[s] = ReferrersOf(local.nodes)
  BY Current
<1>5. Committed(local, q) = [local EXCEPT !.nodes = Removed(local.nodes, i, referrers[s][i])]
  <2>1. Committed(local, q) = [local EXCEPT !.nodes = Removed(local.nodes, q.id, q.parents)]
    BY <1>3, <1>4, CommittedCases
  <2>2. QED
    BY <1>3, <2>1, Zenon
<1>6. /\ Committed(local, q).nodes = Removed(local.nodes, i, ReferrersOf(local.nodes)[i])
      /\ Committed(local, q).project = local.project
  BY <1>4, <1>5 DEF Branch
<1>7. ValidGraph(local.nodes, local.project) =>
        ValidGraph(Committed(local, q).nodes, Committed(local, q).project)
  BY <1>4, <1>6, RemovedLemma
<1>8. Sound(s, q)
  BY <1>3, <1>7 DEF Sound
<1>9. Serving(s, c) /\ Send(s, q) /\ minted' \in SUBSET Ids
  BY Current DEF DeleteNode
<1>10. QED
  BY <1>8, <1>9, SendInductive

LEMMA RenameInductive ==
  ASSUME Inductive, NEW s \in Services, NEW c \in Clients, NEW i \in Ids,
         NEW n \in Names, RenameNode(s, c, i, n)
  PROVE  Inductive'
<1> DEFINE nodes == snapshot[s].nodes
           old == nodes[i].name
           docs == [j \in Ids |->
                      IF nodes[j] = NoNode THEN NoNode
                      ELSE IF j = i THEN [nodes[i] EXCEPT !.name = n]
                      ELSE IF Rewritten(nodes[j], old, n) # nodes[j]
                           THEN Rewritten(nodes[j], old, n)
                      ELSE NoNode]
           q == Transaction(s, c, "save", docs)
<1>1. /\ Serving(s, c) /\ CheckRevision(s, c, i)
      /\ Respond(s, c, i) \/ (Save(s, q) /\ UNCHANGED minted)
  BY Zenon DEF RenameNode
<1>2. nodes \in Graph /\ nodes[i] \in Node
  BY <1>1, Current, CheckedNode
<1>3. \A node \in Node : Rewritten(node, old, n) \in Node
  <2>1. \A source \in Source : RenameRefs(source, old, n) \in Source
    BY DEF RenameRefs, Source
  <2>2. QED
    BY <2>1 DEF Rewritten, Node
<1>4. [nodes[i] EXCEPT !.name = n] \in Node
  BY <1>2 DEF Node
<1>5. docs \in Graph
  BY <1>2, <1>3, <1>4 DEF Graph
<1>6. q \in Request /\ q.op = "save" /\ q.base = snapshot[s].version
  BY <1>5, TransactionType DEF Ops
<1>7. minted \in SUBSET Ids
  BY Current
<1>8. QED
  BY <1>1, <1>6, <1>7, RespondInductive, SaveInductive

LEMMA ProjectEditInductive ==
  ASSUME Inductive, NEW s \in Services, NEW c \in Clients, ProjectEdits(s, c)
  PROVE  Inductive'
<1> DEFINE local == snapshot[s]
<1>1. local \in Branch /\ local.nodes \in Graph /\ EmptyGraph \in Graph
  BY Current, GraphTypes
<1>2. CASE ReadProject(s, c)
  BY <1>2, RespondInductive DEF ReadProject
<1>3. ASSUME NEW p \in Projects, PutProject(s, c, p)
      PROVE  Inductive'
  <2> DEFINE t == Transaction(s, c, "lean_project", EmptyGraph)
             q == [t EXCEPT !.project = p]
  <2>1. t \in Request /\ t.op = "lean_project" /\ t.base = local.version
    BY <1>1, TransactionType DEF Ops
  <2>2. /\ q \in Request /\ q.op = "lean_project" /\ q.base = local.version
        /\ q.project = p
    BY <2>1 DEF Request
  <2>3. /\ Serving(s, c) /\ Send(s, q) /\ minted' = minted
        /\ ModulesFree(local.nodes, p)
    BY <1>3 DEF PutProject
  <2> HIDE DEF t, q
  <2>4. Committed(local, q) = [local EXCEPT !.project = p]
    BY <1>1, <2>2, CommittedCases
  <2>5. /\ Committed(local, q).nodes = local.nodes
        /\ Committed(local, q).project = p
    BY <1>1, <2>4 DEF Branch
  <2>6. Sound(s, q)
    BY <2>2, <2>3, <2>5 DEF Sound, ValidGraph
  <2>7. QED
    BY <2>3, <2>6, SendInductive, Current
<1>4. ASSUME NEW l \in LatexProjects, PutLatexProject(s, c, l)
      PROVE  Inductive'
  <2> DEFINE t == Transaction(s, c, "latex_project", EmptyGraph)
             q == [t EXCEPT !.latex = l]
  <2>1. t \in Request /\ t.op = "latex_project" /\ t.base = local.version
    BY <1>1, TransactionType DEF Ops
  <2>2. /\ q \in Request /\ q.op = "latex_project" /\ q.base = local.version
        /\ q.latex = l
    BY <2>1 DEF Request
  <2>3. Serving(s, c) /\ Send(s, q) /\ minted' = minted
    BY <1>4 DEF PutLatexProject
  <2> HIDE DEF t, q
  <2>4. Committed(local, q) = [local EXCEPT !.latex = l]
    BY <1>1, <2>2, CommittedCases
  <2>5. /\ Committed(local, q).nodes = local.nodes
        /\ Committed(local, q).project = local.project
    BY <1>1, <2>4 DEF Branch
  <2>6. Sound(s, q)
    BY <2>2, <2>5 DEF Sound
  <2>7. QED
    BY <2>3, <2>6, SendInductive, Current
<1>5. QED
  BY <1>2, <1>3, <1>4 DEF ProjectEdits

\* An imported graph is the whole of an empty branch's, and its own project's
\* files are checked against its own names.
LEMMA ImportInductive ==
  ASSUME Inductive, NEW s \in Services, NEW c \in Clients, NEW b \in Bundles,
         Import(s, c, b)
  PROVE  Inductive'
<1> DEFINE local == snapshot[s]
           t == Transaction(s, c, "import", b.nodes)
           q == [t EXCEPT !.project = b.project, !.latex = b.latex]
<1>1. /\ b.nodes \in Graph /\ b.project \in Projects /\ b.latex \in LatexProjects
      /\ local \in Branch /\ local.nodes \in Graph
  BY Current, BranchStoreAssumption DEF Content
<1>2. t \in Request /\ t.op = "import" /\ t.base = local.version /\ t.docs = b.nodes
  BY <1>1, TransactionType DEF Ops
<1>3. /\ q \in Request /\ q.op = "import" /\ q.base = local.version
      /\ q.project = b.project /\ q.latex = b.latex /\ q.docs = b.nodes
  BY <1>1, <1>2 DEF Request
<1>4. /\ Serving(s, c) /\ Live(local.nodes) = {} /\ ModulesFree(b.nodes, b.project)
      /\ minted' = minted \cup Live(b.nodes) /\ Save(s, q)
  BY DEF Import
<1>5. ValidChanges(local.nodes, local.project, b.nodes) /\ Send(s, q)
  BY <1>3, <1>4 DEF Save
<1>6. Merge(local.nodes, b.nodes) = b.nodes
  <2>1. \A i \in Ids : local.nodes[i] = NoNode
    BY <1>4 DEF Live
  <2>2. QED
    BY <1>1, <2>1 DEF Merge, Graph
<1>7. /\ Committed(local, q).nodes = b.nodes
      /\ Committed(local, q).project = b.project
  <2>1. Committed(local, q) = [local EXCEPT !.nodes = Merge(local.nodes, q.docs),
                                !.project = q.project, !.latex = q.latex]
    BY <1>1, <1>3, CommittedCases
  <2>2. /\ Committed(local, q).nodes = Merge(local.nodes, q.docs)
        /\ Committed(local, q).project = q.project
    BY <1>1, <2>1 DEF Branch
  <2>3. QED
    BY <1>3, <1>6, <2>2
<1>8. ASSUME ValidGraph(local.nodes, local.project)
      PROVE  ValidGraph(b.nodes, b.project)
  <2>1. ValidGraph(b.nodes, local.project)
    BY <1>1, <1>5, <1>6, <1>8, ValidChangesLemma
  <2>2. QED
    BY <1>4, <2>1 DEF ValidGraph
<1>9. Sound(s, q)
  BY <1>3, <1>4, <1>7, <1>8 DEF Sound
<1>10. minted' \in SUBSET Ids
  BY <1>4, Current DEF Live
<1>11. QED
  BY <1>4, <1>5, <1>9, <1>10, SendInductive

LEMMA HandleInductive ==
  ASSUME Inductive, NEW s \in Services, NEW c \in Clients, Handle(s, c)
  PROVE  Inductive'
<1>1. ASSUME NEW i \in Ids, ReadNode(s, c, i) PROVE Inductive'
  BY <1>1, RespondInductive DEF ReadNode
<1>2. QED
  BY <1>1, CreationInductive, DeleteInductive, RenameInductive,
     SourceEditInductive, LinkEditInductive, ProjectEditInductive,
     ImportInductive DEF Handle

(***************************************************************************)
(* The invariants.                                                         *)
(***************************************************************************)
LEMMA InitInductive ==
  ASSUME Init PROVE Inductive
<1>1. PICK b \in InitialBranches :
        db = [version |-> 1, nodes |-> b.nodes, project |-> b.project,
              latex |-> b.latex]
  BY DEF Init
<1>2. b \in Content /\ ValidGraph(b.nodes, b.project)
  BY BranchStoreAssumption
<1>3. db \in Branch /\ db.version = 1 /\ ValidGraph(db.nodes, db.project)
      /\ db.nodes \in Graph
  BY <1>1, <1>2 DEF Branch, Content
<1>4. /\ minted = Live(db.nodes) /\ wire = {}
      /\ snapshot = [s \in Services |-> db]
      /\ referrers = [s \in Services |-> ReferrersOf(db.nodes)]
      /\ index = [s \in Services |-> Recompute(db.nodes, db.project)]
      /\ handler = [s \in Services |-> Idle]
      /\ seen = [c \in Clients |-> Unread]
  BY DEF Init
<1>5. Idle \in Handler /\ Idle.stage = "idle" /\ Unread \in Seen
  BY DEF Idle, Handler, Unread, Seen
<1>6. TypeOK
  <2>1. ReferrersOf(db.nodes) \in [Ids -> SUBSET Ids]
    BY <1>3, GraphTypes
  <2>2. minted \in SUBSET Ids
    BY <1>4 DEF Live
  <2>3. QED
    BY <1>3, <1>4, <1>5, <2>1, <2>2 DEF TypeOK
<1>7. GraphStaysValid /\ SnapshotCoherent /\ OwnersWait /\ WireStaysValid
  BY <1>3, <1>4 DEF GraphStaysValid, SnapshotCoherent, OwnersWait, WireStaysValid
<1>8. VersionsBounded
  BY <1>3, <1>4, <1>5 DEF VersionsBounded
<1>9. ProjectionsShaped
  <2>1. IndexShaped(Recompute(db.nodes, db.project))
    BY IndexShapes
  <2>2. QED
    BY <1>4, <2>1 DEF ProjectionsShaped, IndexShaped, NoIndex
<1>10. \A s \in Services : HandlerAgrees(s)
  BY <1>4, <1>5 DEF HandlerAgrees
<1>11. QED
  BY <1>6, <1>7, <1>8, <1>9, <1>10 DEF Inductive

LEMMA NextInductive ==
  ASSUME Inductive, [Next]_vars PROVE Inductive'
<1>1. CASE UNCHANGED vars
  <2>1. /\ db' = db /\ minted' = minted /\ wire' = wire /\ snapshot' = snapshot
        /\ referrers' = referrers /\ index' = index /\ handler' = handler
        /\ seen' = seen
    BY <1>1 DEF vars
  <2>2. TypeOK' /\ GraphStaysValid' /\ SnapshotCoherent' /\ VersionsBounded'
    BY <2>1, Zenon DEF Inductive, TypeOK, GraphStaysValid, SnapshotCoherent,
                       VersionsBounded
  <2>3. ProjectionsShaped' /\ OwnersWait' /\ WireStaysValid'
    BY <2>1, Zenon DEF Inductive, ProjectionsShaped, OwnersWait, WireStaysValid,
                       Committed
  <2>4. \A s \in Services : HandlerAgrees(s)'
    BY <2>1, Zenon DEF Inductive, HandlerAgrees, Committed
  <2>5. QED
    BY <2>2, <2>3, <2>4 DEF Inductive
<1>2. ASSUME NEW s \in Services, NEW c \in Clients, Load(s, c) \/ Handle(s, c)
      PROVE  Inductive'
  BY <1>2, LoadInductive, HandleInductive
<1>3. ASSUME NEW s \in Services, Apply(s) \/ Abandon(s) \/ Restart(s)
      PROVE  Inductive'
  BY <1>3, ApplyInductive, AbandonInductive, RestartInductive
<1>4. ASSUME NEW w \in wire, Commit(w) \/ Conflict(w) \/ Lose(w)
      PROVE  Inductive'
  BY <1>4, CommitInductive, DroppedInductive
<1>5. QED
  BY <1>1, <1>2, <1>3, <1>4 DEF Next

\* The inductive invariant holds in every reachable state.
THEOREM InductiveInvariant == Spec => []Inductive
<1>1. Init => Inductive
  BY InitInductive
<1>2. Inductive /\ [Next]_vars => Inductive'
  BY NextInductive
<1>3. QED
  BY <1>1, <1>2, PTL DEF Spec

\* Type correctness of the service and database states.
THEOREM TypeCorrect == Spec => []TypeOK
<1>1. Inductive => TypeOK
  BY DEF Inductive
<1>2. QED
  BY <1>1, InductiveInvariant, PTL

\* However many services and abandoned handlers race, the data-version check
\* of the transactions keeps the branch valid (Service::save, validate_changes).
THEOREM GraphAlwaysValid == Spec => []GraphStaysValid
<1>1. Inductive => GraphStaysValid
  BY DEF Inductive
<1>2. QED
  BY <1>1, InductiveInvariant, PTL

\* A snapshot whose version is the head's is the head, although the service
\* applies its own commits locally and never rereads them (Snapshot::apply).
THEOREM SnapshotsCoherent == Spec => []SnapshotCoherent
<1>1. Inductive => SnapshotCoherent
  BY DEF Inductive
<1>2. QED
  BY <1>1, InductiveInvariant, PTL

\* A transaction on its way, abandoned or not, either names a version that the
\* head has left and is refused, or makes a valid graph (Service::commit).
THEOREM TransactionsStayValid == Spec => []WireStaysValid
<1>1. Inductive => WireStaysValid
  BY DEF Inductive
<1>2. QED
  BY <1>1, InductiveInvariant, PTL

-----------------------------------------------------------------------------
(***************************************************************************)
(* What a transaction does to the content that it is conditioned on.       *)
(***************************************************************************)
\* The edits of NodeGraph, as relations between two graphs.
Created(old, new, i, n) ==
  old[i] = NoNode /\ new = [old EXCEPT ![i] = NewNode(n)]

CreatedUnder(old, new, i, n, parent) ==
  /\ old[i] = NoNode /\ old[parent] # NoNode
  /\ new = [j \in Ids |-> IF j = i THEN NewNode(n)
                          ELSE IF j = parent THEN [old[j] EXCEPT !.deps = @ \cup {i}]
                          ELSE old[j]]

Deleted(old, new, i) ==
  /\ old[i] # NoNode
  /\ new = [j \in Ids |-> IF j = i \/ old[j] = NoNode THEN NoNode
                          ELSE [old[j] EXCEPT !.deps = @ \ {i}]]

Renamed(old, new, i, n) ==
  /\ old[i] # NoNode
  /\ new = [j \in Ids |-> IF j = i THEN [old[i] EXCEPT !.name = n]
                          ELSE IF old[j] = NoNode THEN NoNode
                          ELSE Rewritten(old[j], old[i].name, n)]

Written(old, new, i, lean, text) ==
  /\ old[i] # NoNode
  /\ new = [old EXCEPT ![i] = [@ EXCEPT !.lean = lean, !.latex = text]]

Relinked(old, new, i, D) ==
  old[i] # NoNode /\ new = [old EXCEPT ![i] = [@ EXCEPT !.deps = D]]

Edited(old, new) ==
  \E i \in Ids :
    \/ \E n \in Names : Created(old, new, i, n) \/ Renamed(old, new, i, n)
    \/ \E n \in Names, parent \in Ids \ {i} : CreatedUnder(old, new, i, n, parent)
    \/ Deleted(old, new, i)
    \/ \E lean, text \in Source : Written(old, new, i, lean, text)
    \/ \E D \in SUBSET Ids : Relinked(old, new, i, D)

\* One whole edit of a branch: of its graph, of a project, or an import.
Whole(b, after) ==
  \/ /\ Edited(b.nodes, after.nodes)
     /\ after.project = b.project /\ after.latex = b.latex
  \/ after.nodes = b.nodes /\ after.latex = b.latex
  \/ after.nodes = b.nodes /\ after.project = b.project
  \/ b.nodes = EmptyGraph

\* Every node it overwrites is the one its client read, or follows it.
Guarded(q, old, new) ==
  \A i \in Ids : old[i] # NoNode /\ new[i] # old[i] =>
    \/ q.read.id = i /\ q.read.rev = old[i]
    \/ new[i] # NoNode /\ SideEffect(i, old, new)

ProjectsGuarded(q, b, after) ==
  after.project # b.project \/ after.latex # b.latex =>
    \/ q.op = "import" /\ Live(b.nodes) = {}
    \/ q.read.version = b.version

Kept(b, q, taken) ==
  LET after == Committed(b, q)
  IN  /\ Whole(b, after)
      /\ Guarded(q, b.nodes, after.nodes)
      /\ ProjectsGuarded(q, b, after)
      /\ Live(after.nodes) \subseteq taken

\* Each transaction that the database would still accept is a whole edit of
\* the head, guarded by what its client has read.
SentKept ==
  /\ Live(db.nodes) \subseteq minted
  /\ \A w \in wire : w.req.base = db.version => Kept(db, w.req, minted)

\* The client of a request that a handler is at.
Holds(s, c) ==
  \/ handler[s].stage = "loaded" /\ handler[s].client = c
  \/ handler[s].stage \in {"commit", "replied"} /\ handler[s].req.client = c

\* A client waits for one service, whose snapshot is not older than anything
\* that the client has read.
ReadsKept ==
  /\ \A c \in Clients : seen[c].version <= db.version
  /\ \A s \in Services, c \in Clients : Holds(s, c) =>
       /\ seen[c].version <= snapshot[s].version
       /\ \A t \in Services : Holds(t, c) => t = s
  /\ \A s \in Services : handler[s].stage = "replied" =>
       snapshot[s].version <= handler[s].version

Guards == Inductive /\ SentKept /\ ReadsKept


-----------------------------------------------------------------------------
(***************************************************************************)
(* Whole edits.                                                            *)
(***************************************************************************)
LEMMA CommittedFields ==
  ASSUME NEW b \in Branch, NEW q \in Request
  PROVE  LET after == Committed(b, q)
         IN  /\ q.op = "save" =>
                  /\ after.nodes = Merge(b.nodes, q.docs)
                  /\ after.project = b.project /\ after.latex = b.latex
             /\ q.op = "delete" =>
                  /\ after.nodes = Removed(b.nodes, q.id, q.parents)
                  /\ after.project = b.project /\ after.latex = b.latex
             /\ q.op = "lean_project" => after.nodes = b.nodes /\ after.latex = b.latex
             /\ q.op = "latex_project" => after.nodes = b.nodes /\ after.project = b.project
             /\ q.op = "import" => after.nodes = Merge(b.nodes, q.docs)
<1>2. CASE q.op = "save"
  <2>1. Committed(b, q) = [b EXCEPT !.nodes = Merge(b.nodes, q.docs)]
    BY <1>2, CommittedCases
  <2>. QED
    BY <1>2, <2>1 DEF Branch
<1>3. CASE q.op = "delete"
  <2>1. Committed(b, q) = [b EXCEPT !.nodes = Removed(b.nodes, q.id, q.parents)]
    BY <1>3, CommittedCases
  <2>. QED
    BY <1>3, <2>1 DEF Branch
<1>4. CASE q.op = "lean_project"
  <2>1. Committed(b, q) = [b EXCEPT !.project = q.project]
    BY <1>4, CommittedCases
  <2>. QED
    BY <1>4, <2>1 DEF Branch
<1>5. CASE q.op = "latex_project"
  <2>1. Committed(b, q) = [b EXCEPT !.latex = q.latex]
    BY <1>5, CommittedCases
  <2>. QED
    BY <1>5, <2>1 DEF Branch
<1>6. CASE q.op = "import"
  <2>1. Committed(b, q) = [b EXCEPT !.nodes = Merge(b.nodes, q.docs),
                             !.project = q.project, !.latex = q.latex]
    BY <1>6, CommittedCases
  <2>. QED
    BY <1>6, <2>1 DEF Branch
<1>7. q.op \in Ops
  BY DEF Request
<1>. QED
  BY <1>2, <1>3, <1>4, <1>5, <1>6, <1>7 DEF Ops

LEMMA MergeOne ==
  ASSUME NEW old \in Graph, NEW i \in Ids, NEW node \in Node
  PROVE  Merge(old, Only(i, node)) = [old EXCEPT ![i] = node]
<1>1. \A j \in Ids : Only(i, node)[j] = IF j = i THEN node ELSE NoNode
  BY DEF Only, EmptyGraph
<1>2. \A j \in Ids : Merge(old, Only(i, node))[j] = IF j = i THEN node ELSE old[j]
  BY <1>1, NoNodeAssumption DEF Merge
<1>3. Merge(old, Only(i, node)) = [j \in Ids |-> Merge(old, Only(i, node))[j]]
  BY DEF Merge
<1> HIDE DEF Merge
<1>. QED
  BY <1>2, <1>3 DEF Graph

\* A save that replaces the one node its client has read.
LEMMA KeptSave ==
  ASSUME NEW b \in Branch, NEW q \in Request, NEW i \in Ids, NEW node \in Node,
         NEW taken, Live(b.nodes) \subseteq taken,
         q.op = "save", q.docs = Only(i, node), b.nodes[i] # NoNode,
         q.read.id = i, q.read.rev = b.nodes[i],
         Edited(b.nodes, [b.nodes EXCEPT ![i] = node])
  PROVE  Kept(b, q, taken)
<1> DEFINE after == Committed(b, q)
<1>1. b.nodes \in Graph
  BY DEF Branch
<1>2. /\ after.nodes = [b.nodes EXCEPT ![i] = node]
      /\ after.project = b.project /\ after.latex = b.latex
  BY <1>1, CommittedFields, MergeOne
<1>3. \A j \in Ids : after.nodes[j] = IF j = i THEN node ELSE b.nodes[j]
  BY <1>1, <1>2 DEF Graph
<1>4. Whole(b, after)
  BY <1>2 DEF Whole
<1>5. Guarded(q, b.nodes, after.nodes)
  BY <1>3 DEF Guarded
<1>6. ProjectsGuarded(q, b, after)
  BY <1>2 DEF ProjectsGuarded
<1>7. Live(after.nodes) \subseteq taken
  BY <1>3 DEF Live
<1>. QED
  BY <1>4, <1>5, <1>6, <1>7 DEF Kept

\* A save that adds a node, and perhaps a link to it.
LEMMA KeptCreation ==
  ASSUME NEW b \in Branch, NEW q \in Request, NEW i \in Ids, NEW n \in Names,
         NEW taken, Live(b.nodes) \cup {i} \subseteq taken, b.nodes[i] = NoNode,
         q.op = "save",
         \/ q.docs = Only(i, NewNode(n))
         \/ \E parent \in Ids \ {i} :
              /\ b.nodes[parent] # NoNode
              /\ q.read.id = parent /\ q.read.rev = b.nodes[parent]
              /\ q.docs = [Only(i, NewNode(n)) EXCEPT
                             ![parent] = [b.nodes[parent] EXCEPT !.deps = @ \cup {i}]]
  PROVE  Kept(b, q, taken)
<1> DEFINE after == Committed(b, q)
<1>1. b.nodes \in Graph /\ NewNode(n) \in Node
  BY OnlyType DEF Branch
<1>2. /\ after.nodes = Merge(b.nodes, q.docs)
      /\ after.project = b.project /\ after.latex = b.latex
  BY CommittedFields
<1> SUFFICES /\ Edited(b.nodes, after.nodes)
             /\ Guarded(q, b.nodes, after.nodes)
             /\ Live(after.nodes) \subseteq taken
  BY <1>2 DEF Kept, Whole, ProjectsGuarded
<1>3. CASE q.docs = Only(i, NewNode(n))
  <2>1. after.nodes = [b.nodes EXCEPT ![i] = NewNode(n)]
    BY <1>1, <1>2, <1>3, MergeOne
  <2>2. \A j \in Ids \ {i} : after.nodes[j] = b.nodes[j]
    BY <1>1, <2>1 DEF Graph
  <2>3. Edited(b.nodes, after.nodes)
    BY <2>1 DEF Edited, Created
  <2>. QED
    BY <2>2, <2>3 DEF Guarded, Live
<1>4. ASSUME NEW parent \in Ids \ {i},
             b.nodes[parent] # NoNode,
             q.read.id = parent, q.read.rev = b.nodes[parent],
             q.docs = [Only(i, NewNode(n)) EXCEPT
                         ![parent] = [b.nodes[parent] EXCEPT !.deps = @ \cup {i}]]
      PROVE  /\ Edited(b.nodes, after.nodes)
             /\ Guarded(q, b.nodes, after.nodes)
             /\ Live(after.nodes) \subseteq taken
  <2> DEFINE linked == [b.nodes[parent] EXCEPT !.deps = @ \cup {i}]
  <2>1. b.nodes[parent] \in Node
    BY <1>1, <1>4 DEF Graph
  <2>2. linked \in Node
    BY <2>1 DEF Node
  <2>3. \A j \in Ids : q.docs[j] = IF j = parent THEN linked
                                   ELSE IF j = i THEN NewNode(n) ELSE NoNode
    BY <1>4 DEF Only, EmptyGraph
  <2>4. \A j \in Ids : after.nodes[j] = IF j = parent THEN linked
                                        ELSE IF j = i THEN NewNode(n) ELSE b.nodes[j]
    BY <1>1, <1>2, <2>2, <2>3, NoNodeAssumption DEF Merge
  <2>5. after.nodes = [j \in Ids |-> IF j = i THEN NewNode(n)
                                     ELSE IF j = parent
                                          THEN [b.nodes[j] EXCEPT !.deps = @ \cup {i}]
                                     ELSE b.nodes[j]]
    BY <1>2, <2>4 DEF Merge
  <2>6. CreatedUnder(b.nodes, after.nodes, i, n, parent)
    BY <1>4, <2>5 DEF CreatedUnder
  <2>7. Guarded(q, b.nodes, after.nodes)
    BY <1>4, <2>4 DEF Guarded
  <2>8. Live(after.nodes) \subseteq taken
    BY <1>4, <2>4 DEF Live
  <2>. QED
    BY <2>6, <2>7, <2>8 DEF Edited
<1>. QED
  BY <1>3, <1>4

\* A deletion with the links of all referrers.
LEMMA KeptDelete ==
  ASSUME NEW b \in Branch, NEW q \in Request, NEW i \in Ids,
         NEW taken, Live(b.nodes) \subseteq taken, b.nodes[i] # NoNode,
         q.op = "delete", q.id = i, q.parents = ReferrersOf(b.nodes)[i],
         q.read.id = i, q.read.rev = b.nodes[i]
  PROVE  Kept(b, q, taken)
<1> DEFINE after == Committed(b, q)
           left(j) == [b.nodes[j] EXCEPT !.deps = @ \ {i}]
<1>1. b.nodes \in Graph
  BY DEF Branch
<1>2. /\ after.nodes = Removed(b.nodes, i, ReferrersOf(b.nodes)[i])
      /\ after.project = b.project /\ after.latex = b.latex
  BY CommittedFields
<1>3. \A j \in Live(b.nodes) : j \notin ReferrersOf(b.nodes)[i] => left(j) = b.nodes[j]
  <2> SUFFICES ASSUME NEW j \in Live(b.nodes), j \notin ReferrersOf(b.nodes)[i]
               PROVE  left(j) = b.nodes[j]
    OBVIOUS
  <2>1. b.nodes[j] \in Node /\ i \notin b.nodes[j].deps
    BY <1>1 DEF Live, Graph, ReferrersOf
  <2>. QED
    BY <2>1 DEF Node
<1>4. ReferrersOf(b.nodes)[i] \subseteq Live(b.nodes)
  BY DEF ReferrersOf
<1>5. \A j \in Ids : after.nodes[j] = IF j = i \/ b.nodes[j] = NoNode THEN NoNode ELSE left(j)
  BY <1>2, <1>3, <1>4 DEF Removed, Live
<1>6. \A j \in Live(b.nodes) : left(j) # NoNode
  BY <1>1, NoNodeAssumption DEF Live, Graph, Node
<1> HIDE DEF left
<1>7. Edited(b.nodes, after.nodes)
  <2>1. after.nodes = [j \in Ids |-> IF j = i \/ b.nodes[j] = NoNode THEN NoNode
                                     ELSE left(j)]
    BY <1>2, <1>5 DEF Removed
  <2>. QED
    BY <2>1 DEF Edited, Deleted, left
<1>8. Guarded(q, b.nodes, after.nodes)
  <2> SUFFICES ASSUME NEW j \in Ids \ {i}, b.nodes[j] # NoNode
               PROVE  after.nodes[j] # NoNode /\ SideEffect(j, b.nodes, after.nodes)
    BY DEF Guarded
  <2>1. after.nodes[j] = left(j) /\ after.nodes[i] = NoNode /\ left(j) # NoNode
    BY <1>5, <1>6 DEF Live
  <2>. QED
    BY <2>1 DEF SideEffect, left
<1>9. Live(after.nodes) \subseteq taken
  BY <1>5 DEF Live
<1>. QED
  BY <1>2, <1>7, <1>8, <1>9 DEF Kept, Whole, ProjectsGuarded

LEMMA RewrittenNode ==
  ASSUME NEW node \in Node, NEW old \in Names, NEW n \in Names
  PROVE  Rewritten(node, old, n) \in Node
<1>1. \A source \in Source : RenameRefs(source, old, n) \in Source
  BY DEF RenameRefs, Source
<1>. QED
  BY <1>1 DEF Rewritten, Node

\* A rename with the sources that refer to the old name.
LEMMA KeptRename ==
  ASSUME NEW b \in Branch, NEW q \in Request, NEW i \in Ids, NEW n \in Names,
         NEW taken, Live(b.nodes) \subseteq taken, b.nodes[i] # NoNode,
         q.op = "save", q.read.id = i, q.read.rev = b.nodes[i],
         q.docs = [j \in Ids |->
                     IF b.nodes[j] = NoNode THEN NoNode
                     ELSE IF j = i THEN [b.nodes[i] EXCEPT !.name = n]
                     ELSE IF Rewritten(b.nodes[j], b.nodes[i].name, n) # b.nodes[j]
                          THEN Rewritten(b.nodes[j], b.nodes[i].name, n)
                     ELSE NoNode]
  PROVE  Kept(b, q, taken)
<1> DEFINE after == Committed(b, q)
           named == [b.nodes[i] EXCEPT !.name = n]
           text(j) == Rewritten(b.nodes[j], b.nodes[i].name, n)
<1>1. b.nodes \in Graph /\ b.nodes[i] \in Node
  BY DEF Branch, Graph
<1>2. /\ after.nodes = Merge(b.nodes, q.docs)
      /\ after.project = b.project /\ after.latex = b.latex
  BY CommittedFields
<1>3. named \in Node /\ named.name = n
  BY <1>1 DEF Node
<1>4. \A j \in Live(b.nodes) : text(j) \in Node
  <2> SUFFICES ASSUME NEW j \in Live(b.nodes) PROVE text(j) \in Node
    OBVIOUS
  <2>1. b.nodes[j] \in Node /\ b.nodes[i].name \in Names
    BY <1>1 DEF Live, Graph, Node
  <2>. QED
    BY <2>1, RewrittenNode
<1> HIDE DEF named, text
<1>5. \A j \in Ids : q.docs[j] = IF b.nodes[j] = NoNode THEN NoNode
                                 ELSE IF j = i THEN named
                                 ELSE IF text(j) # b.nodes[j] THEN text(j) ELSE NoNode
  BY DEF named, text
<1>6. \A j \in Ids : after.nodes[j] = IF j = i THEN named
                                      ELSE IF b.nodes[j] = NoNode THEN NoNode ELSE text(j)
  BY <1>2, <1>3, <1>4, <1>5, NoNodeAssumption DEF Merge, Live
<1>7. Edited(b.nodes, after.nodes)
  <2>1. after.nodes = [j \in Ids |-> IF j = i THEN named
                                     ELSE IF b.nodes[j] = NoNode THEN NoNode ELSE text(j)]
    BY <1>2, <1>6 DEF Merge
  <2>. QED
    BY <2>1 DEF Edited, Renamed, named, text
<1>8. Guarded(q, b.nodes, after.nodes)
  <2> SUFFICES ASSUME NEW j \in Ids \ {i}, b.nodes[j] # NoNode
               PROVE  after.nodes[j] # NoNode /\ SideEffect(j, b.nodes, after.nodes)
    BY DEF Guarded
  <2>1. after.nodes[j] = text(j) /\ after.nodes[i] = named
    BY <1>6
  <2>2. text(j) # NoNode /\ named # NoNode
    BY <1>3, <1>4, NoNodeAssumption DEF Live
  <2>3. after.nodes[j] = Rewritten(b.nodes[j], b.nodes[i].name, after.nodes[i].name)
    BY <1>3, <2>1 DEF text
  <2>. QED
    BY <2>1, <2>2, <2>3 DEF SideEffect
<1>9. Live(after.nodes) \subseteq taken
  BY <1>6 DEF Live
<1>. QED
  BY <1>2, <1>7, <1>8, <1>9 DEF Kept, Whole, ProjectsGuarded

LEMMA KeptImport ==
  ASSUME NEW b \in Branch, NEW q \in Request,
         NEW taken, Live(q.docs) \subseteq taken,
         q.op = "import", Live(b.nodes) = {}
  PROVE  Kept(b, q, taken)
<1> DEFINE after == Committed(b, q)
<1>1. b.nodes \in Graph /\ \A i \in Ids : b.nodes[i] = NoNode
  BY DEF Branch, Live
<1>2. b.nodes = EmptyGraph
  BY <1>1 DEF Graph, EmptyGraph
<1>3. after.nodes = Merge(b.nodes, q.docs)
  BY CommittedFields
<1>4. Live(after.nodes) \subseteq taken
  BY <1>1, <1>3 DEF Live, Merge
<1>. QED
  BY <1>1, <1>2, <1>4 DEF Kept, Whole, Guarded, ProjectsGuarded

LEMMA KeptProject ==
  ASSUME NEW b \in Branch, NEW q \in Request,
         NEW taken, Live(b.nodes) \subseteq taken,
         q.op \in {"lean_project", "latex_project"}, q.read.version = b.version
  PROVE  Kept(b, q, taken)
BY CommittedFields DEF Kept, Whole, Guarded, ProjectsGuarded

-----------------------------------------------------------------------------
(***************************************************************************)
(* What a handler does: it answers, or it sends a whole edit.              *)
(***************************************************************************)
Sends(s, c, q) ==
  /\ Send(s, q)
  /\ q \in Request /\ q.client = c /\ q.base = snapshot[s].version
  /\ snapshot[s] = db => Kept(db, q, minted')

Turn(s, c) ==
  /\ minted \subseteq minted'
  /\ (\E i \in Ids \cup {NoId} : Respond(s, c, i)) \/ (\E q : Sends(s, c, q))

\* What a request has that a handler makes of its client's.
LEMMA TransactionFields ==
  ASSUME Inductive, NEW s \in Services, NEW c \in Clients,
         NEW op \in Ops, NEW docs \in Graph
  PROVE  LET q == Transaction(s, c, op, docs)
         IN  /\ q \in Request /\ q.client = c /\ q.base = snapshot[s].version
             /\ q.op = op /\ q.docs = docs /\ q.read = seen[c]
BY TransactionType DEF Transaction

\* A handler of one node's source or links.
LEMMA SaveNodeTurn ==
  ASSUME Inductive, Live(db.nodes) \subseteq minted,
         NEW s \in Services, NEW c \in Clients, NEW i \in Ids, NEW node \in Node,
         CheckRevision(s, c, i), SaveNode(s, c, i, node),
         Edited(snapshot[s].nodes, [snapshot[s].nodes EXCEPT ![i] = node])
  PROVE  Turn(s, c)
<1> DEFINE q == Transaction(s, c, "save", Only(i, node))
<1>1. Only(i, node) \in Graph /\ "save" \in Ops
  BY OnlyType DEF Ops
<1>2. /\ q \in Request /\ q.client = c /\ q.base = snapshot[s].version
      /\ q.op = "save" /\ q.docs = Only(i, node) /\ q.read = seen[c]
  BY <1>1, TransactionFields
<1>3. Send(s, q) /\ minted' = minted
  BY DEF SaveNode, Save
<1> HIDE DEF q
<1>4. ASSUME snapshot[s] = db PROVE Kept(db, q, minted')
  <2>1. /\ db \in Branch /\ db.nodes[i] # NoNode
        /\ q.read.id = i /\ q.read.rev = db.nodes[i]
    BY <1>2, <1>4, Current DEF CheckRevision
  <2>. QED
    BY <1>2, <1>3, <1>4, <2>1, KeptSave
<1>. QED
  BY <1>2, <1>3, <1>4 DEF Turn, Sends

LEMMA CreationTurn ==
  ASSUME Inductive, Live(db.nodes) \subseteq minted,
         NEW s \in Services, NEW c \in Clients, Creations(s, c)
  PROVE  Turn(s, c)
<1>1. PICK i \in Ids, n \in Names :
        \/ CreateNode(s, c, i, n)
        \/ \E parent \in Ids : CreateChild(s, c, i, n, parent)
  BY DEF Creations
<1>2. /\ Only(i, NewNode(n)) \in Graph
      /\ NewNode(n) \in Node
      /\ "save" \in Ops
  BY OnlyType DEF Ops
<1>3. /\ i \notin minted /\ minted' = minted \cup {i}
      /\ db.nodes[i] = NoNode
  BY <1>1 DEF CreateNode, CreateChild, Live
<1>4. CASE CreateNode(s, c, i, n)
  <2> DEFINE t == Transaction(s, c, "save", Only(i, NewNode(n)))
             read == [version |-> snapshot[s].version, id |-> i, rev |-> NoNode]
             q == [t EXCEPT !.read = read]
  <2>1. /\ t \in Request /\ t.client = c /\ t.base = snapshot[s].version
        /\ t.op = "save" /\ t.docs = Only(i, NewNode(n))
    BY <1>2, TransactionFields
  <2>2. read \in Seen
    BY Current DEF Seen
  <2>3. Send(s, q)
    BY <1>4 DEF CreateNode, Save
  <2> HIDE DEF t, read
  <2>4. /\ q \in Request /\ q.client = c /\ q.base = snapshot[s].version
        /\ q.op = "save" /\ q.docs = Only(i, NewNode(n))
    BY <2>1, <2>2 DEF Request
  <2> HIDE DEF q
  <2>5. Kept(db, q, minted')
    BY <1>3, <2>4, Current, KeptCreation
  <2>. QED
    BY <1>3, <2>3, <2>4, <2>5 DEF Turn, Sends
<1>5. ASSUME NEW parent \in Ids, CreateChild(s, c, i, n, parent)
      PROVE  Turn(s, c)
  <2> DEFINE linked == [snapshot[s].nodes[parent] EXCEPT !.deps = @ \cup {i}]
             docs == [Only(i, NewNode(n)) EXCEPT ![parent] = linked]
             q == Transaction(s, c, "save", docs)
  <2>1. Send(s, q) /\ CheckRevision(s, c, parent) /\ i # parent
    BY <1>5 DEF CreateChild, Save
  <2>2. linked \in Node
    BY <2>1, CheckedNode DEF Node
  <2>3. docs \in Graph
    BY <1>2, <2>2 DEF Graph
  <2> HIDE DEF docs
  <2>4. /\ q \in Request /\ q.client = c /\ q.base = snapshot[s].version
        /\ q.op = "save" /\ q.docs = docs /\ q.read = seen[c]
    BY <1>2, <2>3, TransactionFields
  <2> HIDE DEF q
  <2>5. ASSUME snapshot[s] = db PROVE Kept(db, q, minted')
    <3>1. /\ db.nodes[parent] # NoNode /\ parent \in Ids \ {i}
          /\ q.read.id = parent /\ q.read.rev = db.nodes[parent]
      BY <2>1, <2>4, <2>5 DEF CheckRevision
    <3>2. q.docs = [Only(i, NewNode(n)) EXCEPT
                      ![parent] = [db.nodes[parent] EXCEPT !.deps = @ \cup {i}]]
      BY <2>4, <2>5 DEF docs
    <3>3. db \in Branch /\ Live(db.nodes) \cup {i} \subseteq minted'
      BY <1>3, Current
    <3>4. \E k \in Ids \ {i} :
            /\ db.nodes[k] # NoNode
            /\ q.read.id = k /\ q.read.rev = db.nodes[k]
            /\ q.docs = [Only(i, NewNode(n)) EXCEPT
                           ![k] = [db.nodes[k] EXCEPT !.deps = @ \cup {i}]]
      BY <3>1, <3>2
    <3>. QED
      BY <1>3, <2>4, <3>3, <3>4, KeptCreation
  <2>. QED
    BY <1>3, <2>1, <2>4, <2>5 DEF Turn, Sends
<1>. QED
  BY <1>1, <1>4, <1>5

LEMMA DeletionTurn ==
  ASSUME Inductive, Live(db.nodes) \subseteq minted,
         NEW s \in Services, NEW c \in Clients, NEW i \in Ids, DeleteNode(s, c, i)
  PROVE  Turn(s, c)
<1> DEFINE t == Transaction(s, c, "delete", EmptyGraph)
           q == [t EXCEPT !.id = i, !.parents = referrers[s][i]]
<1>1. /\ t \in Request /\ t.client = c /\ t.base = snapshot[s].version
      /\ t.op = "delete" /\ t.read = seen[c]
  BY GraphTypes, Current, TransactionFields DEF Ops
<1>2. referrers[s][i] \in SUBSET Ids
  BY Current
<1>3. /\ Send(s, q) /\ minted' = minted /\ CheckRevision(s, c, i)
  BY DEF DeleteNode
<1> HIDE DEF t
<1>4. /\ q \in Request /\ q.client = c /\ q.base = snapshot[s].version
      /\ q.op = "delete" /\ q.id = i /\ q.parents = referrers[s][i] /\ q.read = seen[c]
  BY <1>1, <1>2 DEF Request
<1> HIDE DEF q
<1>5. ASSUME snapshot[s] = db PROVE Kept(db, q, minted')
  <2>1. /\ db \in Branch /\ db.nodes[i] # NoNode
        /\ q.read.id = i /\ q.read.rev = db.nodes[i]
        /\ q.parents = ReferrersOf(db.nodes)[i]
    BY <1>3, <1>4, <1>5, Current DEF CheckRevision
  <2>. QED
    BY <1>3, <1>4, <2>1, KeptDelete
<1>. QED
  BY <1>3, <1>4, <1>5 DEF Turn, Sends

LEMMA RenamingTurn ==
  ASSUME Inductive, Live(db.nodes) \subseteq minted,
         NEW s \in Services, NEW c \in Clients, NEW i \in Ids,
         NEW n \in Names, RenameNode(s, c, i, n)
  PROVE  Turn(s, c)
<1> DEFINE docs(nodes) == [j \in Ids |->
                      IF nodes[j] = NoNode THEN NoNode
                      ELSE IF j = i THEN [nodes[i] EXCEPT !.name = n]
                      ELSE IF Rewritten(nodes[j], nodes[i].name, n) # nodes[j]
                           THEN Rewritten(nodes[j], nodes[i].name, n)
                      ELSE NoNode]
           q == Transaction(s, c, "save", docs(snapshot[s].nodes))
<1>1. /\ CheckRevision(s, c, i)
      /\ Respond(s, c, i) \/ (Save(s, q) /\ UNCHANGED minted)
  BY Zenon DEF RenameNode
<1>2. snapshot[s].nodes \in Graph /\ snapshot[s].nodes[i] \in Node
  BY <1>1, Current, CheckedNode
<1>3. \A j \in Ids : snapshot[s].nodes[j] # NoNode =>
        Rewritten(snapshot[s].nodes[j], snapshot[s].nodes[i].name, n) \in Node
  <2> SUFFICES ASSUME NEW j \in Ids, snapshot[s].nodes[j] # NoNode
               PROVE  Rewritten(snapshot[s].nodes[j], snapshot[s].nodes[i].name, n) \in Node
    OBVIOUS
  <2>1. snapshot[s].nodes[j] \in Node /\ snapshot[s].nodes[i].name \in Names
    BY <1>2 DEF Graph, Node
  <2>. QED
    BY <2>1, RewrittenNode
<1>4. [snapshot[s].nodes[i] EXCEPT !.name = n] \in Node
  BY <1>2 DEF Node
<1>5. docs(snapshot[s].nodes) \in Graph /\ "save" \in Ops
  BY <1>3, <1>4 DEF Graph, Ops
<1> HIDE DEF docs
<1>6. /\ q \in Request /\ q.client = c /\ q.base = snapshot[s].version
      /\ q.op = "save" /\ q.docs = docs(snapshot[s].nodes) /\ q.read = seen[c]
  BY <1>5, TransactionFields
<1> HIDE DEF q
<1>7. CASE Respond(s, c, i)
  BY <1>7 DEF Respond, Turn
<1>8. CASE Save(s, q) /\ UNCHANGED minted
  <2>1. ASSUME snapshot[s] = db PROVE Kept(db, q, minted')
    <3>1. /\ db \in Branch /\ db.nodes[i] # NoNode
          /\ q.read.id = i /\ q.read.rev = db.nodes[i] /\ q.docs = docs(db.nodes)
      BY <1>1, <1>6, <2>1, Current DEF CheckRevision
    <3>2. Live(db.nodes) \subseteq minted'
      BY <1>8
    <3>. QED
      BY <1>6, <3>1, <3>2, KeptRename DEF docs
  <2>2. Send(s, q)
    BY <1>8 DEF Save
  <2>. QED
    BY <1>6, <1>8, <2>1, <2>2 DEF Turn, Sends
<1>. QED
  BY <1>1, <1>7, <1>8

LEMMA SourceTurn ==
  ASSUME Inductive, Live(db.nodes) \subseteq minted,
         NEW s \in Services, NEW c \in Clients, SourceEdits(s, c)
  PROVE  Turn(s, c)
<1>1. PICK i \in Ids :
        \/ \E lean, latex \in Inputs \cup {NoBlock} : SaveBlocks(s, c, i, lean, latex)
        \/ \E language \in {"lean", "latex"} : DeleteBlock(s, c, i, language)
  BY DEF SourceEdits
<1> DEFINE old == snapshot[s].nodes[i]
           text(lean, latex) == [old EXCEPT !.lean = lean, !.latex = latex]
<1>2. NoBlock \in Source /\ Inputs \subseteq Source
  BY BranchStoreAssumption DEF Source
<1>3. ASSUME CheckRevision(s, c, i), NEW lean \in Source, NEW latex \in Source,
             SaveNode(s, c, i, text(lean, latex))
      PROVE  Turn(s, c)
  <2>1. old \in Node
    BY <1>3, CheckedNode
  <2>2. text(lean, latex) \in Node
    BY <2>1 DEF Node
  <2>3. snapshot[s].nodes \in Graph /\ old # NoNode
    BY <1>3, Current DEF CheckRevision
  <2>4. Written(snapshot[s].nodes, [snapshot[s].nodes EXCEPT ![i] = text(lean, latex)],
                i, lean, latex)
    BY <2>3 DEF Written, Graph
  <2>. QED
    BY <1>3, <2>2, <2>4, SaveNodeTurn DEF Edited
<1>4. old \in Node =>
        /\ \A lean, latex \in Inputs \cup {NoBlock} :
             [old EXCEPT !.lean = IF lean = NoBlock THEN @ ELSE lean,
                         !.latex = IF latex = NoBlock THEN @ ELSE latex]
               = text(IF lean = NoBlock THEN old.lean ELSE lean,
                      IF latex = NoBlock THEN old.latex ELSE latex)
        /\ [old EXCEPT !.lean = NoBlock] = text(NoBlock, old.latex)
        /\ [old EXCEPT !.latex = NoBlock] = text(old.lean, NoBlock)
        /\ old.lean \in Source /\ old.latex \in Source
  BY DEF Node
<1>5. ASSUME NEW lean \in Inputs \cup {NoBlock}, NEW latex \in Inputs \cup {NoBlock},
             SaveBlocks(s, c, i, lean, latex)
      PROVE  Turn(s, c)
  <2>1. /\ CheckRevision(s, c, i)
        /\ SaveNode(s, c, i, [old EXCEPT !.lean = IF lean = NoBlock THEN @ ELSE lean,
                                         !.latex = IF latex = NoBlock THEN @ ELSE latex])
    BY <1>5 DEF SaveBlocks
  <2>2. old \in Node
    BY <2>1, CheckedNode
  <2> DEFINE a == IF lean = NoBlock THEN old.lean ELSE lean
             z == IF latex = NoBlock THEN old.latex ELSE latex
  <2>3. a \in Source /\ z \in Source
    BY <1>2, <1>4, <2>2
  <2>4. SaveNode(s, c, i, text(a, z))
    BY <1>4, <2>1, <2>2, Zenon
  <2>. QED
    BY <1>3, <2>1, <2>3, <2>4
<1>6. ASSUME NEW language \in {"lean", "latex"}, DeleteBlock(s, c, i, language)
      PROVE  Turn(s, c)
  <2>1. CheckRevision(s, c, i) /\ SaveNode(s, c, i, [old EXCEPT ![language] = NoBlock])
    BY <1>6 DEF DeleteBlock
  <2>2. old \in Node
    BY <2>1, CheckedNode
  <2>3. CASE language = "lean"
    <3>1. [old EXCEPT ![language] = NoBlock] = text(NoBlock, old.latex)
      BY <1>4, <2>2, <2>3
    <3>2. SaveNode(s, c, i, text(NoBlock, old.latex))
      BY <2>1, <3>1, Zenon
    <3>. QED
      BY <1>2, <1>3, <1>4, <2>1, <2>2, <3>2
  <2>4. CASE language = "latex"
    <3>1. [old EXCEPT ![language] = NoBlock] = text(old.lean, NoBlock)
      BY <1>4, <2>2, <2>4
    <3>2. SaveNode(s, c, i, text(old.lean, NoBlock))
      BY <2>1, <3>1, Zenon
    <3>. QED
      BY <1>2, <1>3, <1>4, <2>1, <2>2, <3>2
  <2>. QED
    BY <2>3, <2>4
<1>. QED
  BY <1>1, <1>5, <1>6

LEMMA LinkTurn ==
  ASSUME Inductive, Live(db.nodes) \subseteq minted,
         NEW s \in Services, NEW c \in Clients, LinkEdits(s, c)
  PROVE  Turn(s, c)
<1>1. PICK i \in Ids :
        \/ \E ref \in Ids \cup Names : AddDep(s, c, i, ref)
        \/ \E D \in (SUBSET Ids) \ {{}} : RemoveDeps(s, c, i, D)
  BY DEF LinkEdits
<1> DEFINE old == snapshot[s].nodes[i]
           linked(D) == [old EXCEPT !.deps = D]
<1>2. ASSUME CheckRevision(s, c, i), NEW D \in SUBSET Ids, SaveNode(s, c, i, linked(D))
      PROVE  Turn(s, c)
  <2>1. old \in Node
    BY <1>2, CheckedNode
  <2>2. linked(D) \in Node
    BY <2>1 DEF Node
  <2>3. snapshot[s].nodes \in Graph /\ old # NoNode
    BY <1>2, Current DEF CheckRevision
  <2>4. Relinked(snapshot[s].nodes, [snapshot[s].nodes EXCEPT ![i] = linked(D)], i, D)
    BY <2>3 DEF Relinked, Graph
  <2>. QED
    BY <1>2, <2>2, <2>4, SaveNodeTurn DEF Edited
<1>3. ASSUME NEW ref \in Ids \cup Names, AddDep(s, c, i, ref)
      PROVE  Turn(s, c)
  <2> DEFINE dep == Resolve(s, ref)
  <2>1. /\ CheckRevision(s, c, i) /\ dep # NoId
        /\ Respond(s, c, i) \/ SaveNode(s, c, i, linked(old.deps \cup {dep}))
    BY <1>3 DEF AddDep
  <2>2. dep \in Ids
    BY <2>1, ResolveType
  <2>3. old.deps \cup {dep} \in SUBSET Ids
    BY <2>1, <2>2, CheckedNode DEF Node
  <2>4. CASE Respond(s, c, i)
    BY <2>4 DEF Respond, Turn
  <2>. QED
    BY <1>2, <2>1, <2>3, <2>4
<1>4. ASSUME NEW D \in (SUBSET Ids) \ {{}}, RemoveDeps(s, c, i, D)
      PROVE  Turn(s, c)
  <2>1. CheckRevision(s, c, i) /\ SaveNode(s, c, i, linked(old.deps \ D))
    BY <1>4 DEF RemoveDeps
  <2>2. old.deps \ D \in SUBSET Ids
    BY <2>1, CheckedNode DEF Node
  <2>. QED
    BY <1>2, <2>1, <2>2
<1>. QED
  BY <1>1, <1>3, <1>4

LEMMA ProjectTurn ==
  ASSUME Inductive, Live(db.nodes) \subseteq minted,
         NEW s \in Services, NEW c \in Clients, ProjectEdits(s, c)
  PROVE  Turn(s, c)
<1>1. CASE ReadProject(s, c)
  BY <1>1 DEF ReadProject, Respond, Turn
<1>2. ASSUME NEW q, q \in Request, q.client = c, q.base = snapshot[s].version,
             q.op \in {"lean_project", "latex_project"}, q.read = seen[c],
             seen[c].version = snapshot[s].version, Send(s, q), minted' = minted
      PROVE  Turn(s, c)
  <2>1. ASSUME snapshot[s] = db PROVE Kept(db, q, minted')
    BY <1>2, <2>1, Current, KeptProject
  <2>. QED
    BY <1>2, <2>1 DEF Turn, Sends
<1>3. ASSUME NEW p \in Projects, PutProject(s, c, p)
      PROVE  Turn(s, c)
  <2> DEFINE t == Transaction(s, c, "lean_project", EmptyGraph)
             q == [t EXCEPT !.project = p]
  <2>1. /\ t \in Request /\ t.client = c /\ t.base = snapshot[s].version
        /\ t.op = "lean_project" /\ t.read = seen[c]
    BY GraphTypes, Current, TransactionFields DEF Ops
  <2>2. Send(s, q) /\ minted' = minted /\ seen[c].version = snapshot[s].version
    BY <1>3 DEF PutProject
  <2> HIDE DEF t
  <2>3. /\ q \in Request /\ q.client = c /\ q.base = snapshot[s].version
        /\ q.op = "lean_project" /\ q.read = seen[c]
    BY <2>1 DEF Request
  <2> HIDE DEF q
  <2>. QED
    BY <1>2, <2>2, <2>3
<1>4. ASSUME NEW l \in LatexProjects, PutLatexProject(s, c, l)
      PROVE  Turn(s, c)
  <2> DEFINE t == Transaction(s, c, "latex_project", EmptyGraph)
             q == [t EXCEPT !.latex = l]
  <2>1. /\ t \in Request /\ t.client = c /\ t.base = snapshot[s].version
        /\ t.op = "latex_project" /\ t.read = seen[c]
    BY GraphTypes, Current, TransactionFields DEF Ops
  <2>2. Send(s, q) /\ minted' = minted /\ seen[c].version = snapshot[s].version
    BY <1>4 DEF PutLatexProject
  <2> HIDE DEF t
  <2>3. /\ q \in Request /\ q.client = c /\ q.base = snapshot[s].version
        /\ q.op = "latex_project" /\ q.read = seen[c]
    BY <2>1 DEF Request
  <2> HIDE DEF q
  <2>. QED
    BY <1>2, <2>2, <2>3
<1>. QED
  BY <1>1, <1>3, <1>4 DEF ProjectEdits

LEMMA ImportTurn ==
  ASSUME Inductive, Live(db.nodes) \subseteq minted,
         NEW s \in Services, NEW c \in Clients, NEW b \in Bundles, Import(s, c, b)
  PROVE  Turn(s, c)
<1> DEFINE t == Transaction(s, c, "import", b.nodes)
           q == [t EXCEPT !.project = b.project, !.latex = b.latex]
<1>1. b.nodes \in Graph /\ b.project \in Projects /\ b.latex \in LatexProjects
  BY BranchStoreAssumption DEF Content
<1>2. /\ t \in Request /\ t.client = c /\ t.base = snapshot[s].version
      /\ t.op = "import" /\ t.docs = b.nodes
  BY <1>1, TransactionFields DEF Ops
<1>3. /\ Live(snapshot[s].nodes) = {} /\ minted' = minted \cup Live(b.nodes)
      /\ Send(s, q)
  BY DEF Import, Save
<1> HIDE DEF t
<1>4. /\ q \in Request /\ q.client = c /\ q.base = snapshot[s].version
      /\ q.op = "import" /\ q.docs = b.nodes
  BY <1>1, <1>2 DEF Request
<1> HIDE DEF q
<1>5. ASSUME snapshot[s] = db PROVE Kept(db, q, minted')
  BY <1>3, <1>4, <1>5, Current, KeptImport
<1>. QED
  BY <1>3, <1>4, <1>5 DEF Turn, Sends

LEMMA HandleTurn ==
  ASSUME Inductive, Live(db.nodes) \subseteq minted,
         NEW s \in Services, NEW c \in Clients, Handle(s, c)
  PROVE  Serving(s, c) /\ Turn(s, c)
<1>1. ASSUME NEW i \in Ids, ReadNode(s, c, i) PROVE Turn(s, c)
  BY <1>1 DEF ReadNode, Respond, Turn
<1>2. Turn(s, c)
  BY <1>1, CreationTurn, DeletionTurn, RenamingTurn, SourceTurn, LinkTurn,
     ProjectTurn, ImportTurn DEF Handle
<1>3. Serving(s, c)
  BY DEF Handle, ReadNode, Creations, CreateNode, CreateChild, DeleteNode, RenameNode,
         SourceEdits, SaveBlocks, DeleteBlock, LinkEdits, AddDep, RemoveDeps,
         ProjectEdits, ReadProject, PutProject, PutLatexProject, Import
<1>. QED
  BY <1>2, <1>3

-----------------------------------------------------------------------------
(***************************************************************************)
(* Transactions on their way stay whole edits of the head.                 *)
(***************************************************************************)
LEMMA KeptMore ==
  ASSUME NEW b, NEW q, NEW taken, NEW more, taken \subseteq more, Kept(b, q, taken)
  PROVE  Kept(b, q, more)
BY DEF Kept

LEMMA SameSent ==
  ASSUME SentKept, db' = db, minted \subseteq minted',
         \A w \in wire' : \E v \in wire : v.req = w.req
  PROVE  SentKept'
<1>1. Live(db'.nodes) \subseteq minted'
  BY DEF SentKept
<1>2. ASSUME NEW w \in wire', w.req.base = db'.version
      PROVE  Kept(db', w.req, minted')
  <2>1. PICK v \in wire : v.req = w.req
    OBVIOUS
  <2>2. Kept(db, w.req, minted)
    BY <1>2, <2>1 DEF SentKept
  <2>. QED
    BY <2>2, KeptMore
<1>. QED
  BY <1>1, <1>2 DEF SentKept

LEMMA OrphanedRequests ==
  ASSUME Inductive, NEW s \in Services, NEW w \in Orphaned(s)
  PROVE  \E v \in wire : v.req = w.req
<1>1. PICK v \in wire : w = IF v.owner = s THEN [v EXCEPT !.owner = Nobody] ELSE v
  BY DEF Orphaned
<1>2. v \in [owner : Services \cup {Nobody}, req : Request]
  BY DEF Inductive, TypeOK
<1>. QED
  BY <1>1, <1>2

LEMMA SendSent ==
  ASSUME Inductive, SentKept, NEW s \in Services, NEW c \in Clients, NEW q,
         Sends(s, c, q), minted \subseteq minted'
  PROVE  SentKept'
<1>1. /\ wire' = wire \cup {[owner |-> s, req |-> q]} /\ db' = db
      /\ q.base = snapshot[s].version
      /\ snapshot[s] = db => Kept(db, q, minted')
  BY DEF Sends, Send
<1>2. Live(db'.nodes) \subseteq minted'
  BY <1>1 DEF SentKept
<1>3. ASSUME NEW w \in wire', w.req.base = db'.version
      PROVE  Kept(db', w.req, minted')
  <2>1. CASE w \in wire
    BY <1>1, <1>3, <2>1, KeptMore DEF SentKept
  <2>2. CASE w = [owner |-> s, req |-> q]
    <3>1. w.req = q /\ q.base = db.version
      BY <1>1, <1>3, <2>2
    <3>2. snapshot[s] = db
      BY <1>1, <3>1, Current
    <3>. QED
      BY <1>1, <3>1, <3>2
  <2>. QED
    BY <1>1, <2>1, <2>2
<1>. QED
  BY <1>2, <1>3 DEF SentKept

\* What a commit makes of the head.
LEMMA CommitFacts ==
  ASSUME Inductive, NEW w \in wire, Commit(w)
  PROVE  LET after == Committed(db, w.req)
         IN  /\ w.req.base = db.version /\ wire' = wire \ {w}
             /\ minted' = minted /\ snapshot' = snapshot /\ seen' = seen
             /\ db'.nodes = after.nodes /\ db'.project = after.project
             /\ db'.latex = after.latex
             /\ db' \in Branch /\ db'.version >= db.version
             /\ db'.version = db.version => db' = db
             /\ ValidGraph(db'.nodes, db'.project)
             /\ \A s \in Services :
                  handler'[s] = IF s = w.owner
                                THEN [stage |-> "replied", req |-> w.req,
                                      version |-> db'.version]
                                ELSE handler[s]
<1> DEFINE after == Committed(db, w.req)
           reply(v) == [stage |-> "replied", req |-> w.req, version |-> v]
<1>1. PICK v \in {db.version, db.version + 1} :
        /\ v = db.version => after = db
        /\ db' = [after EXCEPT !.version = v]
        /\ Answer(w, reply(v))
  BY DEF Commit
<1>2. /\ w.req.base = db.version /\ wire' = wire \ {w}
      /\ minted' = minted /\ snapshot' = snapshot /\ seen' = seen
  BY DEF Commit
<1>3. after \in Branch /\ ValidGraph(after.nodes, after.project)
  BY <1>2 DEF Inductive, WireStaysValid
<1>4. db \in Branch /\ db.version \in Nat /\ v \in Nat /\ v >= db.version
  BY <1>1 DEF Inductive, TypeOK, Branch
<1>5. /\ db' \in Branch /\ db'.version = v
      /\ db'.nodes = after.nodes /\ db'.project = after.project
      /\ db'.latex = after.latex
  BY <1>1, <1>3, <1>4 DEF Branch
<1>6. v = db.version => db' = db
  BY <1>1, <1>4 DEF Branch
<1>7. \A s \in Services :
        handler'[s] = IF s = w.owner THEN reply(v) ELSE handler[s]
  <2>1. w.owner \in Services \cup {Nobody} /\ handler \in [Services -> Handler]
    BY DEF Inductive, TypeOK
  <2>2. handler' = IF w.owner = Nobody THEN handler
                   ELSE [handler EXCEPT ![w.owner] = reply(v)]
    BY <1>1 DEF Answer
  <2> HIDE DEF reply
  <2>. QED
    BY <2>1, <2>2, BranchStoreAssumption
<1> HIDE DEF after
<1>. QED
  BY <1>2, <1>3, <1>4, <1>5, <1>6, <1>7 DEF after

LEMMA CommitSent ==
  ASSUME Inductive, SentKept, NEW w \in wire, Commit(w)
  PROVE  SentKept'
<1>1. Kept(db, w.req, minted)
  BY CommitFacts DEF SentKept
<1>2. Live(db'.nodes) \subseteq minted'
  BY <1>1, CommitFacts DEF Kept
<1>3. ASSUME NEW x \in wire', x.req.base = db'.version
      PROVE  Kept(db', x.req, minted')
  <2>1. x \in wire /\ minted' = minted /\ db'.version >= db.version
    BY CommitFacts
  <2>2. x.req.base <= db.version /\ db.version \in Nat /\ db'.version \in Nat
    BY <2>1, CommitFacts DEF Inductive, VersionsBounded, TypeOK, Branch
  <2>3. db'.version = db.version
    BY <1>3, <2>1, <2>2
  <2>4. db' = db
    BY <2>3, CommitFacts
  <2>. QED
    BY <1>3, <2>1, <2>4 DEF SentKept
<1>. QED
  BY <1>2, <1>3 DEF SentKept

LEMMA SentNext ==
  ASSUME Inductive, SentKept, [Next]_vars
  PROVE  SentKept'
<1>1. CASE UNCHANGED vars
  BY <1>1, SameSent DEF vars
<1>2. ASSUME NEW s \in Services, NEW c \in Clients, Load(s, c)
      PROVE  SentKept'
  BY <1>2, SameSent DEF Load
<1>3. ASSUME NEW s \in Services, NEW c \in Clients, Handle(s, c)
      PROVE  SentKept'
  <2>1. Turn(s, c)
    BY <1>3, HandleTurn DEF SentKept
  <2>2. ASSUME NEW i, Respond(s, c, i) PROVE SentKept'
    BY <2>2, SameSent DEF Respond
  <2>. QED
    BY <2>1, <2>2, SendSent DEF Turn
<1>4. ASSUME NEW s \in Services, Apply(s) PROVE SentKept'
  <2>1. db' = db /\ minted' = minted /\ wire' = wire
    BY <1>4, Zenon DEF Apply
  <2>. QED
    BY <2>1, SameSent
<1>5. ASSUME NEW s \in Services, Abandon(s) \/ Restart(s) PROVE SentKept'
  <2>1. db' = db /\ minted' = minted /\ wire' = Orphaned(s)
    BY <1>5 DEF Abandon, Restart
  <2>. QED
    BY <2>1, OrphanedRequests, SameSent
<1>6. ASSUME NEW w \in wire, Conflict(w) \/ Lose(w) PROVE SentKept'
  BY <1>6, SameSent DEF Conflict, Lose
<1>. QED
  BY <1>1, <1>2, <1>3, <1>4, <1>5, <1>6, CommitSent DEF Next

-----------------------------------------------------------------------------
(***************************************************************************)
(* Clients do not read backwards.                                          *)
(***************************************************************************)
\* A handler that serves a client is the only one that does, at a snapshot
\* not older than what the client has read.
LEMMA ServingReads ==
  ASSUME Inductive, ReadsKept, NEW s \in Services, NEW c \in Clients, Serving(s, c)
  PROVE  /\ seen[c].version <= snapshot[s].version
         /\ \A t \in Services : Holds(t, c) => t = s
         /\ \A d \in Clients : Holds(s, d) => d = c
         /\ handler[s].stage \in {"idle", "loaded"}
<1>1. CASE handler[s] = Loaded(c)
  <2>1. handler[s].stage = "loaded" /\ handler[s].client = c
    BY <1>1 DEF Loaded
  <2>2. Holds(s, c)
    BY <2>1 DEF Holds
  <2>. QED
    BY <2>1, <2>2 DEF ReadsKept, Holds
<1>2. CASE handler[s] = Idle /\ ClientFree(c) /\ snapshot[s].version = db.version
  <2>1. handler[s].stage = "idle"
    BY <1>2 DEF Idle
  <2>2. seen[c].version <= snapshot[s].version
    BY <1>2 DEF ReadsKept
  <2>3. \A t \in Services : ~ Holds(t, c)
    <3> SUFFICES ASSUME NEW t \in Services, Holds(t, c) PROVE FALSE
      OBVIOUS
    <3>1. CASE handler[t].stage = "loaded"
      BY <1>2, <3>1 DEF Holds, ClientFree
    <3>2. CASE handler[t].stage \in {"commit", "replied"}
      BY <1>2, <3>2 DEF Holds, ClientFree
    <3>. QED
      BY <3>1, <3>2 DEF Holds
  <2>. QED
    BY <2>1, <2>2, <2>3 DEF Holds
<1>. QED
  BY <1>1, <1>2 DEF Serving

LEMMA FreeReads ==
  ASSUME NEW c \in Clients, ClientFree(c), NEW t \in Services
  PROVE  ~ Holds(t, c)
<1> SUFFICES ASSUME Holds(t, c) PROVE FALSE
  OBVIOUS
<1>1. CASE handler[t].stage = "loaded"
  BY <1>1 DEF Holds, ClientFree
<1>2. CASE handler[t].stage \in {"commit", "replied"}
  BY <1>2 DEF Holds, ClientFree
<1>. QED
  BY <1>1, <1>2 DEF Holds

\* One handler goes on, ends, or begins, for one client.
LEMMA ReadsStep ==
  ASSUME Inductive, ReadsKept, Inductive', NEW s \in Services, NEW c \in Clients,
         \A t \in Services \ {s} : handler'[t] = handler[t] /\ snapshot'[t] = snapshot[t],
         \A d \in Clients \ {c} : seen'[d] = seen[d],
         db' = db,
         \A d \in Clients : Holds(s, d)' => d = c,
         \A t \in Services \ {s} : Holds(t, c) => ~ Holds(s, c)' /\ seen' = seen,
         Holds(s, c)' => seen'[c].version <= snapshot'[s].version,
         handler'[s].stage = "replied" => snapshot'[s].version <= handler'[s].version,
         seen'[c].version <= db.version
  PROVE  ReadsKept'
<1>1. \A d \in Clients : seen'[d].version <= db'.version
  BY DEF ReadsKept
<1>2. \A t \in Services \ {s} : \A d \in Clients : Holds(t, d)' <=> Holds(t, d)
  BY DEF Holds
<1>3. ASSUME NEW t \in Services, NEW d \in Clients, Holds(t, d)'
      PROVE  seen'[d].version <= snapshot'[t].version
  <2>1. CASE t = s
    BY <1>3, <2>1
  <2>2. CASE t # s
    <3>1. Holds(t, d) /\ snapshot'[t] = snapshot[t]
      BY <1>2, <1>3, <2>2
    <3>2. seen'[d] = seen[d]
      BY <2>2, <3>1
    <3>. QED
      BY <3>1, <3>2 DEF ReadsKept
  <2>. QED
    BY <2>1, <2>2
<1>4. ASSUME NEW t \in Services, NEW u \in Services, NEW d \in Clients,
             Holds(t, d)', Holds(u, d)'
      PROVE  u = t
  <2>1. CASE t # s /\ u # s
    BY <1>2, <1>4, <2>1 DEF ReadsKept
  <2>2. CASE t = s /\ u # s
    BY <1>2, <1>4, <2>2
  <2>3. CASE t # s /\ u = s
    BY <1>2, <1>4, <2>3
  <2>. QED
    BY <2>1, <2>2, <2>3
<1>5. \A t \in Services : handler'[t].stage = "replied" =>
        snapshot'[t].version <= handler'[t].version
  BY DEF ReadsKept
<1>. QED
  BY <1>1, <1>3, <1>4, <1>5 DEF ReadsKept

\* Answers and transactions of a handler.
LEMMA TurnReads ==
  ASSUME Inductive, ReadsKept, Inductive', NEW s \in Services, NEW c \in Clients,
         Serving(s, c), Turn(s, c)
  PROVE  ReadsKept' /\ \A d \in Clients : seen'[d].version >= seen[d].version
<1>1. /\ handler \in [Services -> Handler] /\ seen \in [Clients -> Seen]
      /\ snapshot[s].version \in Nat /\ db.version \in Nat
      /\ snapshot[s].version <= db.version
      /\ \A d \in Clients : seen[d].version \in Nat
  BY Current DEF Inductive, TypeOK, Seen
<1>2. /\ seen[c].version <= snapshot[s].version
      /\ \A t \in Services : Holds(t, c) => t = s
  BY ServingReads
<1>3. ASSUME NEW i, Respond(s, c, i)
      PROVE  ReadsKept' /\ \A d \in Clients : seen'[d].version >= seen[d].version
  <2> DEFINE now == [version |-> snapshot[s].version, id |-> i,
                     rev |-> IF i = NoId THEN NoNode ELSE snapshot[s].nodes[i]]
  <2>1. /\ seen' = [seen EXCEPT ![c] = now]
        /\ handler' = [handler EXCEPT ![s] = Idle]
        /\ db' = db /\ snapshot' = snapshot
    BY <1>3 DEF Respond
  <2>2. now.version = snapshot[s].version
    OBVIOUS
  <2> HIDE DEF now
  <2>3. /\ handler'[s] = Idle /\ \A t \in Services \ {s} : handler'[t] = handler[t]
        /\ seen'[c] = now /\ \A d \in Clients \ {c} : seen'[d] = seen[d]
    BY <1>1, <2>1
  <2>4. handler'[s].stage = "idle"
    BY <2>3 DEF Idle
  <2>5. \A d \in Clients : ~ Holds(s, d)'
    BY <2>4 DEF Holds
  <2>6. ReadsKept'
    BY <1>1, <1>2, <2>1, <2>2, <2>3, <2>4, <2>5, ReadsStep
  <2>7. seen'[c].version >= seen[c].version
    BY <1>1, <1>2, <2>2, <2>3
  <2>. QED
    BY <1>1, <2>3, <2>6, <2>7
<1>4. ASSUME NEW q, Sends(s, c, q)
      PROVE  ReadsKept' /\ \A d \in Clients : seen'[d].version >= seen[d].version
  <2>1. /\ handler' = [handler EXCEPT ![s] = [stage |-> "commit", req |-> q]]
        /\ db' = db /\ snapshot' = snapshot /\ seen' = seen /\ q.client = c
    BY <1>4 DEF Sends, Send
  <2>2. /\ handler'[s] = [stage |-> "commit", req |-> q]
        /\ \A t \in Services \ {s} : handler'[t] = handler[t]
    BY <1>1, <2>1
  <2>3. handler'[s].stage = "commit" /\ handler'[s].req.client = c
    BY <2>1, <2>2
  <2>4. \A d \in Clients : Holds(s, d)' => d = c
    BY <2>3 DEF Holds
  <2>5. ReadsKept'
    <3>1. seen'[c].version <= snapshot'[s].version /\ seen'[c].version <= db.version
      BY <1>1, <1>2, <2>1
    <3>2. handler'[s].stage # "replied"
      BY <2>3
    <3>3. \A t \in Services \ {s} : ~ Holds(t, c)
      BY <1>2
    <3>. QED
      BY <2>1, <2>2, <2>4, <3>1, <3>2, <3>3, ReadsStep
  <2>. QED
    BY <1>1, <2>1, <2>5
<1>. QED
  BY <1>3, <1>4 DEF Turn

LEMMA LoadReads ==
  ASSUME Inductive, ReadsKept, Inductive', NEW s \in Services, NEW c \in Clients,
         Load(s, c)
  PROVE  ReadsKept'
<1>1. /\ ClientFree(c) /\ handler[s] = Idle
      /\ snapshot' = [snapshot EXCEPT ![s] = db]
      /\ handler' = [handler EXCEPT ![s] = Loaded(c)]
      /\ db' = db /\ seen' = seen
  BY DEF Load
<1>2. handler \in [Services -> Handler] /\ snapshot \in [Services -> Branch]
  BY Current DEF Inductive, TypeOK
<1>3. /\ handler'[s] = Loaded(c) /\ snapshot'[s] = db
      /\ \A t \in Services \ {s} : handler'[t] = handler[t] /\ snapshot'[t] = snapshot[t]
  BY <1>1, <1>2
<1>4. handler'[s].stage = "loaded" /\ handler'[s].client = c
  BY <1>3 DEF Loaded
<1>5. \A d \in Clients : Holds(s, d)' => d = c
  BY <1>4 DEF Holds
<1>6. seen'[c].version <= db.version /\ seen'[c].version <= snapshot'[s].version
  BY <1>1, <1>3 DEF ReadsKept
<1>7. \A t \in Services : ~ Holds(t, c)
  BY <1>1, FreeReads
<1>8. handler'[s].stage # "replied"
  BY <1>4
<1>. QED
  BY <1>1, <1>3, <1>5, <1>6, <1>7, <1>8, ReadsStep

\* The handler ends without an answer.
LEMMA EndReads ==
  ASSUME Inductive, ReadsKept, NEW s \in Services,
         db' = db, seen' = seen, handler' = [handler EXCEPT ![s] = Idle],
         \A t \in Services \ {s} : snapshot'[t] = snapshot[t]
  PROVE  ReadsKept'
<1>1. handler'[s] = Idle /\ \A t \in Services \ {s} : handler'[t] = handler[t]
  BY DEF Inductive, TypeOK
<1>2. handler'[s].stage = "idle"
  BY <1>1 DEF Idle
<1>3. \A d \in Clients : ~ Holds(s, d)'
  BY <1>2 DEF Holds
<1>4. \A t \in Services \ {s} : \A d \in Clients : Holds(t, d)' <=> Holds(t, d)
  BY <1>1 DEF Holds
<1>5. \A d \in Clients : seen'[d].version <= db'.version
  BY DEF ReadsKept
<1>6. \A t \in Services, d \in Clients : Holds(t, d)' =>
        /\ seen'[d].version <= snapshot'[t].version
        /\ \A u \in Services : Holds(u, d)' => u = t
  BY <1>3, <1>4 DEF ReadsKept
<1>7. \A t \in Services : handler'[t].stage = "replied" =>
        snapshot'[t].version <= handler'[t].version
  BY <1>1, <1>2 DEF ReadsKept
<1>. QED
  BY <1>5, <1>6, <1>7 DEF ReadsKept

LEMMA CommitReads ==
  ASSUME Inductive, ReadsKept, NEW w \in wire, Commit(w)
  PROVE  ReadsKept'
<1>1. /\ w.req.base = db.version /\ snapshot' = snapshot /\ seen' = seen
      /\ db' \in Branch /\ db'.version >= db.version
      /\ \A s \in Services \ {w.owner} : handler'[s] = handler[s]
      /\ w.owner \in Services =>
           handler'[w.owner] = [stage |-> "replied", req |-> w.req,
                                version |-> db'.version]
  BY CommitFacts
<1>2. /\ db.version \in Nat /\ db'.version \in Nat
      /\ \A c \in Clients : seen[c].version \in Nat
      /\ \A s \in Services : snapshot[s].version \in Nat
  BY <1>1 DEF Inductive, TypeOK, Branch, Seen
<1>3. w.owner \in Services =>
        /\ handler[w.owner].stage = "commit" /\ handler[w.owner].req = w.req
        /\ snapshot[w.owner].version = db.version
  BY <1>1 DEF Inductive, OwnersWait, HandlerAgrees
<1>4. w.owner \in Services =>
        /\ handler'[w.owner].stage = "replied" /\ handler'[w.owner].req = w.req
        /\ handler'[w.owner].version = db'.version
  BY <1>1
<1>5. \A s \in Services, c \in Clients : Holds(s, c)' <=> Holds(s, c)
  <2> SUFFICES ASSUME NEW s \in Services, NEW c \in Clients
               PROVE  Holds(s, c)' <=> Holds(s, c)
    OBVIOUS
  <2>1. CASE s # w.owner
    BY <1>1, <2>1 DEF Holds
  <2>2. CASE s = w.owner
    BY <1>3, <1>4, <2>2 DEF Holds
  <2>. QED
    BY <2>1, <2>2
<1>6. \A c \in Clients : seen'[c].version <= db'.version
  <2> SUFFICES ASSUME NEW c \in Clients PROVE seen'[c].version <= db'.version
    OBVIOUS
  <2>1. seen[c].version <= db.version
    BY DEF ReadsKept
  <2>. QED
    BY <1>1, <1>2, <2>1
<1>7. \A s \in Services : handler'[s].stage = "replied" =>
        snapshot'[s].version <= handler'[s].version
  <2> SUFFICES ASSUME NEW s \in Services, handler'[s].stage = "replied"
               PROVE  snapshot'[s].version <= handler'[s].version
    OBVIOUS
  <2>1. CASE s # w.owner
    BY <1>1, <2>1 DEF ReadsKept
  <2>2. CASE s = w.owner
    BY <1>1, <1>2, <1>3, <1>4, <2>2
  <2>. QED
    BY <2>1, <2>2
<1>8. \A s \in Services, c \in Clients : Holds(s, c)' =>
        /\ seen'[c].version <= snapshot'[s].version
        /\ \A t \in Services : Holds(t, c)' => t = s
  BY <1>1, <1>5 DEF ReadsKept
<1>. QED
  BY <1>6, <1>7, <1>8 DEF ReadsKept

LEMMA ApplyReads ==
  ASSUME Inductive, ReadsKept, Inductive', NEW s \in Services, Apply(s)
  PROVE  ReadsKept' /\ \A d \in Clients : seen'[d].version >= seen[d].version
<1>1. PICK c : c = handler[s].req.client
  OBVIOUS
<1>2. PICK v : v = handler[s].version
  OBVIOUS
<1>3. handler[s].stage = "replied" /\ handler[s] \in Handler
  BY DEF Apply, Inductive, TypeOK
<1>4. c \in Clients /\ v \in Nat /\ handler[s].req \in Request
  <2>1. handler[s] \in [stage : {"replied"}, req : Request, version : Nat]
    BY <1>3 DEF Handler, Idle
  <2>. QED
    BY <1>1, <1>2, <2>1 DEF Request
<1>5. PICK at, now :
        /\ at.version = v /\ now.version = v
        /\ snapshot' = [snapshot EXCEPT ![s] = at]
        /\ seen' = [seen EXCEPT ![c] = now]
        /\ handler' = [handler EXCEPT ![s] = Idle]
        /\ db' = db
  <2> DEFINE q == handler[s].req
             nodes == CASE q.op = "save" -> Merge(snapshot[s].nodes, q.docs)
                        [] q.op = "import" -> q.docs
                        [] q.op = "delete" ->
                             Removed(snapshot[s].nodes, q.id, referrers[s][q.id])
                        [] OTHER -> snapshot[s].nodes
             project == IF q.op \in {"lean_project", "import"}
                        THEN q.project ELSE snapshot[s].project
             latex == IF q.op \in {"latex_project", "import"}
                      THEN q.latex ELSE snapshot[s].latex
             shown == IF q.op = "save" THEN q.read.id ELSE NoId
             at == [version |-> handler[s].version, nodes |-> nodes, project |-> project,
                    latex |-> latex]
             now == [version |-> handler[s].version, id |-> shown,
                     rev |-> IF shown = NoId THEN NoNode ELSE nodes[shown]]
  <2>1. /\ snapshot' = [snapshot EXCEPT ![s] = at]
        /\ seen' = [seen EXCEPT ![q.client] = now]
        /\ handler' = [handler EXCEPT ![s] = Idle]
        /\ db' = db
    BY Zenon DEF Apply
  <2>2. at.version = handler[s].version /\ now.version = handler[s].version
    OBVIOUS
  <2> HIDE DEF at, now
  <2>. QED
    BY <1>1, <1>2, <2>1, <2>2
<1>6. /\ handler \in [Services -> Handler] /\ seen \in [Clients -> Seen]
      /\ snapshot \in [Services -> Branch]
      /\ \A d \in Clients : seen[d].version \in Nat
      /\ snapshot[s].version \in Nat
  BY Current DEF Inductive, TypeOK, Seen
<1>7. Holds(s, c)
  BY <1>1, <1>3 DEF Holds
<1>8. v <= db.version /\ snapshot[s].version <= v /\ seen[c].version <= snapshot[s].version
  BY <1>2, <1>3, <1>4, <1>7 DEF Inductive, VersionsBounded, ReadsKept
<1>9. /\ handler'[s] = Idle /\ snapshot'[s] = at /\ seen'[c] = now
      /\ \A t \in Services \ {s} : handler'[t] = handler[t] /\ snapshot'[t] = snapshot[t]
      /\ \A d \in Clients \ {c} : seen'[d] = seen[d]
  BY <1>4, <1>5, <1>6
<1>10. handler'[s].stage = "idle"
  BY <1>9 DEF Idle
<1>11. \A d \in Clients : ~ Holds(s, d)'
  BY <1>10 DEF Holds
<1>12. \A t \in Services \ {s} : ~ Holds(t, c)
  BY <1>4, <1>7 DEF ReadsKept
<1>13. ReadsKept'
  <2>1. seen'[c].version <= db.version
    BY <1>5, <1>8, <1>9
  <2>2. handler'[s].stage # "replied"
    BY <1>10
  <2>. QED
    BY <1>4, <1>5, <1>9, <1>11, <1>12, <2>1, <2>2, ReadsStep
<1>14. \A d \in Clients : seen'[d].version >= seen[d].version
  BY <1>4, <1>5, <1>6, <1>8, <1>9
<1>. QED
  BY <1>13, <1>14

LEMMA ReadsNext ==
  ASSUME Inductive, SentKept, ReadsKept, Inductive', [Next]_vars
  PROVE  ReadsKept' /\ \A c \in Clients : seen'[c].version >= seen[c].version
<1>1. \A c \in Clients : seen[c].version \in Nat
  BY DEF Inductive, TypeOK, Seen
<1>2. seen' = seen => \A c \in Clients : seen'[c].version >= seen[c].version
  BY <1>1
<1>3. CASE UNCHANGED vars
  BY <1>2, <1>3 DEF vars, ReadsKept, Holds
<1>4. ASSUME NEW s \in Services, NEW c \in Clients, Load(s, c)
      PROVE  ReadsKept' /\ \A d \in Clients : seen'[d].version >= seen[d].version
  BY <1>2, <1>4, LoadReads DEF Load
<1>5. ASSUME NEW s \in Services, NEW c \in Clients, Handle(s, c)
      PROVE  ReadsKept' /\ \A d \in Clients : seen'[d].version >= seen[d].version
  BY <1>5, HandleTurn, TurnReads DEF SentKept
<1>6. ASSUME NEW s \in Services, Apply(s)
      PROVE  ReadsKept' /\ \A d \in Clients : seen'[d].version >= seen[d].version
  BY <1>6, ApplyReads
<1>7. ASSUME NEW s \in Services, Abandon(s) \/ Restart(s)
      PROVE  ReadsKept' /\ \A d \in Clients : seen'[d].version >= seen[d].version
  <2>1. /\ db' = db /\ seen' = seen /\ handler' = [handler EXCEPT ![s] = Idle]
        /\ \A t \in Services \ {s} : snapshot'[t] = snapshot[t]
    BY <1>7, Current DEF Abandon, Restart
  <2>. QED
    BY <1>2, <2>1, EndReads
<1>8. ASSUME NEW w \in wire, Commit(w)
      PROVE  ReadsKept' /\ \A d \in Clients : seen'[d].version >= seen[d].version
  BY <1>2, <1>8, CommitReads, CommitFacts
<1>9. ASSUME NEW w \in wire, Conflict(w)
      PROVE  ReadsKept' /\ \A d \in Clients : seen'[d].version >= seen[d].version
  <2>1. /\ db' = db /\ seen' = seen /\ snapshot' = snapshot
        /\ handler' = handler \/ handler' = [handler EXCEPT ![w.owner] = Idle]
        /\ w.owner \in Services \/ handler' = handler
    BY <1>9 DEF Conflict, Answer, Inductive, TypeOK
  <2>2. CASE handler' = handler
    BY <1>2, <2>1, <2>2 DEF ReadsKept, Holds
  <2>3. CASE w.owner \in Services /\ handler' = [handler EXCEPT ![w.owner] = Idle]
    BY <1>2, <2>1, <2>3, EndReads
  <2>. QED
    BY <2>1, <2>2, <2>3
<1>10. ASSUME NEW w \in wire, Lose(w)
      PROVE  ReadsKept' /\ \A d \in Clients : seen'[d].version >= seen[d].version
  BY <1>2, <1>10 DEF Lose, ReadsKept, Holds
<1>. QED
  BY <1>3, <1>4, <1>5, <1>6, <1>7, <1>8, <1>9, <1>10 DEF Next

LEMMA GuardsInit == Init => Guards
<1> SUFFICES ASSUME Init PROVE Guards
  OBVIOUS
<1>1. Inductive
  BY InitInductive
<1>2. SentKept
  BY DEF Init, SentKept
<1>3. ReadsKept
  <2>1. \A s \in Services : handler[s].stage = "idle"
    BY DEF Init, Idle
  <2>2. \A c \in Clients : seen[c].version <= db.version
    <3>1. /\ \A c \in Clients : seen[c].version = 0
          /\ db.version \in Nat
      BY <1>1 DEF Init, Unread, Inductive, TypeOK, Branch
    <3>. QED
      BY <3>1
  <2>. QED
    BY <2>1, <2>2 DEF ReadsKept, Holds
<1>. QED
  BY <1>1, <1>2, <1>3 DEF Guards

\* The head changes by commits only.
LEMMA HeadChanges ==
  ASSUME Inductive, SentKept, [Next]_vars
  PROVE  db' = db \/ \E w \in wire : Commit(w)
<1>1. ASSUME NEW s \in Services, NEW c \in Clients, Handle(s, c)
      PROVE  db' = db
  <2>1. Turn(s, c)
    BY <1>1, HandleTurn DEF SentKept
  <2>. QED
    BY <2>1 DEF Turn, Sends, Send, Respond
<1>2. ASSUME NEW s \in Services, Apply(s) PROVE db' = db
  BY <1>2, Zenon DEF Apply
<1>. QED
  BY <1>1, <1>2 DEF Next, Load, Abandon, Restart, Conflict, Lose, vars

-----------------------------------------------------------------------------
(***************************************************************************)
(* Every step is a step of NodeGraph, or changes nothing of it.            *)
(***************************************************************************)
LEMMA SameOperators ==
  /\ \A g, p : Sequential!ValidGraph(g, p) <=> ValidGraph(g, p)
  /\ \A n : Sequential!NewNode(n) = NewNode(n)
  /\ \A node, old, n : Sequential!Rewritten(node, old, n) = Rewritten(node, old, n)
  /\ Sequential!EmptyGraph = EmptyGraph
<1>1. \A g, p : Sequential!ValidGraph(g, p) <=> ValidGraph(g, p)
  BY DEF Sequential!ValidGraph, Sequential!ModulesFree, Sequential!UniqueNames,
         Sequential!Closed, Sequential!Acyclic, Sequential!Live, ValidGraph,
         ModulesFree, UniqueNames, Closed, Acyclic, Live
<1>2. \A n : Sequential!NewNode(n) = NewNode(n)
  BY DEF Sequential!NewNode, NewNode
<1>3. \A node, old, n : Sequential!Rewritten(node, old, n) = Rewritten(node, old, n)
  BY DEF Sequential!Rewritten, Sequential!RenameRefs, Rewritten, RenameRefs
<1>4. Sequential!EmptyGraph = EmptyGraph
  BY DEF Sequential!EmptyGraph, EmptyGraph
<1>. QED
  BY <1>1, <1>2, <1>3, <1>4

LEMMA SequentialInit == Init => Sequential!Init
BY InitInductive, SameOperators DEF Inductive, GraphStaysValid, Sequential!Init

\* An edit of the graph.
LEMMA SequentialEdit ==
  ASSUME db \in Branch, Edited(db.nodes, db'.nodes), db'.project = db.project,
         db'.latex = db.latex, ValidGraph(db'.nodes, db'.project)
  PROVE  Sequential!Next
<1>1. db.nodes \in Graph
  BY DEF Branch
<1>2. \A g : db'.nodes = g => Sequential!Becomes(g)
  BY SameOperators DEF Sequential!Becomes
<1>3. PICK i \in Ids :
        \/ \E n \in Names : Created(db.nodes, db'.nodes, i, n) \/ Renamed(db.nodes, db'.nodes, i, n)
        \/ \E n \in Names, parent \in Ids \ {i} : CreatedUnder(db.nodes, db'.nodes, i, n, parent)
        \/ Deleted(db.nodes, db'.nodes, i)
        \/ \E lean, text \in Source : Written(db.nodes, db'.nodes, i, lean, text)
        \/ \E D \in SUBSET Ids : Relinked(db.nodes, db'.nodes, i, D)
  BY DEF Edited
<1> SUFFICES Sequential!Edit(i)
  BY DEF Sequential!Next
<1>4. ASSUME NEW n \in Names, Created(db.nodes, db'.nodes, i, n)
      PROVE  Sequential!Create(i, n)
  BY <1>2, <1>4, SameOperators DEF Created, Sequential!Create
<1>5. ASSUME NEW n \in Names, Renamed(db.nodes, db'.nodes, i, n)
      PROVE  Sequential!Rename(i, n)
  BY <1>2, <1>5, SameOperators DEF Renamed, Sequential!Rename
<1>6. ASSUME NEW n \in Names, NEW parent \in Ids \ {i},
             CreatedUnder(db.nodes, db'.nodes, i, n, parent)
      PROVE  Sequential!CreateUnder(i, n, parent)
  <2> DEFINE new == [j \in Ids |-> IF j = i THEN NewNode(n)
                          ELSE IF j = parent THEN [db.nodes[j] EXCEPT !.deps = @ \cup {i}]
                          ELSE db.nodes[j]]
             graph == [db.nodes EXCEPT ![i] = NewNode(n), ![parent].deps = @ \cup {i}]
  <2>1. new = graph
    BY <1>1 DEF Graph
  <2>2. db.nodes[i] = NoNode /\ db.nodes[parent] # NoNode /\ db'.nodes = new
    BY <1>6 DEF CreatedUnder
  <2> HIDE DEF new
  <2>3. Sequential!Becomes(graph)
    BY <1>2, <2>1, <2>2
  <2>. QED
    BY <2>2, <2>3, SameOperators DEF Sequential!CreateUnder
<1>7. CASE Deleted(db.nodes, db'.nodes, i)
  <2>1. Sequential!Delete(i)
    BY <1>2, <1>7 DEF Deleted, Sequential!Delete
  <2>. QED
    BY <2>1 DEF Sequential!Edit
<1>8. ASSUME NEW lean \in Source, NEW text \in Source,
             Written(db.nodes, db'.nodes, i, lean, text)
      PROVE  /\ db.nodes[i] # NoNode /\ db'.nodes[i] # NoNode
             /\ Sequential!Write(i, db'.nodes[i].lean, db'.nodes[i].latex)
  <2> DEFINE node == [db.nodes[i] EXCEPT !.lean = lean, !.latex = text]
  <2>1. db.nodes[i] # NoNode /\ db'.nodes = [db.nodes EXCEPT ![i] = node]
    BY <1>8 DEF Written
  <2>2. db.nodes[i] \in Node
    BY <1>1, <2>1 DEF Graph
  <2>3. node \in Node /\ node.lean = lean /\ node.latex = text
    BY <2>2 DEF Node
  <2>4. [db.nodes EXCEPT ![i] = node] = [db.nodes EXCEPT ![i].lean = lean, ![i].latex = text]
    BY <1>1, <2>2 DEF Graph, Node
  <2> HIDE DEF node
  <2>5. db'.nodes[i] = node
    BY <1>1, <2>1 DEF Graph
  <2>6. Sequential!Becomes([db.nodes EXCEPT ![i].lean = lean, ![i].latex = text])
    BY <1>2, <2>1, <2>4
  <2>7. Sequential!Write(i, lean, text)
    BY <2>1, <2>6 DEF Sequential!Write
  <2>. QED
    BY <2>1, <2>3, <2>5, <2>7, NoNodeAssumption
<1>9. ASSUME NEW D \in SUBSET Ids, Relinked(db.nodes, db'.nodes, i, D)
      PROVE  Sequential!Relink(i, D)
  BY <1>2, <1>9 DEF Relinked, Sequential!Relink
<1>. QED
  BY <1>3, <1>4, <1>5, <1>6, <1>7, <1>8, <1>9 DEF Sequential!Edit

LEMMA SequentialStep ==
  ASSUME Guards, [Next]_vars
  PROVE  [Sequential!Next]_(Sequential!content)
<1>1. Inductive /\ SentKept
  BY DEF Guards
<1>2. ASSUME NEW w \in wire, Commit(w)
      PROVE  Sequential!Next
  <2> DEFINE after == Committed(db, w.req)
  <2>1. Whole(db, after)
    BY <1>1, <1>2, CommitFacts DEF SentKept, Kept
  <2>2. /\ db'.nodes = after.nodes /\ db'.project = after.project
        /\ db'.latex = after.latex /\ db' \in Branch
        /\ ValidGraph(db'.nodes, db'.project)
    BY <1>1, <1>2, CommitFacts
  <2> HIDE DEF after
  <2>3. CASE /\ Edited(db.nodes, after.nodes)
             /\ after.project = db.project /\ after.latex = db.latex
    BY <1>1, <2>2, <2>3, SequentialEdit DEF Inductive, TypeOK
  <2>4. CASE after.nodes = db.nodes /\ after.latex = db.latex
    <3>1. Sequential!Configure(db'.project)
      BY <2>2, <2>4, SameOperators DEF Sequential!Configure
    <3>2. db'.project \in Projects
      BY <2>2 DEF Branch
    <3>. QED
      BY <3>1, <3>2 DEF Sequential!Next
  <2>5. CASE after.nodes = db.nodes /\ after.project = db.project
    <3>1. Sequential!ConfigureLatex(db'.latex)
      BY <2>2, <2>5 DEF Sequential!ConfigureLatex
    <3>2. db'.latex \in LatexProjects
      BY <2>2 DEF Branch
    <3>. QED
      BY <3>1, <3>2 DEF Sequential!Next
  <2>6. CASE db.nodes = EmptyGraph
    <3>1. Sequential!Populate(db'.nodes, db'.project, db'.latex)
      BY <2>2, <2>6, SameOperators DEF Sequential!Populate
    <3>. QED
      BY <3>1 DEF Sequential!Next
  <2>. QED
    BY <2>1, <2>3, <2>4, <2>5, <2>6 DEF Whole
<1>3. ASSUME db' = db PROVE UNCHANGED Sequential!content
  BY <1>3 DEF Sequential!content
<1>. QED
  BY <1>1, <1>2, <1>3, HeadChanges

-----------------------------------------------------------------------------
(***************************************************************************)
(* The theorems.                                                           *)
(***************************************************************************)
\* Transactions that may still commit are whole edits of the head, guarded by
\* what their clients have read, and a client waits for one handler, at a
\* snapshot not older than what it has read.
THEOREM GuardsInvariant == Spec => []Guards
<1>1. Guards /\ Inductive' /\ [Next]_vars => Guards'
  BY SentNext, ReadsNext DEF Guards
<1>. QED
  BY <1>1, GuardsInit, InductiveInvariant, PTL DEF Spec

\* However services, abandoned handlers and transactions interleave, the head
\* is one sequential graph that changes by whole valid edits (service.rs).
THEOREM ServicesImplementGraph == Spec => ImplementsNodeGraph
<1>. QED
  BY SequentialInit, SequentialStep, GuardsInvariant, PTL
     DEF Spec, ImplementsNodeGraph, Sequential!Spec

\* No commit overwrites a node that its client has not read, but by a change
\* that follows from the node's latest value (If-Match, Service::commit).
THEOREM EditsAreGuarded == Spec => GuardedEdits
<1>1. ASSUME Guards, [Next]_vars, db' # db,
             NEW i \in Ids, db.nodes[i] # NoNode, db'.nodes[i] # db.nodes[i]
      PROVE  \/ \E w \in wire \ wire' : w.req.read.id = i /\ w.req.read.rev = db.nodes[i]
             \/ db'.nodes[i] # NoNode /\ SideEffect(i, db.nodes, db'.nodes)
  <2>1. PICK w \in wire : Commit(w)
    BY <1>1, HeadChanges DEF Guards
  <2>2. Kept(db, w.req, minted) /\ w \in wire \ wire'
        /\ db'.nodes = Committed(db, w.req).nodes
    BY <1>1, <2>1, CommitFacts DEF Guards, SentKept
  <2>3. Guarded(w.req, db.nodes, db'.nodes)
    BY <2>2 DEF Kept
  <2>. QED
    BY <1>1, <2>2, <2>3 DEF Guarded
<1>2. Guards /\ [Next]_vars =>
        [\A i \in Ids :
           db.nodes[i] # NoNode /\ db'.nodes[i] # db.nodes[i] =>
             \/ \E w \in wire \ wire' :
                  w.req.read.id = i /\ w.req.read.rev = db.nodes[i]
             \/ db'.nodes[i] # NoNode /\ SideEffect(i, db.nodes, db'.nodes)]_db
  BY <1>1
<1>. QED
  BY <1>2, GuardsInvariant, PTL DEF Spec, GuardedEdits

\* A project is replaced only by a client that has read the head, or by an
\* import into an empty branch (put_project, import).
THEOREM ProjectsAreGuarded == Spec => GuardedProjects
<1>1. ASSUME Guards, [Next]_vars, db' # db,
             <<db.project, db.latex>>' # <<db.project, db.latex>>
      PROVE  \E w \in wire \ wire' :
               \/ w.req.op = "import" /\ Live(db.nodes) = {}
               \/ w.req.read.version = db.version
  <2>1. PICK w \in wire : Commit(w)
    BY <1>1, HeadChanges DEF Guards
  <2>2. /\ Kept(db, w.req, minted) /\ w \in wire \ wire'
        /\ db'.project = Committed(db, w.req).project
        /\ db'.latex = Committed(db, w.req).latex
    BY <1>1, <2>1, CommitFacts DEF Guards, SentKept
  <2>3. ProjectsGuarded(w.req, db, Committed(db, w.req))
    BY <2>2 DEF Kept
  <2>. QED
    BY <1>1, <2>2, <2>3 DEF ProjectsGuarded
<1>2. Guards /\ [Next]_vars =>
        [<<db.project, db.latex>>' # <<db.project, db.latex>> =>
           \E w \in wire \ wire' :
             \/ w.req.op = "import" /\ Live(db.nodes) = {}
             \/ w.req.read.version = db.version]_db
  BY <1>1
<1>. QED
  BY <1>2, GuardsInvariant, PTL DEF Spec, GuardedProjects

\* A client never reads backwards, whichever services answer it
\* (Service::read compares versions before it answers).
THEOREM ReadsAreMonotonic == Spec => MonotonicReads
<1>1. Guards /\ Inductive' /\ [Next]_vars =>
        [\A c \in Clients : seen'[c].version >= seen[c].version]_seen
  BY ReadsNext DEF Guards
<1>. QED
  BY <1>1, GuardsInvariant, InductiveInvariant, PTL DEF Spec, MonotonicReads

-----------------------------------------------------------------------------
(***************************************************************************)
(* The projections.                                                        *)
(***************************************************************************)
\* A service whose snapshot and projections stay, and that gets no answer.
LEMMA SameProjections ==
  ASSUME NEW s \in Services, ServiceRight(s),
         snapshot'[s] = snapshot[s], index'[s] = index[s],
         handler'[s].stage = "replied" => handler'[s] = handler[s]
  PROVE  ServiceRight(s)'
<1>1. CASE handler'[s].stage = "replied"
  BY <1>1, Zenon DEF ServiceRight, Committed
<1>2. CASE handler'[s].stage # "replied"
  BY <1>2, Zenon DEF ServiceRight
<1>. QED
  BY <1>1, <1>2

\* A service that has just loaded the head.
LEMMA LoadedRight ==
  ASSUME Inductive, NEW s \in Services,
         snapshot'[s] = db, index'[s] = Recompute(db.nodes, db.project),
         handler'[s].stage # "replied"
  PROVE  ServiceRight(s)'
<1>1. db.nodes \in Graph /\ ValidGraph(db.nodes, db.project)
  BY DEF Inductive, GraphStaysValid, TypeOK, Branch
<1>2. IndexRight(Recompute(db.nodes, db.project), db.nodes, db.project)
  BY <1>1, RecomputeRight
<1>. QED
  BY <1>1, <1>2, Zenon DEF ServiceRight

\* A handler answers from its snapshot or sends a transaction.
LEMMA HandlerGoesOn ==
  ASSUME NEW s \in Services, NEW c \in Clients, Handle(s, c)
  PROVE  (\E i : Respond(s, c, i)) \/ (\E q : Send(s, q))
<1>1. ASSUME NEW i \in Ids, ReadNode(s, c, i) \/ DeleteNode(s, c, i)
      PROVE  (\E j : Respond(s, c, j)) \/ (\E q : Send(s, q))
  BY <1>1, Zenon DEF ReadNode, DeleteNode
<1>2. ASSUME NEW i \in Ids, NEW n \in Names, RenameNode(s, c, i, n)
      PROVE  (\E j : Respond(s, c, j)) \/ (\E q : Send(s, q))
  BY <1>2, Zenon DEF RenameNode, Save
<1>3. ASSUME Creations(s, c)
      PROVE  \E q : Send(s, q)
  BY <1>3, Zenon DEF Creations, CreateNode, CreateChild, Save
<1>4. ASSUME SourceEdits(s, c)
      PROVE  \E q : Send(s, q)
  BY <1>4, Zenon DEF SourceEdits, SaveBlocks, DeleteBlock, SaveNode, Save
<1>5. ASSUME LinkEdits(s, c)
      PROVE  (\E j : Respond(s, c, j)) \/ (\E q : Send(s, q))
  BY <1>5, Zenon DEF LinkEdits, AddDep, RemoveDeps, SaveNode, Save
<1>6. ASSUME ProjectEdits(s, c)
      PROVE  (\E j : Respond(s, c, j)) \/ (\E q : Send(s, q))
  BY <1>6, Zenon DEF ProjectEdits, ReadProject, PutProject, PutLatexProject
<1>7. ASSUME NEW b \in Bundles, Import(s, c, b)
      PROVE  \E q : Send(s, q)
  BY <1>7, Zenon DEF Import, Save
<1>. QED
  BY <1>1, <1>2, <1>3, <1>4, <1>5, <1>6, <1>7, Zenon DEF Handle

LEMMA HandleRight ==
  ASSUME Inductive, ProjectionsRight, NEW s \in Services, NEW c \in Clients, Handle(s, c)
  PROVE  ProjectionsRight'
<1>1. /\ snapshot' = snapshot /\ index' = index
      /\ \E h : handler' = [handler EXCEPT ![s] = h] /\ h.stage # "replied"
  <2>1. ASSUME NEW i, Respond(s, c, i)
        PROVE  /\ snapshot' = snapshot /\ index' = index
               /\ \E h : handler' = [handler EXCEPT ![s] = h] /\ h.stage # "replied"
    <3>1. Idle.stage # "replied"
      BY DEF Idle
    <3>. QED
      BY <2>1, <3>1, Zenon DEF Respond
  <2>2. ASSUME NEW q, Send(s, q)
        PROVE  /\ snapshot' = snapshot /\ index' = index
               /\ \E h : handler' = [handler EXCEPT ![s] = h] /\ h.stage # "replied"
    <3>1. [stage |-> "commit", req |-> q].stage # "replied"
      OBVIOUS
    <3>. QED
      BY <2>2, <3>1, Zenon DEF Send
  <2>. QED
    BY <2>1, <2>2, HandlerGoesOn
<1>2. DOMAIN handler = Services
  BY DEF Inductive, TypeOK
<1>3. \A t \in Services : handler'[t].stage = "replied" => handler'[t] = handler[t]
  BY <1>1, <1>2
<1>. QED
  BY <1>1, <1>3, SameProjections DEF ProjectionsRight

\* The answer of the database finds the snapshot the transaction was sent from.
LEMMA CommitRight ==
  ASSUME Inductive, ProjectionsRight, NEW w \in wire, Commit(w)
  PROVE  ProjectionsRight'
<1> DEFINE after == Committed(db, w.req)
           reply(v) == [stage |-> "replied", req |-> w.req, version |-> v]
<1>1. PICK v : Answer(w, reply(v))
  BY DEF Commit
<1>2. /\ snapshot' = snapshot /\ index' = index /\ w.req.base = db.version
  BY DEF Commit
<1>3. ValidGraph(after.nodes, after.project)
  BY <1>2, Zenon DEF Inductive, WireStaysValid
<1>4. w.owner = Nobody => handler' = handler
  BY <1>1 DEF Answer
<1>5. w.owner # Nobody => handler' = [handler EXCEPT ![w.owner] = reply(v)]
  BY <1>1 DEF Answer
<1>6. DOMAIN handler = Services /\ w.owner \in Services \cup {Nobody}
  BY DEF Inductive, TypeOK
<1> SUFFICES ASSUME NEW s \in Services, ServiceRight(s) PROVE ServiceRight(s)'
  BY DEF ProjectionsRight
<1>7. CASE w.owner # s
  <2>1. handler'[s] = handler[s]
    BY <1>4, <1>5, <1>6, <1>7
  <2>. QED
    BY <1>2, <2>1, SameProjections
<1>8. CASE w.owner = s
  <2>1. handler[s].stage = "commit" /\ handler[s].req = w.req
    BY <1>8 DEF Inductive, OwnersWait
  <2>2. snapshot[s].version = db.version
    BY <1>2, <2>1 DEF Inductive, HandlerAgrees
  <2>3. snapshot[s] = db
    BY <2>2 DEF Inductive, SnapshotCoherent
  <2>4. handler'[s] = reply(v) /\ handler'[s].req = w.req
    BY <1>5, <1>6, <1>8, BranchStoreAssumption
  <2>5. ServiceRight(s)'
    <3>1. Committed(snapshot'[s], handler'[s].req) = after
      BY <1>2, <2>3, <2>4, Zenon
    <3> HIDE DEF after
    <3>2. LET then == Committed(snapshot'[s], handler'[s].req)
          IN  ValidGraph(then.nodes, then.project)
      BY <1>3, <3>1
    <3>. QED
      BY <1>2, <3>2, Zenon DEF ServiceRight, Committed
  <2>. QED
    BY <2>5
<1>. QED
  BY <1>7, <1>8

\* Snapshot::apply, Snapshot::remove and the replacement of a project.
LEMMA ApplyRight ==
  ASSUME Inductive, ProjectionsRight, NEW s \in Services, Apply(s)
  PROVE  ProjectionsRight'
<1> DEFINE q == handler[s].req
           local == snapshot[s]
           after == Committed(local, q)
           parents == ReferrersOf(local.nodes)[q.id]
           now == [after EXCEPT !.version = handler[s].version]
<1>1. /\ handler[s].stage = "replied" /\ q \in Request /\ after \in Branch
      /\ q.op = "delete" => q.id \in Ids /\ q.parents = parents
      /\ snapshot' = [snapshot EXCEPT ![s] = now]
      /\ \A t \in Services \ {s} : index'[t] = index[t]
      /\ index'[s] =
           CASE q.op = "save" -> ApplyIndex(index[s], local.nodes, after.project, q.docs,
                                            ReferrersOf(after.nodes))
             [] q.op = "delete" -> RemoveIndex(index[s], after.nodes, after.project, q.id,
                                               parents)
             [] q.op = "latex_project" -> index[s]
             [] OTHER -> Recompute(after.nodes, after.project)
      /\ handler' = [handler EXCEPT ![s] = Idle]
  BY ApplyFacts
<1>2. local \in Branch /\ local.nodes \in Graph
  BY Current
<1>3. /\ ValidGraph(local.nodes, local.project)
      /\ IndexRight(index[s], local.nodes, local.project)
      /\ ValidGraph(after.nodes, after.project)
  BY <1>1 DEF ProjectionsRight, ServiceRight
<1>4. /\ q.op \in Ops /\ q.docs \in Graph
      /\ q.op = "save" => after.nodes = Merge(local.nodes, q.docs) /\ after.project = local.project
      /\ q.op = "delete" => /\ after.nodes = Removed(local.nodes, q.id, parents)
                            /\ after.project = local.project
      /\ q.op = "latex_project" => after.nodes = local.nodes /\ after.project = local.project
  <2>1. q.op \in Ops /\ q.docs \in Graph
    BY <1>1 DEF Request
  <2>. QED
    BY <1>1, <1>2, <2>1, CommittedFields
<1>5. after.nodes \in Graph /\ now.nodes = after.nodes /\ now.project = after.project
  BY <1>1 DEF Branch
<1> HIDE DEF after, now
<1>6. IndexRight(index'[s], after.nodes, after.project)
  <2>1. CASE q.op = "save"
    <3>1. index'[s] = ApplyIndex(index[s], local.nodes, local.project, q.docs,
                                 ReferrersOf(Merge(local.nodes, q.docs)))
      BY <1>1, <1>4, <2>1
    <3>. QED
      BY <1>2, <1>3, <1>4, <1>5, <2>1, <3>1, ApplyIndexRight
  <2>2. CASE q.op = "delete"
    <3>1. index'[s] = RemoveIndex(index[s], after.nodes, local.project, q.id, parents)
      BY <1>1, <1>4, <2>2
    <3>. QED
      BY <1>1, <1>2, <1>3, <1>4, <1>5, <2>2, <3>1, RemoveIndexRight
  <2>3. CASE q.op = "latex_project"
    BY <1>1, <1>3, <1>4, <2>3
  <2>4. CASE q.op \in {"lean_project", "import"}
    <3>1. index'[s] = Recompute(after.nodes, after.project)
      BY <1>1, <2>4
    <3>. QED
      BY <1>3, <1>5, <3>1, RecomputeRight
  <2>. QED
    BY <1>4, <2>1, <2>2, <2>3, <2>4 DEF Ops
<1>7. \A t \in Services : /\ snapshot'[t] = IF t = s THEN now ELSE snapshot[t]
                          /\ handler'[t] = IF t = s THEN Idle ELSE handler[t]
  BY <1>1 DEF Inductive, TypeOK
<1>8. ServiceRight(s)'
  <2>1. handler'[s].stage # "replied" /\ snapshot'[s] = now
    BY <1>7 DEF Idle
  <2>2. /\ snapshot'[s].nodes = after.nodes
        /\ snapshot'[s].project = after.project
    BY <1>5, <2>1
  <2>. QED
    BY <1>3, <1>6, <2>1, <2>2, Zenon DEF ServiceRight
<1>9. ASSUME NEW t \in Services \ {s} PROVE ServiceRight(t)'
  BY <1>1, <1>7, <1>9, SameProjections DEF ProjectionsRight
<1>. QED
  BY <1>8, <1>9 DEF ProjectionsRight

LEMMA InitRight ==
  ASSUME Init PROVE ProjectionsRight
<1>1. Inductive
  BY InitInductive
<1>2. db.nodes \in Graph /\ ValidGraph(db.nodes, db.project)
  BY <1>1 DEF Inductive, GraphStaysValid, TypeOK, Branch
<1>3. \A s \in Services : /\ snapshot[s] = db /\ handler[s].stage # "replied"
                          /\ index[s] = Recompute(db.nodes, db.project)
  BY DEF Init, Idle
<1>4. IndexRight(Recompute(db.nodes, db.project), db.nodes, db.project)
  BY <1>2, RecomputeRight
<1>. QED
  BY <1>2, <1>3, <1>4 DEF ProjectionsRight, ServiceRight

LEMMA NextRight ==
  ASSUME Inductive, ProjectionsRight, [Next]_vars
  PROVE  ProjectionsRight'
<1>1. ASSUME snapshot' = snapshot, index' = index,
             \A s \in Services : handler'[s] = handler[s] \/ handler'[s] = Idle
      PROVE  ProjectionsRight'
  <2>1. Idle.stage # "replied"
    BY DEF Idle
  <2>. QED
    BY <1>1, <2>1, SameProjections DEF ProjectionsRight
<1>2. ASSUME NEW s \in Services, NEW h, h.stage # "replied",
             snapshot' = [snapshot EXCEPT ![s] = db],
             index' = [index EXCEPT ![s] = Recompute(db.nodes, db.project)],
             handler' = [handler EXCEPT ![s] = h]
      PROVE  ProjectionsRight'
  <2>1. \A t \in Services :
          /\ snapshot'[t] = IF t = s THEN db ELSE snapshot[t]
          /\ index'[t] = IF t = s THEN Recompute(db.nodes, db.project) ELSE index[t]
          /\ handler'[t] = IF t = s THEN h ELSE handler[t]
    BY <1>2 DEF Inductive, TypeOK, ProjectionsShaped
  <2>2. ServiceRight(s)'
    BY <1>2, <2>1, LoadedRight
  <2>3. ASSUME NEW t \in Services \ {s} PROVE ServiceRight(t)'
    BY <2>1, SameProjections DEF ProjectionsRight
  <2>. QED
    BY <2>2, <2>3 DEF ProjectionsRight
<1>3. CASE UNCHANGED vars
  BY <1>1, <1>3 DEF vars
<1>4. ASSUME NEW s \in Services, NEW c \in Clients, Load(s, c)
      PROVE  ProjectionsRight'
  <2>1. Loaded(c).stage # "replied"
    BY DEF Loaded
  <2>. QED
    BY <1>2, <1>4, <2>1 DEF Load
<1>5. ASSUME NEW s \in Services, Restart(s) PROVE ProjectionsRight'
  <2>1. Idle.stage # "replied"
    BY DEF Idle
  <2>. QED
    BY <1>2, <1>5, <2>1 DEF Restart
<1>6. ASSUME NEW s \in Services, Abandon(s) PROVE ProjectionsRight'
  BY <1>1, <1>6 DEF Abandon, Inductive, TypeOK
<1>7. ASSUME NEW w \in wire, Conflict(w) \/ Lose(w) PROVE ProjectionsRight'
  BY <1>1, <1>7 DEF Conflict, Lose, Answer, Inductive, TypeOK
<1>. QED
  BY <1>3, <1>4, <1>5, <1>6, <1>7, HandleRight, ApplyRight, CommitRight DEF Next

\* The projections a service keeps across its own commits are, in every
\* reachable state, those of its documents: the referrers, the module index,
\* the topological depths and the Lean keys (Snapshot::apply, Snapshot::remove).
THEOREM ProjectionsCoherent == Spec => []IndexCoherent
<1>1. Init => ProjectionsRight
  BY InitRight
<1>2. ProjectionsRight /\ Inductive /\ [Next]_vars => ProjectionsRight'
  BY NextRight
<1>3. Inductive /\ ProjectionsRight => IndexCoherent
  BY DEF Inductive, ProjectionsShaped, ProjectionsRight, ServiceRight, IndexRight,
         IndexCoherent
<1>. QED
  BY <1>1, <1>2, <1>3, InductiveInvariant, PTL DEF Spec
=============================================================================
