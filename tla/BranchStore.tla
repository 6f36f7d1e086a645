---------------------------- MODULE BranchStore ----------------------------
(***************************************************************************)
(* One branch in TerminusDB and the services that serve it                 *)
(* (src/service.rs, src/store.rs, src/latex/api.rs).                       *)
(*                                                                         *)
(* Every service keeps the loaded documents in a Snapshot behind a mutex   *)
(* that a handler holds from its first read to its reply.  A handler       *)
(* compares the branch's data version with the snapshot's and reloads if   *)
(* they differ, checks the client's If-Match revision, validates its       *)
(* change against the snapshot, sends one transaction conditioned on the   *)
(* snapshot's version, and on success applies the change to the snapshot   *)
(* instead of reloading.  A handler may be dropped at any await (the       *)
(* client went away, the branch is stopping, the connection failed); its   *)
(* transaction may then still be on its way to the database.               *)
(***************************************************************************)
EXTENDS SnapshotIndex

CONSTANTS
  Services,       \* services with the branch open (each its own cache root)
  Clients,        \* browser tabs and CLI invocations, one request at a time
  Nobody,         \* the owner of a transaction whose handler is gone
  Inputs,         \* source texts a client may write, as sets of references
  Requests,       \* bound: the kinds of edits clients ask for
  Bundles,        \* imported graphs: [nodes, project, latex]
  InitialBranches,\* contents the branch may have to begin with
  MaxVersion,     \* bound: commits
  MaxWire         \* bound: transactions on their way to the database

Content == [nodes : Graph, project : Projects, latex : LatexProjects]

ASSUME BranchStoreAssumption ==
  /\ Nobody \notin Services
  /\ NoId \notin Ids
  /\ Inputs \subseteq SUBSET Names
  /\ Requests \subseteq {"create", "delete", "rename", "source", "link",
                          "project"}
  /\ Bundles \subseteq Content
  /\ InitialBranches \subseteq Content
  /\ \A b \in InitialBranches :
       ValidGraph(b.nodes, b.project) /\ NoSelfLink(b.nodes)
  /\ MaxVersion \in Nat
  /\ MaxWire \in Nat

VARIABLES
  db,         \* the branch head: data version and content
  minted,     \* UUIDs ever taken, by new nodes or by imported ones
  wire,       \* transactions the database has not processed
  snapshot,   \* per service: the loaded version and content
  referrers,  \* per service: Snapshot::referrers
  index,      \* per service: the remaining projections of the snapshot
  handler,    \* per service: the handler holding the snapshot's mutex
  seen        \* per client: the revision its last response carried

vars == <<db, minted, wire, snapshot, referrers, index, handler, seen>>

Branch == [version : Nat, nodes : Graph, project : Projects,
           latex : LatexProjects]

Seen == [version : Nat, id : Ids \cup {NoId}, rev : Node \cup {NoNode}]

Ops == {"save", "delete", "lean_project", "latex_project", "import"}

\* A transaction with the data version it is conditioned on; read is what
\* the client's If-Match header vouches for.
Request == [op : Ops, client : Clients, base : Nat, docs : Graph,
            id : Ids \cup {NoId}, parents : SUBSET Ids, project : Projects,
            latex : LatexProjects, read : Seen]

Idle == [stage |-> "idle"]
Loaded(c) == [stage |-> "loaded", client |-> c]
Handler == {Idle}
             \cup [stage : {"loaded"}, client : Clients]
             \cup [stage : {"commit"}, req : Request]
             \cup [stage : {"replied"}, req : Request, version : Nat]

TypeOK ==
  /\ db \in Branch
  /\ minted \in SUBSET Ids
  /\ wire \in SUBSET [owner : Services \cup {Nobody}, req : Request]
  /\ snapshot \in [Services -> Branch]
  /\ referrers \in [Services -> [Ids -> SUBSET Ids]]
  /\ handler \in [Services -> Handler]
  /\ seen \in [Clients -> Seen]

Unread == [version |-> 0, id |-> NoId, rev |-> NoNode]

Init ==
  /\ \E b \in InitialBranches :
       db = [version |-> 1, nodes |-> b.nodes, project |-> b.project,
             latex |-> b.latex]
  /\ minted = Live(db.nodes)
  /\ wire = {}
  /\ snapshot = [s \in Services |-> db]
  /\ referrers = [s \in Services |-> ReferrersOf(db.nodes)]
  /\ index = [s \in Services |-> Recompute(db.nodes, db.project)]
  /\ handler = [s \in Services |-> Idle]
  /\ seen = [c \in Clients |-> Unread]

-----------------------------------------------------------------------------
(***************************************************************************)
(* Service::read: lock the snapshot, compare versions, reload if needed.   *)
(* The load is one request whose documents and version belong together.    *)
(***************************************************************************)
ClientFree(c) ==
  \A s \in Services :
    CASE handler[s].stage = "idle" -> TRUE
      [] handler[s].stage = "loaded" -> handler[s].client # c
      [] OTHER -> handler[s].req.client # c

Load(s, c) ==
  /\ handler[s] = Idle
  /\ ClientFree(c)
  /\ snapshot[s].version # db.version
  /\ snapshot' = [snapshot EXCEPT ![s] = db]
  /\ referrers' = [referrers EXCEPT ![s] = ReferrersOf(db.nodes)]
  /\ index' = [index EXCEPT ![s] = Recompute(db.nodes, db.project)]
  /\ handler' = [handler EXCEPT ![s] = Loaded(c)]
  /\ UNCHANGED <<db, minted, wire, seen>>

\* Mutant: a read trusts the snapshot without asking for the head's version.
ServingUnchecked(s, c) ==
  handler[s] = Loaded(c) \/ (handler[s] = Idle /\ ClientFree(c))

\* The handler of client c's request goes on after Service::read.
Serving(s, c) ==
  \/ handler[s] = Loaded(c)
  \/ /\ handler[s] = Idle
     /\ ClientFree(c)
     /\ snapshot[s].version = db.version

Respond(s, c, i) ==
  /\ seen' = [seen EXCEPT ![c] =
       [version |-> snapshot[s].version, id |-> i,
        rev |-> IF i = NoId THEN NoNode ELSE snapshot[s].nodes[i]]]
  /\ handler' = [handler EXCEPT ![s] = Idle]
  /\ UNCHANGED <<db, minted, wire, snapshot, referrers, index>>

\* Mutant: any If-Match revision of the node is accepted.
CheckRevisionAny(s, c, i) ==
  snapshot[s].nodes[i] # NoNode /\ seen[c].id = i

CheckRevision(s, c, i) ==
  /\ snapshot[s].nodes[i] # NoNode
  /\ seen[c].id = i
  /\ seen[c].rev = snapshot[s].nodes[i]

\* Snapshot::resolve: an exact name through the module index, or a UUID.
Resolve(s, ref) ==
  IF ref \in Names THEN index[s].modules[ref]
  ELSE IF snapshot[s].nodes[ref] # NoNode THEN ref ELSE NoId

\* Mutant: a save is conditioned on the head's version, not the snapshot's.
TransactionOnHead(s, c, op, docs) ==
  [op |-> op, client |-> c, docs |-> docs,
   base |-> IF op = "save" THEN db.version ELSE snapshot[s].version,
   id |-> NoId, parents |-> {}, project |-> snapshot[s].project,
   latex |-> snapshot[s].latex, read |-> seen[c]]

Transaction(s, c, op, docs) ==
  [op |-> op, client |-> c, base |-> snapshot[s].version, docs |-> docs,
   id |-> NoId, parents |-> {}, project |-> snapshot[s].project,
   latex |-> snapshot[s].latex, read |-> seen[c]]

Send(s, q) ==
  /\ Cardinality(wire) < MaxWire
  /\ wire' = wire \cup {[owner |-> s, req |-> q]}
  /\ handler' = [handler EXCEPT ![s] = [stage |-> "commit", req |-> q]]
  /\ UNCHANGED <<db, snapshot, referrers, index, seen>>

\* Service::save up to the database request.
Save(s, q) ==
  /\ ValidChanges(snapshot[s].nodes, snapshot[s].project, q.docs)
  /\ Send(s, q)

Only(i, node) == [EmptyGraph EXCEPT ![i] = node]

-----------------------------------------------------------------------------
(***************************************************************************)
(* The handlers.  A request they refuse changes nothing: see Abandon.      *)
(***************************************************************************)
ReadNode(s, c, i) ==
  /\ Serving(s, c)
  /\ snapshot[s].nodes[i] # NoNode
  /\ Respond(s, c, i)

ReadProject(s, c) == Serving(s, c) /\ Respond(s, c, NoId)

\* Node::new draws a fresh UUID; without a parent there is nothing to guard.
CreateNode(s, c, i, n) ==
  /\ Serving(s, c)
  /\ i \notin minted
  /\ minted' = minted \cup {i}
  /\ Save(s, [Transaction(s, c, "save", Only(i, NewNode(n))) EXCEPT
                !.read = [version |-> snapshot[s].version, id |-> i,
                          rev |-> NoNode]])

CreateChild(s, c, i, n, parent) ==
  /\ Serving(s, c)
  /\ i \notin minted
  /\ i # parent
  /\ CheckRevision(s, c, parent)
  /\ minted' = minted \cup {i}
  /\ LET linked == [snapshot[s].nodes[parent] EXCEPT !.deps = @ \cup {i}]
     IN  Save(s, Transaction(s, c, "save",
                   [Only(i, NewNode(n)) EXCEPT ![parent] = linked]))

\* Mutant: the links that referrers hold on the node are left behind.
DeleteNodeOnly(s, c, i) ==
  /\ Serving(s, c)
  /\ CheckRevision(s, c, i)
  /\ Send(s, [Transaction(s, c, "delete", EmptyGraph) EXCEPT !.id = i])
  /\ UNCHANGED minted

DeleteNode(s, c, i) ==
  /\ Serving(s, c)
  /\ CheckRevision(s, c, i)
  /\ Send(s, [Transaction(s, c, "delete", EmptyGraph) EXCEPT
                !.id = i, !.parents = referrers[s][i]])
  /\ UNCHANGED minted

\* A rename also rewrites every other source that refers to the old name.
RenameNode(s, c, i, n) ==
  /\ Serving(s, c)
  /\ CheckRevision(s, c, i)
  /\ LET nodes == snapshot[s].nodes
         old == nodes[i].name
         docs == [j \in Ids |->
                    IF nodes[j] = NoNode THEN NoNode
                    ELSE IF j = i THEN [nodes[i] EXCEPT !.name = n]
                    ELSE IF Rewritten(nodes[j], old, n) # nodes[j]
                         THEN Rewritten(nodes[j], old, n)
                    ELSE NoNode]
     IN  IF n = old THEN Respond(s, c, i)
         ELSE Save(s, Transaction(s, c, "save", docs)) /\ UNCHANGED minted

SaveNode(s, c, i, node) ==
  /\ Save(s, Transaction(s, c, "save", Only(i, node)))
  /\ UNCHANGED minted

\* block and blocks: one or both sources replaced in one transaction.
SaveBlocks(s, c, i, lean, latex) ==
  /\ Serving(s, c)
  /\ CheckRevision(s, c, i)
  /\ lean # NoBlock \/ latex # NoBlock
  /\ SaveNode(s, c, i, [snapshot[s].nodes[i] EXCEPT
                          !.lean = IF lean = NoBlock THEN @ ELSE lean,
                          !.latex = IF latex = NoBlock THEN @ ELSE latex])

DeleteBlock(s, c, i, language) ==
  /\ Serving(s, c)
  /\ CheckRevision(s, c, i)
  /\ SaveNode(s, c, i, [snapshot[s].nodes[i] EXCEPT ![language] = NoBlock])

\* Adding a link that exists answers without a transaction.
AddDep(s, c, i, ref) ==
  /\ Serving(s, c)
  /\ CheckRevision(s, c, i)
  /\ Resolve(s, ref) # NoId
  /\ LET dep == Resolve(s, ref)
     IN  IF dep \in snapshot[s].nodes[i].deps THEN Respond(s, c, i)
         ELSE SaveNode(s, c, i, [snapshot[s].nodes[i] EXCEPT
                                   !.deps = @ \cup {dep}])

RemoveDeps(s, c, i, D) ==
  /\ Serving(s, c)
  /\ CheckRevision(s, c, i)
  /\ \A d \in D : Resolve(s, d) # NoId
  /\ SaveNode(s, c, i, [snapshot[s].nodes[i] EXCEPT !.deps = @ \ D])

\* Both projects are guarded by the version of the whole branch.
PutProject(s, c, p) ==
  /\ Serving(s, c)
  /\ seen[c].version = snapshot[s].version
  /\ ModulesFree(snapshot[s].nodes, p)
  /\ Send(s, [Transaction(s, c, "lean_project", EmptyGraph) EXCEPT
                !.project = p])
  /\ UNCHANGED minted

\* Mutant: the LaTeX project is not guarded by a revision.
PutLatexProjectUnguarded(s, c, l) ==
  /\ Serving(s, c)
  /\ Send(s, [Transaction(s, c, "latex_project", EmptyGraph) EXCEPT
                !.latex = l])
  /\ UNCHANGED minted

PutLatexProject(s, c, l) ==
  /\ Serving(s, c)
  /\ seen[c].version = snapshot[s].version
  /\ Send(s, [Transaction(s, c, "latex_project", EmptyGraph) EXCEPT
                !.latex = l])
  /\ UNCHANGED minted

\* Mutant: an import is merged into whatever the branch holds.
ImportAnywhere(s, c, b) ==
  /\ Serving(s, c)
  /\ ModulesFree(b.nodes, b.project)
  /\ minted' = minted \cup Live(b.nodes)
  /\ Save(s, [Transaction(s, c, "import", b.nodes) EXCEPT
                !.project = b.project, !.latex = b.latex])

\* validate_changes still checks the imported names against the old project.
Import(s, c, b) ==
  /\ Serving(s, c)
  /\ Live(snapshot[s].nodes) = {}
  /\ ModulesFree(b.nodes, b.project)
  /\ minted' = minted \cup Live(b.nodes)
  /\ Save(s, [Transaction(s, c, "import", b.nodes) EXCEPT
                !.project = b.project, !.latex = b.latex])

-----------------------------------------------------------------------------
(***************************************************************************)
(* The database: a transaction commits only against the version it names.  *)
(* One that changes no document may leave the version alone.               *)
(***************************************************************************)
Committed(branch, q) ==
  [branch EXCEPT
     !.nodes = CASE q.op \in {"save", "import"} -> Merge(@, q.docs)
                 [] q.op = "delete" -> Removed(@, q.id, q.parents)
                 [] OTHER -> @,
     !.project = IF q.op \in {"lean_project", "import"} THEN q.project ELSE @,
     !.latex = IF q.op \in {"latex_project", "import"} THEN q.latex ELSE @]

Answer(w, reply) ==
  handler' = IF w.owner = Nobody THEN handler
             ELSE [handler EXCEPT ![w.owner] = reply]

\* Mutant: an import is sent without the version that it is conditioned on.
CommitImport(w) ==
  /\ w.req.op = "import" \/ w.req.base = db.version
  /\ LET after == Committed(db, w.req)
     IN  \E v \in {db.version, db.version + 1} :
           /\ v <= MaxVersion
           /\ v = db.version => after = db
           /\ db' = [after EXCEPT !.version = v]
           /\ Answer(w, [stage |-> "replied", req |-> w.req, version |-> v])
  /\ wire' = wire \ {w}
  /\ UNCHANGED <<minted, snapshot, referrers, index, seen>>

Commit(w) ==
  /\ w.req.base = db.version
  /\ LET after == Committed(db, w.req)
     IN  \E v \in {db.version, db.version + 1} :
           /\ v <= MaxVersion
           /\ v = db.version => after = db
           /\ db' = [after EXCEPT !.version = v]
           /\ Answer(w, [stage |-> "replied", req |-> w.req, version |-> v])
  /\ wire' = wire \ {w}
  /\ UNCHANGED <<minted, snapshot, referrers, index, seen>>

\* Mutant: a conflict moves the snapshot to the head's version unloaded.
ConflictRetagged(w) ==
  /\ w.req.base # db.version
  /\ wire' = wire \ {w}
  /\ Answer(w, Idle)
  /\ snapshot' = IF w.owner = Nobody THEN snapshot
                 ELSE [snapshot EXCEPT ![w.owner].version = db.version]
  /\ UNCHANGED <<db, minted, referrers, index, seen>>

\* 409: the branch moved on; the handler returns without touching anything.
Conflict(w) ==
  /\ w.req.base # db.version
  /\ wire' = wire \ {w}
  /\ Answer(w, Idle)
  /\ UNCHANGED <<db, minted, snapshot, referrers, index, seen>>

\* A transaction nobody waits for may never reach the database.
Lose(w) ==
  /\ w.owner = Nobody
  /\ wire' = wire \ {w}
  /\ UNCHANGED <<db, minted, snapshot, referrers, index, handler, seen>>

-----------------------------------------------------------------------------
\* Snapshot::apply, Snapshot::remove, or a project's replacement, after the
\* database has accepted the transaction.
Apply(s) ==
  /\ handler[s].stage = "replied"
  /\ LET q == handler[s].req
         v == handler[s].version
         local == snapshot[s]
         parents == referrers[s][q.id]
         nodes == CASE q.op = "save" -> Merge(local.nodes, q.docs)
                    [] q.op = "import" -> q.docs
                    [] q.op = "delete" -> Removed(local.nodes, q.id, parents)
                    [] OTHER -> local.nodes
         project == IF q.op \in {"lean_project", "import"}
                    THEN q.project ELSE local.project
         latex == IF q.op \in {"latex_project", "import"}
                  THEN q.latex ELSE local.latex
         links == IF q.op = "save" /\ KeepsShape(local.nodes, q.docs)
                  THEN referrers[s] ELSE ReferrersOf(nodes)
         shown == IF q.op = "save" THEN q.read.id ELSE NoId
     IN  /\ snapshot' = [snapshot EXCEPT ![s] =
              [version |-> v, nodes |-> nodes, project |-> project,
               latex |-> latex]]
         /\ referrers' = [referrers EXCEPT ![s] = links]
         /\ index' = [index EXCEPT ![s] =
              CASE q.op = "save" ->
                     ApplyIndex(@, local.nodes, project, q.docs, links)
                [] q.op = "delete" ->
                     RemoveIndex(@, nodes, project, q.id, parents)
                [] q.op = "latex_project" -> @
                [] OTHER -> Recompute(nodes, project)]
         /\ seen' = [seen EXCEPT ![q.client] =
              [version |-> v, id |-> shown,
               rev |-> IF shown = NoId THEN NoNode ELSE nodes[shown]]]
  /\ handler' = [handler EXCEPT ![s] = Idle]
  /\ UNCHANGED <<db, minted, wire>>

Orphaned(s) ==
  {IF w.owner = s THEN [w EXCEPT !.owner = Nobody] ELSE w : w \in wire}

\* The handler ends early: it refuses the request after its read, its client
\* disconnects, the branch stops, or the database's answer never arrives.
Abandon(s) ==
  /\ handler[s] # Idle
  /\ handler' = [handler EXCEPT ![s] = Idle]
  /\ wire' = Orphaned(s)
  /\ UNCHANGED <<db, minted, snapshot, referrers, index, seen>>

\* The process ends and Service::open loads the branch again.
Restart(s) ==
  /\ handler' = [handler EXCEPT ![s] = Idle]
  /\ wire' = Orphaned(s)
  /\ snapshot' = [snapshot EXCEPT ![s] = db]
  /\ referrers' = [referrers EXCEPT ![s] = ReferrersOf(db.nodes)]
  /\ index' = [index EXCEPT ![s] = Recompute(db.nodes, db.project)]
  /\ UNCHANGED <<db, minted, seen>>

Creations(s, c) ==
  \E i \in Ids, n \in Names :
    \/ CreateNode(s, c, i, n)
    \/ \E parent \in Ids : CreateChild(s, c, i, n, parent)

SourceEdits(s, c) ==
  \E i \in Ids :
    \/ \E lean, latex \in Inputs \cup {NoBlock} :
         SaveBlocks(s, c, i, lean, latex)
    \/ \E language \in {"lean", "latex"} : DeleteBlock(s, c, i, language)

LinkEdits(s, c) ==
  \E i \in Ids :
    \/ \E ref \in Ids \cup Names : AddDep(s, c, i, ref)
    \/ \E D \in (SUBSET Ids) \ {{}} : RemoveDeps(s, c, i, D)

ProjectEdits(s, c) ==
  \/ ReadProject(s, c)
  \/ \E p \in Projects : PutProject(s, c, p)
  \/ \E l \in LatexProjects : PutLatexProject(s, c, l)

Handle(s, c) ==
  \/ \E i \in Ids : ReadNode(s, c, i)
  \/ "create" \in Requests /\ Creations(s, c)
  \/ "delete" \in Requests /\ \E i \in Ids : DeleteNode(s, c, i)
  \/ "rename" \in Requests
       /\ \E i \in Ids, n \in Names : RenameNode(s, c, i, n)
  \/ "source" \in Requests /\ SourceEdits(s, c)
  \/ "link" \in Requests /\ LinkEdits(s, c)
  \/ "project" \in Requests /\ ProjectEdits(s, c)
  \/ \E b \in Bundles : Import(s, c, b)

Next ==
  \/ \E s \in Services, c \in Clients : Load(s, c) \/ Handle(s, c)
  \/ \E s \in Services : Apply(s) \/ Abandon(s) \/ Restart(s)
  \/ \E w \in wire : Commit(w) \/ Conflict(w) \/ Lose(w)

Spec == Init /\ [][Next]_vars

-----------------------------------------------------------------------------
(***************************************************************************)
(* Properties.                                                             *)
(***************************************************************************)
\* Whatever edits different services and orphaned handlers race with, the
\* branch is a closed acyclic graph whose module files are distinct and do
\* not collide with the project's own files (the promise of validate_changes,
\* which every service evaluates on a snapshot that may be out of date).
GraphStaysValid == ValidGraph(db.nodes, db.project)

\* Whenever a snapshot claims the head's version, it is the head: a commit
\* may be applied locally instead of reloaded, and a read may skip the load.
SnapshotCoherent ==
  \A s \in Services : snapshot[s].version = db.version => snapshot[s] = db

\* The incrementally maintained projections always equal what a full
\* recomputation of the same documents would give; a wrong Lean key would
\* attach old evidence to new sources.
IndexCoherent ==
  \A s \in Services :
    LET nodes == snapshot[s].nodes
    IN  /\ referrers[s] = ReferrersOf(nodes)
        /\ ModulesCoherent(index[s], nodes)
        /\ DepthsCoherent(index[s], nodes)
        /\ KeysCoherent(index[s], nodes, snapshot[s].project)

\* The change of node i between two heads is one that a request not naming i
\* may make to it: the removal of a link to a deleted node, or the rewriting
\* of references to a renamed one, applied to the node's latest value.
SideEffect(i, before, after) ==
  \E j \in Ids \ {i} :
    /\ before[j] # NoNode
    /\ \/ /\ after[j] = NoNode
          /\ after[i] = [before[i] EXCEPT !.deps = @ \ {j}]
       \/ /\ after[j] # NoNode
          /\ after[i] = Rewritten(before[i], before[j].name, after[j].name)

\* No lost update: a node that a commit changes or deletes still had exactly
\* the value its editor had read, or the change is a side effect computed
\* from its latest value.  Nothing a client did not see is overwritten.
GuardedEdits ==
  [][\A i \in Ids :
       db.nodes[i] # NoNode /\ db'.nodes[i] # db.nodes[i] =>
         \/ \E w \in wire \ wire' :
              w.req.read.id = i /\ w.req.read.rev = db.nodes[i]
         \/ db'.nodes[i] # NoNode /\ SideEffect(i, db.nodes, db'.nodes)]_db

\* A project is replaced only by a client that had read the head itself, or
\* by an import into a branch that is still empty.
GuardedProjects ==
  [][<<db.project, db.latex>>' # <<db.project, db.latex>> =>
       \E w \in wire \ wire' :
         \/ w.req.op = "import" /\ Live(db.nodes) = {}
         \/ w.req.read.version = db.version]_db

\* A client that sends one request at a time, to whichever service, never
\* reads backwards: every read first compares the snapshot with the head.
MonotonicReads ==
  [][\A c \in Clients : seen'[c].version >= seen[c].version]_seen

\* Every commit is one whole edit of the sequential graph.
Sequential == INSTANCE NodeGraph
  WITH nodes <- db.nodes, project <- db.project, latex <- db.latex

ImplementsNodeGraph == Sequential!Spec
-----------------------------------------------------------------------------
(***************************************************************************)
(* The inductive invariants behind GraphStaysValid, SnapshotCoherent and   *)
(* IndexCoherent (proved in BranchStoreProofs).                            *)
(***************************************************************************)
VersionsBounded ==
  /\ \A s \in Services :
       /\ snapshot[s].version <= db.version
       /\ handler[s].stage = "replied" => handler[s].version <= db.version
  /\ \A w \in wire : w.req.base <= db.version

ProjectionsShaped ==
  /\ DOMAIN index = Services
  /\ \A s \in Services :
       /\ DOMAIN index[s] = DOMAIN NoIndex
       /\ index[s].modules \in [Names -> Ids \cup {NoId}]
       /\ referrers[s] = ReferrersOf(snapshot[s].nodes)

\* A transaction with an owner is the one its owner's handler waits for.
OwnersWait ==
  \A w \in wire, s \in Services :
    w.owner = s => handler[s].stage = "commit" /\ handler[s].req = w.req

\* What a handler holds still describes the snapshot it locked, and an
\* accepted transaction at the head is the head.
HandlerAgrees(s) ==
  LET h == handler[s]
  IN  /\ h.stage \in {"commit", "replied"} =>
           /\ h.req.op = "delete" =>
                h.req.id \in Ids /\ h.req.parents = referrers[s][h.req.id]
           /\ h.req.op = "import" => Live(snapshot[s].nodes) = {}
      /\ h.stage = "commit" => h.req.base = snapshot[s].version
      /\ h.stage = "replied" /\ h.version = db.version =>
           db = [Committed(snapshot[s], h.req) EXCEPT !.version = h.version]

\* Each transaction on its way, abandoned or not, either names a version the
\* head has left or would turn the head into a valid graph.
WireStaysValid ==
  \A w \in wire : w.req.base = db.version =>
    LET after == Committed(db, w.req)
    IN  after \in Branch /\ ValidGraph(after.nodes, after.project)

\* The snapshots behind IndexCoherent: each is a valid graph, and so is the one
\* that an accepted transaction will make of it, stale as both may be by then.
ServiceRight(s) ==
  /\ ValidGraph(snapshot[s].nodes, snapshot[s].project)
  /\ IndexRight(index[s], snapshot[s].nodes, snapshot[s].project)
  /\ handler[s].stage = "replied" =>
       LET after == Committed(snapshot[s], handler[s].req)
       IN  ValidGraph(after.nodes, after.project)

ProjectionsRight == \A s \in Services : ServiceRight(s)

Inductive ==
  /\ TypeOK
  /\ GraphStaysValid
  /\ SnapshotCoherent
  /\ VersionsBounded
  /\ ProjectionsShaped
  /\ OwnersWait
  /\ \A s \in Services : HandlerAgrees(s)
  /\ WireStaysValid
=============================================================================
