# A TLA+ model of MathDoc

MathDoc (`mdc`) keeps a graph of mathematical documents. Every node has a
qualified name, a Lean and a LaTeX source and links to the nodes it depends on.
A branch of such nodes is versioned in TerminusDB. A *service* loads one branch
and answers an HTTP interface over it, one *entry server* per machine starts and
stops services, and each service runs Lean and LaTeX workers over the sources.

This directory holds TLA+ modules translated from the Rust sources in `src/`,
TLC instances that check them, and TLAPS proofs. `PROJECT.json` maps every
definition to the lines it stands for.

    tlc -workers 2 -config MCBranchStore_race.cfg MCBranchStore
    tlapm BranchStoreProofs.tla

## The system

| Component | State | Operations | Talks to |
|---|---|---|---|
| Branch store (`store.rs`, handlers of `service.rs`) | a `Snapshot`: version, nodes, projects and projections, behind one mutex | read, create, delete, rename, blocks, links, projects, import | TerminusDB, over HTTP, one transaction per edit |
| Snapshot projections (`store.rs`, `core/algorithms.rs`) | module index, referrers, depths, Lean prefixes and keys | rebuild on load, maintain on apply and remove | branch store, Lean checks |
| Cache lease and discovery (`file_lock.rs`, `service.rs`) | `service.lock`: an inode, its flock, the address in it | acquire, confirm, clear, record, probe, retire | other processes, through the file system |
| Entry server (`server.rs`, `server/projects.rs`) | a slot per branch, the operations lock, the restore list in memory and on disk | start, stop, remove, delete, restore, shutdown | services (calls), the command line (leases), the database |
| Lean checks (`lean.rs`, `lean/certificates.rs`) | a result per node, certificates on disk, `synced` | check, certify from an editor, restore, status | snapshots, compiler processes, other services of the database |
| Service drain, editor slots (`service.rs`) | request gate, `stopping`, reserved sessions | guard, reserve, expire, connect, close, shutdown | editors, workers |
| Lean editor bridge (`lean/editor.rs`, `lean/transport.rs`) | document versions, pending native requests | relay, observe, certify | browser, Lean server |
| Native cache and collection (`lean/cache.rs`, `lean/gc.rs`, `lean/native_cache.rs`) | pools, shared and exclusive leases, access markers | attach, touch, collect | compiler processes, other services |
| LaTeX worker (`latex/*.rs`) | one worker process, permits, `stopping` | preview, time out, shut down | renderer process |
| Graph algorithms (`core/algorithms.rs`) | none | depths, weak and strong components | projections, metrics |
| Web sessions (`web/src/lib`, `web/src/features/editor`) | selection, drafts, history, previews | select, save, navigate, reconnect | service |
| Command line, configuration, assets, graph view, packaging | none beyond a call | | |

### What is hard about it

*One database, several writers.* Two services may serve one branch (on two
machines, or across a restart), and a handler whose client has gone away is
dropped at an await, its transaction still on its way. Nothing locks the branch:
an edit is validated against the service's snapshot and sent with the version of
that snapshot. The commit is then *applied* to the snapshot, not reloaded.
Correct means: the branch stays a closed acyclic graph with distinct module
files, snapshots and projections agree with the head whose version they carry,
no client overwrites what it has not seen, none reads backwards, and each commit
is one whole edit.

*One cache, several processes.* A server, command-line deletions and probes meet
at a lock file whose directory a deletion renames away, and any of them may be
killed between two system calls. Correct means: one owner at a time, and a
running service is found.

*One server, concurrent management.* Starts run without any registry lock while
they load a branch. Removals and the shutdown exclude other operations, but
command-line deletions know only the leases. Correct means: no served branch is
deleted, the restore list is what a crash should bring back, a shutdown leaves
nothing open, and nothing stays in between.

*Evidence about many revisions.* Lean results are per node in memory and per
recursive input key on disk. Checks of several revisions of a node overlap, and
each combines what it compiled with what is known of the dependencies. Correct
means: a shown status is the truth about the present sources, however the
evidence came about, and evidence is found again after a restart.

*One artifact cache, writers that may outlive their service.* A collection
deletes objects by what mappings name and by age, while compilers write, checks
answer "built" because the objects are there, and either may be killed halfway.
Correct means: nothing in use goes, a mapping keeps its objects however a
collection ends, and what no one uses comes down to the budget.

*Evidence that arrives late.* The editor bridge certifies a saved source from
messages it has watched go by, between a browser that edits and a native server
that answers some messages later, over a workspace that other requests rewrite.
Correct means: a certificate rests on all that was said of exactly its source, in
exactly the dependencies it names.

*Tasks that nobody waits for.* Connections, expiry timers and previews outlive
the requests that started them, and slots, permits and the one LaTeX worker go
back and forth between them. Correct means: live sessions never exceed the slots,
a preview is answered with its own rendering, and a shutdown leaves nothing that
goes on, and ends.

Not modelled yet, and equally hard: late answers in the browser.

## Modules

| Module | Models | Role |
|---|---|---|
| `NodeData` | nodes, validation, rename and removal (`store.rs`, `names.rs`) | pure operators |
| `SnapshotIndex` | projections, from scratch and incrementally (`store.rs`) | pure operators |
| `NodeGraph` | a sequential graph that changes by whole valid edits | abstract specification |
| `BranchStore` | services, handlers, transactions and the branch head | detailed; implements `NodeGraph` |
| `CacheLease` | `service.lock`, its holders and probes | state machine |
| `ServerRegistry` | the entry server, its tasks and command-line deletions | state machine |
| `LeanCheck` | checks, results, certificates and statuses | state machine |
| `CacheGC` | pools of Lean artifacts, their users and their collection | state machine; a plan as a set |
| `EvictionLoop` | the loop that makes the plan, with its counts of references | shown to make the plans of `CacheGC` |
| `EditorObserver` | a browser, the bridge and its observer, a native server, a workspace (`lean/editor.rs`, `service.rs`, `lean.rs`) | state machine |
| `ServiceDrain` | editor sessions, previews and the shutdown of a service (`service.rs`, `latex/runtime.rs`) | state machine |
| `MC*` | instances of the seven state machines | for TLC |
| `SnapshotIndexProofs`, `BranchStoreProofs`, `CacheLeaseProofs`, `ServerRegistryProofs`, `LeanCheckProofs`, `CacheGCProofs`, `EditorObserverProofs`, `ServiceDrainProofs` | | for TLAPS |

### BranchStore

`db` is the head: version, nodes, projects. Per service, `snapshot`, `referrers`
and `index` are the fields of `Snapshot`, and `handler` is the request that holds
its mutex: idle, waiting for a commit, or replied. `wire` holds the transactions
on their way, each with the handler that waits for it or `Nobody`; `seen` is what
each client last read and will send in `If-Match`; `minted` are the UUIDs ever
given out. `Load` is the reload of `Service::read`; the action of a request is
the handler from there to its transaction (its reads need no await in between);
`Commit`, `Conflict` and `Lose` are the database; `Apply` is
`Snapshot::apply`/`remove` and the reply; `Abandon` is a handler that ends early
and `Restart` a process that ends.

The database is external and modelled by what the code relies on: a transaction
with an `ETag` precondition commits exactly if the head still has that version
(`TerminusDB-Data-Version`), wholly, and a change of no document may leave the
version alone. A source is the set of qualified names it mentions, the only part
another node's rename changes; a revision (a digest of the node) is the node; a
Lean key (a digest) is the nested value it hashes.

The projections are pure operators (`SnapshotIndex`). Depths are computed the way
`all_topo_depths` does it, by a queue of nodes whose dependencies have all left
it; `DepthsCoherent`, a part of `IndexCoherent`, compares them with depths by
definition. The order in which nodes join the queue is that of a hash map and is
taken to be any; the model has one, for the result does not depend on it. Each
loop of the code is a recursive function on its turns: the queue (`DepthsOf`), the
growing set of dependents (`Upward`) and the hashing of keys, depth after depth.
None has more turns than there are nodes; a turn with nothing to do changes
nothing.

`NodeGraph` has the same edits with no services, versions or transactions.
`ImplementsNodeGraph` maps its graph to the head.

### CacheLease

`path` is the inode that `service.lock` names, `record` the address in each inode.
A keeper (a server or a deletion) goes through open, flock, comparison with the
path, truncation and either the address or the renaming of the directory; a
prober through open, shared flock, read and comparison. Each system call is one
action, and `Leave` and `Forget` end a process at any of them. `gone` and
`steady` are history: which services had ended when a probe began, and which has
served throughout. `Retire` locks all directories that it takes away; those that
appear in a database's cache after `delete_database` has listed it are renamed
unlocked. A server adds none then, for it either holds the operations lock that
such a deletion needs or does not run, but the deletion of another branch of the
database from the command line may, and this is outside the model.

### ServerRegistry

`slot` is `Server::branches` (absent, reserved while it changes, open); `lease`
says who owns each branch's cache, with `CacheLease` in one step; `task` is each
management operation and its stage, `queue` the waiters of the operations lock;
`remembered` and `file` are the restore list in memory and on disk. `borrowed`
are branches whose `Arc<Service>` a request or status poll still holds, which
keeps the lease beyond the end of a stop. The write of the restore list is one
step, since it replaces the file by a rename, and may fail. The token that a stop
request carries is left out: a stale one is refused before anything changes.

### LeanCheck

`head` holds each service's sources, `results` and `synced` are fields of
`LeanService`, `store` the certificates on disk, `check` the checks under way
and what they captured. `synced` is Boolean: the pair it stands for (branch
version, store generation) only matters by being current. A check goes through
the cache look-ups, the per-key exclusion across services, the compiler workers,
`record_check` node after node, and the second read that makes a stale answer a
conflict. The compiler is external: it accepts a file if no file below is broken
and reports a `sorry` of the file's own. `opened` is what a service knows of the
store: it can be opened if the pinned compiler is installed and says within five
seconds which one it is. Reads try once, checks try again after a failure, and
a check that cannot open it goes on, without restoring or storing anything. `missed` is
history, the keys that were certified at such times; `StoreClosed` makes an exception
for them, and `ReadRestores` is about reads of an open store. A certification by the editor is the
second half of the same path. Left out: `build = true` and artifacts that go
missing, disagreement of imports with links, the native revalidation of imports,
and the two halves of `publish` (file, then memory), whose reader sees either.

### CacheGC

`files` are the artifacts on disk (objects, mappings that name objects,
certificates), `torn` the mappings a killed writer left incomplete, `pending` the
`gc.pending` markers. A `task` is a check, a native Lake process, an *orphan* (the
native child whose wrapper has died; it inherited the leases) or the import of a
private cache that an older version left behind; `relies` are the objects its
answer rests on. Locks are not variables: who holds `live.lock`, `access.lock` and
`lease.lock` of a pool follows from `service`, `task` and `collector`. Users poll for a
lease without having done anything, so one that waits has not begun. A
collector takes the three leases of a pool in one step (`Guard`; a failure to get
the second releases the first, and the pool is `Busy`), plans when it has gone
through its pools, deletes file by file and answers the requests.

The order of last use may be any order. So `Evictions` is a *set* of plans: evict
mappings while the limit is exceeded, and with them the objects no mapping
left names. The code computes a plan by a loop with reference counts;
`EvictionLoop` has that loop, as a recursive function on its turns, and
`LoopPlansEvictions` says that over all orders it yields these plans and no other.

An import links files and thereby keeps their age, or copies them where it cannot
link, and makes them young. `Kill` also stands for a native process whose wrapper fails on
the way (`guarded_lake`, each `?` after the leases): it leaves what it has
written and asks for no collection.

Left out: the clock (a collection is possible at any time; `young` is what is
newer than the cutoff, fixed before the leases are taken), statistics, and what
Lake does inside a build beyond reading a complete mapping and writing objects
before the mapping, which is external. A dry run is an `Abort`, and `gc.lock` is
the guard of `Tick`.

### EditorObserver

One browser session with a document per node of `Docs`. `head` is the branch, which
others change (`Save`). `session` is `lean_session`'s reserved `Input` and later the
connection; `disk` and `sources` are the workspace and what the bridge's `SourceState`
says of it, which differ after a request that was cut short. `observer` is
`Observer`: the inputs selected (`prepared`), the recursive keys (`keys`), the open
documents and the pending requests. `custom` is the request of the bridge's own
that is being served (`mdc/selectNode`, `mdc/certify`), step by step between its
awaits. `toLean` and `fromLean` are the two pipes, `lean` the native server's worker
of each document.

The actions of the browser are `Observer::client` followed by the native input;
`Observe` is `Observer::server`; `Refresh`, `Prepare`, `Certify`,
`RecordEditorCheck`, `Confirm` and `TimeOut` are the serial loop of custom requests
in `bridge_editor`. The native server is external, and may do what the protocol
allows: take messages in order, load the dependencies it finds on disk at any
time after it was started, load them again after a change or not, publish what it
has to say of a version in two messages of which the second adds to the first,
and answer a wait when that version or a later one is done. Files are written one
by one, dependencies first, and a time-out may leave one written that `sources`
does not know of.

A source stands for itself; a recursive key for the sources it hashes. What a
worker says (`Part`) carries the text and the dependencies it is about, which no
code reads: the properties compare it with what a certificate claims. `past`,
`returned` and `reused` are history.

The bridge keeps pending requests by the identifier that the browser gave them and
checks none: a request under the identifier of one that is under way (`InUse`: in the
map, in a pipe or with the server) replaces the entry, and a reply of either then
counts as the second's. In the model any request may do so, and `reused` says that
one has; a reply of the wrong kind ends the session where the code cannot read it
(`Unreadable`). `EvidenceExact` fails with such requests (see the further counterexamples);
`EvidenceUnlessReused` and `EnvironmentUnlessReturned` are about sessions in which none
was made. The web client numbers its requests and makes none.

Left out: modules that are renamed or removed while a
session lasts (their files are removed by `refresh_editor_sources`), a change of the
project key (refused by the bridge), the limit of 256 pending requests, which ends
the session like any error, `mdc/validationState`, which reads what `Observed` says,
native requests that the observer does not track (an identifier shared with one of
them is the case `reused` again),
and the inspection of compiled artifacts of dependencies, of which
`RecordEditorCheck` keeps the comparison of sources.

### ServiceDrain

What a service runs beside its transactions, and `Service::shutdown` statement by
statement: `shutdown` is where it is, and `stopping`, the closed semaphore and
the worker's own stop flag follow from that. `editors` is the map of sessions,
`reserving`, `connecting` and `closing` the requests of `lean_session`,
`editor_socket` and `close_editor`, `task` a connection's task and `told` its
cancellation. `HoldsSlot` says where the permits are, `Readers` who holds the gate;
neither is a variable. `client` and `job` are the two halves of
`LatexService::request`: the request, which may be dropped at any await, and the
spawned task, which goes on. `line` is the mutex of the worker with those who wait
for it, in order; `worker` the Python process and its two pipes, with the project
the service thinks it has (`sent`) and the one it has (`config`).

A request that is dropped is an action of its own (`Drop...`), as is a task that
loses its race with the stop flag (`StopJob`). `Render` is external, as is what
makes a connection end. A closed entry returns its slot before the connection
has gone, so slots bound *live* sessions (`LiveSessionsBounded`), not directories.
`close_editor` drops the entry, which returns the slot (`CloseEntry`), and tells the
connection in its next statement (`CloseTask`); another thread may take the slot in
between, so `LiveSessionsBounded` does not count a connection that is about to be told.
The wait of at most three seconds for each editor is left to chance, so
`NothingAfterShutdown` claims only what the code ensures: what is left of a
connection after the shutdown has been told to end.

## Runs

| Run | Question | Bounds |
|---|---|---|
| `race` | do edits of two services and of abandoned handlers keep the branch valid and snapshots coherent, is an update lost, or read backwards, may an import commit over what was created since it was decided? | 2 services, 1 client, 2 nodes or an empty branch at the start, 3 names of which 2 share a file, 2 transactions on the wire, 3 versions |
| `edits` | are the projections right after every edit, and is each commit one edit? | 1 service, 3 nodes, 4 names, a chain or an empty branch at the start, all edits, an import and both projects, 3 versions |
| `lease` | one owner, and is a running service found? | 3 keepers, 1 prober, 3 inodes, 2 services |
| `registry` | are served branches safe, the restore list exact, a drained server empty? | a database of 2 branches, 2 tasks |
| `registry_live` | does every change of state, and every shutdown, end? | 1 branch, 2 tasks |
| `lean` | are statuses true, certificates closed, checks decided by their own inputs? | 1 service, 2 checks, lemma and theorem, 3 sources (2 of the theorem), 1 change, a store that may not open (at most 1 key missed at a time) |
| `lean_status` | does a certified node show it? (violated) | 1 service, 1 check, 2 changes |
| `gc` | does what is in use stay, and is a plan what it should be? | 1 pool, 2 mappings that share an object, 1 certificate, 1 service, 2 tasks, a manual collection, any number of kills and aborts |
| `gc_live` | do unused caches come down to their budget, unless a kill left a mapping half-written? | 2 pools under one budget, 1 task, an automatic collection, a kill and an abort |
| `observer` | does a certificate rest on what was said of its source, in its dependencies, as long as no identifier is used again? | 1 document with 1 dependency, 2 sources each, 2 changes of the dependency, 2 versions, 1 request under way, 1 message in each direction |
| `observer_returned` | were the dependencies of a certificate those the worker had loaded? (violated) | as `observer`, without requests that share an identifier |
| `drain` | do sessions, previews and the shutdown end as they should? | 2 sessions for 1 slot, 2 previews of 2 projects, 2 of all these under way at once |

The bounds and why they are enough. Two services and two pending transactions
give every pairwise race, and the third version lets a transaction be late by
one and by two commits; three nodes in a chain are needed for a key that changes
two levels above an edit and for depths that differ by more than one; two names
with one file make a collision that the exact names do not show. `edits` has one
service, hence no commit between the decision of an import and its own; `race` has two, and from
an empty branch lets creations come in between, which such an import would overwrite
(`GuardedEdits`) or join with an equal name (`GraphStaysValid`). That it then commits
into an empty branch or not at all is part of `ImplementsNodeGraph` and `GuardedProjects`,
which are proved for any number of services. `CacheLease`
needs three keepers for the take-over case: one holds the old inode, one
retires it, one creates the new one. Inodes are reused once nobody refers to
them, so three suffice for any length of run; tokens are not, and two make one
service follow another. In `ServerRegistry`, two branches of one database let a
removal meet a start or a deletion of one branch while it stops the other, and
the main branch and a fork differ in what may delete them. In `LeanCheck`, two
revisions of two nodes and two overlapping checks mix evidence in every way a
pair can; restarts lose the memory and keep the store. The constraint of that run
(`FewCases`) keeps the theorem from being broken (a broken lemma shows what a broken
source does) and at most one key missed at a time, which is enough for a certificate
whose import has none.

In `CacheGC`, an object that two mappings share is what reference counts are about,
and an object of a mapping's own is what must go with it; one task that writes and
one that reads meet the collection in every order, and kills and aborts leave
states from which the run goes on. In `gc_live` one of each is allowed: for ever
killed builds and aborted collections, nothing comes down to any budget. Two pools let one be busy
while the other is collected. A budget of one unit gives a target of zero (four
fifths, rounded down), the boundary where everything old must go.

In `EditorObserver`, a theorem and its lemma, two sources each and two changes of the
lemma give a dependency that changes, and one that changes back. The theorem's
own source changes in its document, with two versions and any number of closings
and reopenings: what the branch holds is compared with it, and does not itself
change in this instance. One message in each direction, one more at each end (the
worker's state, the request being served) and a pending request make an answer
late by a reopening, a change or a reconnection. The views of that module
leave out what no later step and no property reads. `Deciding` leaves out the theorem's
own file, which no worker loads as a dependency, and an input's text of the theorem
once it has been compared. `Claimed` moreover takes all sessions that have used an
identifier again for one, since `observer` claims nothing of them and the next session
starts from the branch alone. `observer_returned` excludes such
requests instead (`OwnIdentifiers`). Symmetry exchanges the two sources of each node.

In `ServiceDrain`, two sessions compete for one slot, two previews of different
projects for the worker, or one of each meets the shutdown; `MaxWork` bounds how
many are under way, since sessions and previews share nothing but the gate. An
identifier that is over is used again, so runs are unbounded in length.

`MaxVersion` and `MaxWire` bound commits and transactions, `MaxSaves` the changes
of sources, `MaxKills` and `MaxAborts` the processes and collections that end
early (`NoLimit` in `gc`), `Checks`, `Tasks`, `Inodes` and `Tokens` what exists at once or ever.
`BranchStore` stops when versions run out only in its commits: a read or a
restart is always possible, so deadlock is checked everywhere. A
stopped service stops for good, so deadlock is not checked in `drain` alone.
Symmetry is used for services, clients, processes, inodes, tasks, checks and
sources, in runs without liveness.

### What the violated runs show

* `lean_status`: A branch changes while a check of its former inputs waits. A
  read restores the certificates of the present inputs and sets `synced`. The
  check finds *its* inputs certified, restores those over the present results
  (one result per node) and returns from the cache (`lean.rs`, `cached_input`)
  without resetting `synced`. Until the next change of branch or store, reads
  skip the restoration and show the nodes unverified. Statuses are never wrong
  (`StatusTrue`), but evidence is not shown.
* `observer_returned`: A connection is reserved and opened in the first source of a
  dependency, which changes; a `selectNode` has written the new source when its
  time ends, before `sources` takes note. A worker loads the file, and the dependency
  changes back. The document was opened in the environment of the first source,
  which is the present one again; `refresh_editor_sources` would skip the file; and
  `record_check` compares no file of a dependency that another check has
  certified. So a certificate names dependencies other than those the worker had
  loaded. `EnvironmentUnlessReturned`, in the run `observer`, says that this takes
  a source that returns. The workers of checks use the same function and the same
  kind of `sources` (`prepare_input`), and are as exposed to a request that is dropped
  there; `LeanCheck` takes their files to be those of the input.

### Further counterexamples

Four more statements of the documentation, and two properties without the exceptions
that the runs make, do not hold of the models. Their configurations lie beside
those of the runs.

* `MCCacheLease_leftover.cfg`, `LeftoverIsNoEvidence`: `acquire_lease` locks first
  and truncates later. A probe in between reads the former owner's address and
  takes it for a running service.
* `MCServerRegistry_forget.cfg`, `RemovalForgets`: a background server has no
  restore list, so its removal of a project leaves the entries of an earlier
  foreground run in the file.
* `MCCacheGC_requests.cfg`, `RequestsKept`: `collect_pools` fixes its cutoff before it
  takes the leases. A build that ends in between leaves objects that are exempt as
  too young, and a request that this collection answers. Caches stay over budget,
  with no request, until the five-minute scan; `BudgetMet` holds only because of
  that scan.
* `MCEditorObserver_reused.cfg`, `EvidenceExact`: A document is opened and its diagnostics
  are awaited. It is closed, which removes the pending request, and opened again under
  the same version, and a second request takes the first one's identifier while the old
  worker's reply is on its way (`editor.rs`, `pending.insert`, checks nothing). The reply
  is taken for an answer to the second request and the new document for complete,
  with what has been said of it so far. The notes on compiler internals say that "Replies
  from closed workers cannot certify reopened documents". The web client cannot get
  there, since its JSON-RPC library numbers the requests of a connection. The constraint
  `SameRequest` of that configuration has one identifier for waits and one for imports.
* `MCCacheGC_torn.cfg`, `BudgetMetByAll`: a writer killed within a mapping leaves a file
  that no collection can read. Each collection, of whichever pools, then fails before
  it deletes anything (`gc.rs` treats it as an error so as to lose nothing), until a build
  writes the mapping again or its database is deleted. So the budget is met only
  if no such mapping is left (`BudgetMet`).
* `MCLeanCheck_missed.cfg`, `ImportsStored`: a lemma is certified while the store cannot
  be opened, and its theorem, by the same check or a later one, when it can. The lemma's
  certificate stays out of the store as long as the service knows it in memory, so after
  a restart the theorem's cannot be restored until the lemma has been checked again.

Read off the code and not made a property: the shutdown waits three seconds for
each editor, while the end of a connection may take longer (time-outs of its own
for the native server), and the removal of its directory is awaited by nobody. The
development notes on compiler internals say that service shutdown waits for editor
cleanup.

### Fairness

Safety runs assume none. `FairSpec` of `ServerRegistry` assumes weak fairness of
the steps a started task takes by itself: management operations are spawned
tasks that run to their end when the client has gone (`project_request` and
`projects::manage` use `tokio::spawn`), database requests time out
(`Terminus::from_env`), native shutdowns have time-outs, and tokio's `RwLock` serves
its waiters in order (`queue`). Nothing is assumed of requests, crashes, status
polls that hold a service, command-line processes or the server being started.
`LiveSpec` of `CacheGC` assumes that the timer of a running entry server fires
again and that a collection under way goes on (it is one blocking call with no
wait but for locks it only tries); nothing of tasks and manual runs, whose end
`BudgetMet` therefore has in its premise (`Idle`: for good, no check, build, import or
manual collection is at work).
`Spec` of `ServiceDrain` assumes that the shutdown goes on (it is one future, spawned
and awaited), that requests of a service that stops are dropped (`local_origin`
selects on the stop flag), that `close_editor` gets from a statement to the next with no
await in between (`CloseTask`), and that a preview's task goes on: it is spawned, each
of its waits has a time limit or is the worker's lock, which is handed over in
order. Nothing is assumed of browsers, connections or the renderer; `Fail` stands
for the time limit, so `WorkEnds` does not rest on an answer.

## Proofs

`BranchStoreProofs` proves, for any sets of nodes, names, services and clients
and any bounds, that the conjunction `Inductive` is an invariant, and from it
`TypeOK`, `GraphStaysValid`, `SnapshotCoherent`, `WireStaysValid` and `IndexCoherent`.
`GraphStaysValid` alone is not inductive: a commit is valid only because of what was validated when it was sent.
`WireStaysValid` carries this across: each transaction on its way, owned or not,
names a version that the head has left, or turns the present head into a valid
graph. It needs versions never to be reused (`VersionsBounded`), snapshots to be
the head when they carry its version (`SnapshotCoherent`), which in turn needs
that an accepted transaction applied to the snapshot gives the head
(`HandlerAgrees`), that a handler's transaction is its own (`OwnersWait`), and
that the referrers a deletion uses are those of the graph (`ProjectionsShaped`).
Acyclicity is stated over sets (each nonempty one has a member that depends on
none of it), so that removal and rewriting need no induction. The assumptions are those of `NodeData` and `BranchStore` on
constants: nodes are finitely many, the names of absent values lie outside the sets
they are absent from, initial branches are valid, and bundles are well formed.

`IndexCoherent` is about what each edit leaves of projections that are maintained and
not recomputed. `SnapshotIndexProofs` has the part about the operators, in three
results: `RecomputeRight`, `ApplyIndexRight` and `RemoveIndexRight` say that the
projections of a valid graph are right (`IndexRight`) after a load, and stay right
when a transaction is applied or a node removed. The library's induction theorems
cannot be used with the installed provers, so recursion goes by the least
stage at which a claim fails (`StageInduction`, from the well-foundedness of finite
subsets), and that the recursive functions exist at all is proved the same way
(`PoppingExists`, `GrowingExists`, `HashingExists`). For the depths, `DepthsRight` says of a
stage which nodes have left the queue, that each of these is one above its deepest
dependency, that the others count their dependencies that have not left, and that
the queue lists the ready ones, each once; it runs dry only when all have left,
since of the rest of an acyclic graph one would be ready (`AllPopped`). `Upward` is
closed because a set that grows at each turn is the whole after as many turns as
there are nodes. A key is hashed after those it contains because depths rise along
links (`HashedRight`), and the nodes whose keys are not hashed again have kept
everything below them (`RefreshRight`).

In `BranchStoreProofs`, the invariant `ProjectionsRight` carries this through the system:
each snapshot is a valid graph with right projections, and if its handler's
transaction has been accepted, what it will be applied to yields a valid graph too.
It holds more than `IndexCoherent`, which does not mention the cached Lean prefixes
although an update of the keys reads them. That the result is valid comes from the
database's side: at the commit the snapshot is the head (`SnapshotCoherent`,
`OwnersWait`) and the transaction is valid there (`WireStaysValid`); it is used when the
handler gets to run again, when the head may have moved on.

`BranchStoreProofs` also proves that `BranchStore` implements `NodeGraph` (`ImplementsNodeGraph`)
and the action properties `GuardedEdits`, `GuardedProjects` and `MonotonicReads`. All of
them are about what a commit does to a head that its handler saw only through its
snapshot, perhaps long ago and perhaps abandoned since. So `SentKept` says of every
transaction that the database would still accept that it is a whole edit of the
*present* head (`Whole`) and that what it overwrites is what its client read, or
follows from it (`Guarded`, `ProjectsGuarded`). It is established once per handler
(`HandleTurn`: each handler answers or sends such a transaction), needs that fresh UUIDs are
not in the graph (`minted`), and stays because a head that keeps its version
keeps its content. Each commit is then one step of `NodeGraph` (`SequentialStep`). For the
reads, `ReadsKept` says that a client waits for one handler at a time, whose snapshot is
not older than anything that client has read.

`CacheLeaseProofs` proves for any number of processes, inodes and services that
`TypeOK`, `OneOwner`, `RecordNamesService` and `ProbeFindsService` are invariants.
`OneOwner` follows from `LockExcludes` (flock per inode) and `OwnersCurrent` (who
has confirmed the inode owns the one the path names); the latter is inductive
since only an owner can rename the directory away. `ProbeOnService` says that a
probe holds the file of the service that has served throughout.

`CacheGCProofs` proves for any pools, files, references among them, services, tasks,
collections and budgets that `TypeOK`, `UsesSurvive`, `CertificatesKept` and
`EndsWithinBudget` are invariants, and the action property `MappedKeepsObjects`.
That used objects survive is a fact about two processes which never see each
other: `HeldAlone` (leases exclude users and other collections) must be carried
together with `DoomedSafely` (what is doomed is old, whole, in a pool that is held,
and doomed with everything that names it), since files are deleted one by one and
the user arrives between two of them. `EndsWithinBudget` needs `PlansSuffice`: at each
deletion, what will be left once the *whole* plan has been carried out (`Left`) is
within the budget, or everything that may go is doomed; an abandoned plan claims
nothing. Cardinalities go through `OneLess` and `DeletedSuffices`.

For `LoopPlansEvictions` it shows that each turn of the loop has the plan of the set of
mappings evicted so far (`PlanOf`, `LoopStep`): the counts are of the mappings left that
name an object, so an object goes with the last of them. The set is as large as it
may be or enough, and was not enough without its last member (`EvictedOf`), which is what
an eviction is. In the other direction, each eviction is that of an order which lists its
members first, and last the one without which it was not enough (`OrderFor`);
the loop stops at none of them before, because what remains only shrinks
(`FewerRemain`). The assumptions: kinds of files are disjoint, a mapping names objects
of its own pool (each pool is one artifact directory), the budget is positive, and
objects and mappings are finite.

`ServiceDrainProofs` proves `TypeOK`, `LiveSessionsBounded`, `NothingAfterShutdown` and
`AnswersExact` for any numbers of sessions, slots, previews and projects. For the
first: permits never exceed the slots (`SlotsKept`), and a connection that has not
been told to end still has its entry, in the map or in the hands of the shutdown, or
is about to be told by the request that dropped it (`ToldUnlessHeld`). For the
shutdown: `StagesKept` says what each statement of it
has achieved, in particular that no request is inside the gate when the map is taken, so
that none can insert afterwards. For the answers: the two pipes of the worker hold
the request of the one task that has asked, or its answer, and nothing else
(`PipesMatch`), though any request may be dropped meanwhile; the project that the
service thinks the worker has is the one it has, unless a request is on its way.
The assumptions: positive slots, finite sets, and model values that are distinct.

`ServerRegistryProofs` proves `TypeOK`, `ServedExists`, `OpenRemembered`, `RestoreListExact`
and `DrainedEmpty` for any databases, branches and number of operations. A slot is
reserved exactly if *one* operation is changing it (`SlotsOwned`); the lock is held
by many starts or by one operation that excludes them (`LockKept`), and those in
its line wait once (`QueueKept`). `LeasesHeld` says who keeps a cache while a
request still has its service. `ListKept` explains each entry of the restore
list (open, to be opened, failed to be restored, or between the write of the list and
publication), which `RestoreListExact` cannot say by itself since the list is
written before the slot changes; `PhasesKept` says who may be at work in each phase
of the server. `WorkShaped` lists the stages of each operation. The assumptions:
databases do not share branches, each has one main branch, and identifiers of
processes differ from the marks used for nobody.

`LeanCheckProofs` proves `TypeOK`, `StatusTrue`, `StoreClosed` and `CheckDecides` for any
graph, services, checks and compiler workers, and the action property
`ReadRestores`. The invariant says of each result, wherever it is kept, that it is
sound for the inputs it names and, if certified, has its certificate or was `missed`
(`Valid`, `Known`):
a result may be recorded for sources that the branch has long left, and it is
the key in it that keeps it from being shown. Of a check it says that what it
knows is of the inputs it captured (`EvidenceKept`), and while it records a chain
(`RecordingKept`), that each node below is certified already or was observed and is
still to be recorded, dependencies first, which is why the store is closed
(`StoreClosed`) after every single step of `record_check`. That a chain can be
recorded in the order given, and that a restoration finds all of it, goes by
the least node in `Order` that has no result (`LeastNumber`), in place of an
induction. The assumptions: `Order` lists every node after its dependencies, and
the mark for no result is none.

`EditorObserverProofs` proves `TypeOK`, `EvidenceUnlessReused` and
`EnvironmentUnlessReturned` for any graph, documents, sources, versions, identifiers and
lengths of the pipes. Identifiers may be shared; types and what is known of the files
(`Files`) survive that, the rest (`Exact`) is claimed of sessions in which none was, and
begins anew with each session.
The certificate is made of what the observer has read; what that is of depends
on messages that left at different times. `Talk` says for each open document
what is still on its way: the last message that sets its text carries the
source and the version the observer has (`QueueKept`), the worker has that version or
takes it before the messages asked about it (`Arrives`), and what was published of
that version is in the pipe or in the document, in order (`SaidKept`, `ReadKept`).
For each pending request, `RequestKept` places its question in one pipe, its
waiter in the worker or its answer in the other pipe, behind all that the worker said
before (`Whole`): that the answer comes last is what makes `complete` mean
complete. A message of a closed document is told from one of the document opened
after it, with the same version, by `Latest`, and by the removal of pending requests
when a document is closed or opened. `Files` relates inputs, files and workers for the
nodes that never went back to an earlier source (`Steady`): whatever
carries the head's source of such a node was captured after it came to be, so
the file holds it and a worker started since has loaded it. `Certificate` is then
what `Certify` took and the later stages keep. The assumptions: the relation
of dependencies is transitive and irreflexive, and `None` is not one of the
things it stands for the absence of.

Four models were corrected in the course of these proofs. `GiveBack` of
`ServerRegistry` left the lease with a branch whose last request ended after its
stop had dropped it but before the slot was vacated; in the code the `Arc` is the
only owner then, and its end releases the lease (`server.rs`, `stop`). In `ServiceDrain`,
a task leaves the line of the worker's lock from wherever it stands, which a task
that races with the stop flag may do. `Observe` of `EditorObserver` chose between
kinds of messages by cases that could hold together, where `Observer::server` takes
the first; and `LeanCheck` and `EditorObserver` did not say that their marks for
nothing are distinct from what they are the absence of.

Three definitions were rewritten so that they could be reasoned about, with the same
results: the recursive functions of `SnapshotIndex` and the loop of `EvictionLoop` now go
over a finite range of turns, and the constants say that nodes and mappings are finite.

Every invariant and action property that a passing run checks is proved. Only
model-checked are the liveness properties `BudgetMet`, `WorkEnds`, `ReservationsEnd` and
`ShutdownEnds`, which are out of the prover's reach, as is `ENABLED`: that nothing blocks
(deadlock) is TLC's finding too.

## Plan

Order of work, the most important behaviour first.

1. `BranchStore` with `SnapshotIndex` (done, proved) and `NodeGraph` (done, and the
   refinement proved).
2. `CacheLease` (done, proved).
3. `ServerRegistry` (done, proved).
4. `LeanCheck` (done, proved). To extend: two services of one database.
5. `ServiceDrain` and `EditorObserver` (done, proved). To extend: renamed and removed
   modules in the editor's workspace.
6. `CacheGC` with `EvictionLoop` (done, proved).
7. `NodeSession`: the node shown is the one selected last, drafts survive.

Abstract specifications worth stating besides `NodeGraph`: a lock for `CacheLease`,
and a map from keys to truths for `LeanCheck`. The number of runs stays small: further
instances of a module join a run that exists.

## Not modelled, and why

Search, metrics, export and the other queries read one snapshot under its mutex
and change nothing. Parsing and rewriting of sources (`names.rs`) are strings; their
effect on references is in `Rewritten`. The command line, configuration, web
assets, the graph view and the packaging keep no state that other components
rely on. Component sizes (`weak_component_sizes`) are a statistic. `initialize` is three requests in a row, one of which may fail in
front of the user. The rest of the unmodelled components are in the
plan, and their hazards are listed in `PROJECT.json`.
