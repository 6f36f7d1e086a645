--------------------------- MODULE SnapshotIndex ---------------------------
(***************************************************************************)
(* The projections a service keeps beside the loaded documents             *)
(* (store.rs, Snapshot): module files, referrers, topological depths, and  *)
(* for every node the key of its complete Lean input.  They are rebuilt on *)
(* a load and maintained incrementally across the service's own commits.   *)
(*                                                                         *)
(* A Lean key is a SHA-256 of the project, the node's name and source and  *)
(* the keys of its dependencies; it is modelled as the hashed value, so    *)
(* keys are equal exactly when the hashed inputs are.                      *)
(***************************************************************************)
EXTENDS NodeData, SequencesExt

CONSTANT NoKey   \* no key is stored

\* Mutant: a node loses its entry once it is removed.
ReferrersOfLive(nodes) ==
  [i \in Live(nodes) |-> {j \in Live(nodes) : i \in nodes[j].deps}]

ReferrersOf(nodes) ==
  [i \in Ids |-> {j \in Live(nodes) : i \in nodes[j].deps}]

\* Module file to node; resolve() also requires the exact name.
ModulesOf(nodes) ==
  [n \in Names |->
     IF \E i \in Live(nodes) : nodes[i].name = n
     THEN CHOOSE i \in Live(nodes) : nodes[i].name = n
     ELSE NoId]

\* core::all_topo_depths: leaves wait in the queue; a node that leaves it lifts
\* its parents above itself, and those with no other dependency left join.
\* The order in which nodes join (that of a hash map) is any.
FirstDepths(nodes) ==
  [height    |-> [i \in Ids |-> 0],
   remaining |-> [i \in Ids |-> IF nodes[i] = NoNode THEN 0
                                ELSE Cardinality(nodes[i].deps \cap Live(nodes))],
   queue     |-> SetToSeq({i \in Live(nodes) : nodes[i].deps \cap Live(nodes) = {}})]

PopDepths(nodes, s) ==
  LET node == Head(s.queue)
      parents == ReferrersOf(nodes)[node]
      left == [i \in Ids |-> IF i \in parents THEN s.remaining[i] - 1 ELSE s.remaining[i]]
  IN  [height    |-> [i \in Ids |-> IF i \in parents /\ s.height[i] <= s.height[node]
                                    THEN s.height[node] + 1 ELSE s.height[i]],
       remaining |-> left,
       queue     |-> Tail(s.queue) \o SetToSeq({i \in parents : left[i] = 0})]

DepthsOf(nodes) ==
  LET popped[k \in 0 .. Cardinality(Ids)] ==
        IF k = 0 THEN FirstDepths(nodes)
        ELSE IF popped[k - 1].queue = <<>> THEN popped[k - 1]
             ELSE PopDepths(nodes, popped[k - 1])
  IN  popped[Cardinality(Ids)].height

\* The part of a key's input before the dependency keys (lean_prefixes).
PrefixOf(project, node) == <<project, node.name, node.lean>>

KeyOf(prefix, node, keys) ==
  [prefix |-> prefix, deps |-> [d \in node.deps |-> keys[d]]]

\* Mutant: only direct referrers are rehashed.
UpwardOneLevel(referrers, seeds) ==
  seeds \cup UNION {referrers[i] : i \in seeds}

\* Everything that depends on a seed, directly or not, with the seeds.
Upward(referrers, seeds) ==
  LET grown[k \in 0 .. Cardinality(Ids)] ==
        IF k = 0 THEN seeds
        ELSE grown[k - 1] \cup UNION {referrers[i] : i \in grown[k - 1]}
  IN  grown[Cardinality(Ids)]

NoIndex == [modules   |-> [n \in Names |-> NoId],
            depths    |-> [i \in Ids |-> 0],
            prefixes  |-> [i \in Ids |-> NoKey],
            keys      |-> [i \in Ids |-> NoKey]]

\* Snapshot::recompute_graph without the referrers, which BranchStore keeps
\* in a variable of their own.
RecomputeGraph(index, nodes) ==
  [index EXCEPT !.modules = ModulesOf(nodes), !.depths = DepthsOf(nodes)]

\* The keys once the affected nodes of one depth have been hashed.
HashDepth(keys, k, affected, depths, prefixes, nodes) ==
  [i \in Ids |-> IF i \in affected /\ depths[i] = k
                 THEN KeyOf(prefixes[i], nodes[i], keys) ELSE keys[i]]

\* Snapshot::refresh_lean_keys: seeds get a new prefix; the seeds and all
\* their referrers are rehashed in the order of the stored depths.
RefreshLeanKeys(index, nodes, project, referrers, seeds) ==
  LET prefixes == [i \in Ids |-> IF i \in seeds
                                 THEN PrefixOf(project, nodes[i])
                                 ELSE index.prefixes[i]]
      affected == Upward(referrers, seeds)
      hashed[k \in 0 .. Cardinality(Ids)] ==
        HashDepth(IF k = 0 THEN index.keys ELSE hashed[k - 1],
                  k, affected, index.depths, prefixes, nodes)
  IN  [index EXCEPT !.prefixes = prefixes, !.keys = hashed[Cardinality(Ids)]]

\* Snapshot::recompute, what a load or a project change does.
Recompute(nodes, project) ==
  RefreshLeanKeys(RecomputeGraph(NoIndex, nodes), nodes, project,
                  ReferrersOf(nodes), Live(nodes))

LeanChanged(nodes, docs) ==
  {i \in Live(docs) : \/ nodes[i] = NoNode
                      \/ docs[i].lean # nodes[i].lean
                      \/ docs[i].name # nodes[i].name
                      \/ docs[i].deps # nodes[i].deps}

\* Mutant: names and dependencies do not rebuild the graph projections.
ApplyIndexNoGraph(index, nodes, project, docs, referrers) ==
  RefreshLeanKeys(index, Merge(nodes, docs), project, referrers,
                  LeanChanged(nodes, docs))

\* Snapshot::apply on the index: names and dependencies rebuild the graph
\* projections; a change of Lean source only rehashes.
ApplyIndex(index, nodes, project, docs, referrers) ==
  LET merged == Merge(nodes, docs)
      graphed == IF KeepsShape(nodes, docs) THEN index
                                            ELSE RecomputeGraph(index, merged)
  IN  RefreshLeanKeys(graphed, merged, project, referrers,
                      LeanChanged(nodes, docs))

\* Snapshot::remove on the index; parents are the removed node's referrers.
RemoveIndex(index, left, project, id, parents) ==
  LET dropped == [index EXCEPT !.keys[id] = NoKey, !.prefixes[id] = NoKey]
  IN  RefreshLeanKeys(RecomputeGraph(dropped, left), left, project,
                      ReferrersOf(left), parents)

(***************************************************************************)
(* What the projections mean, stated without computing them: each key is   *)
(* the hash of the node's current inputs and its dependencies' keys, which *)
(* on an acyclic graph determines every key; a node's depth is one above  *)
(* its deepest dependency's.                                               *)
(***************************************************************************)
PrefixesCoherent(index, nodes, project) ==
  \A i \in Ids :
    index.prefixes[i] = IF nodes[i] = NoNode THEN NoKey
                        ELSE PrefixOf(project, nodes[i])

KeysCoherent(index, nodes, project) ==
  \A i \in Ids :
    index.keys[i] = IF nodes[i] = NoNode THEN NoKey
                    ELSE KeyOf(PrefixOf(project, nodes[i]), nodes[i], index.keys)

DepthsCoherent(index, nodes) ==
  \A i \in Live(nodes) :
    /\ nodes[i].deps = {} => index.depths[i] = 0
    /\ \A d \in nodes[i].deps : index.depths[d] < index.depths[i]
    /\ index.depths[i] > 0 =>
         \E d \in nodes[i].deps : index.depths[i] = index.depths[d] + 1

ModulesCoherent(index, nodes) ==
  /\ \A i \in Live(nodes) : index.modules[nodes[i].name] = i
  /\ \A n \in Names : index.modules[n] # NoId =>
       index.modules[n] \in Live(nodes) /\ nodes[index.modules[n]].name = n

\* All of it: an index is updated from the prefixes and keys it has.
IndexRight(index, nodes, project) ==
  /\ DOMAIN index = DOMAIN NoIndex
  /\ index.modules \in [Names -> Ids \cup {NoId}]
  /\ index.depths \in [Ids -> 0 .. Cardinality(Ids)]
  /\ DOMAIN index.prefixes = Ids
  /\ DOMAIN index.keys = Ids
  /\ ModulesCoherent(index, nodes)
  /\ DepthsCoherent(index, nodes)
  /\ PrefixesCoherent(index, nodes, project)
  /\ KeysCoherent(index, nodes, project)
=============================================================================
