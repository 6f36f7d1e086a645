----------------------------- MODULE NodeData -----------------------------
(***************************************************************************)
(* The versioned documents of one MathDoc branch and the rules a branch    *)
(* must satisfy (src/store.rs): nodes with a qualified name, source blocks *)
(* and dependencies, one Lean project and one LaTeX project.               *)
(*                                                                         *)
(* A graph is a total function on Ids whose value at an absent node is     *)
(* NoNode.  A Lean or LaTeX source is abstracted to the set of qualified   *)
(* names it refers to, the only part of it another node's rename rewrites. *)
(* A node's revision is a digest of its whole value, so the value stands   *)
(* for it.                                                                 *)
(***************************************************************************)
EXTENDS Naturals, FiniteSets

CONSTANTS
  Ids,            \* node UUIDs
  Names,          \* qualified module names
  CaseFold,       \* Names -> lower-cased module file path
  Projects,       \* Lean project configurations
  ProjectFiles,   \* Projects -> lower-cased paths of their supporting files
  LatexProjects,  \* LaTeX project configurations
  NoNode,         \* an absent node
  NoBlock,        \* an absent source block
  NoId            \* no node

ASSUME NodeDataAssumption ==
  /\ IsFiniteSet(Ids)
  /\ DOMAIN CaseFold = Names
  /\ DOMAIN ProjectFiles = Projects
  /\ NoId \notin Ids

Source == (SUBSET Names) \cup {NoBlock}

Node == [name : Names, lean : Source, latex : Source, deps : SUBSET Ids]

ASSUME NoNodeAssumption == NoNode \notin Node

Graph == [Ids -> Node \cup {NoNode}]

EmptyGraph == [i \in Ids |-> NoNode]

Live(nodes) == {i \in Ids : nodes[i] # NoNode}

NewNode(n) == [name |-> n, lean |-> NoBlock, latex |-> NoBlock, deps |-> {}]

(***************************************************************************)
(* Validation.                                                             *)
(***************************************************************************)
ModulesFree(nodes, project) ==
  \A i \in Live(nodes) : CaseFold[nodes[i].name] \notin ProjectFiles[project]

NoSelfLink(nodes) == \A i \in Live(nodes) : i \notin nodes[i].deps

UniqueNames(nodes) ==
  \A i, j \in Live(nodes) :
    CaseFold[nodes[i].name] = CaseFold[nodes[j].name] => i = j

Closed(nodes) == \A i \in Live(nodes) : nodes[i].deps \subseteq Live(nodes)

\* Every nonempty set of nodes has a member that depends on none of the set.
Acyclic(nodes) ==
  \A S \in SUBSET Live(nodes) :
    S # {} => \E i \in S : nodes[i].deps \cap S = {}

ValidGraph(nodes, project) ==
  /\ ModulesFree(nodes, project)
  /\ UniqueNames(nodes)
  /\ Closed(nodes)
  /\ Acyclic(nodes)

\* The graph once the documents of a transaction have replaced their nodes.
Merge(nodes, docs) ==
  [i \in Ids |-> IF docs[i] # NoNode THEN docs[i] ELSE nodes[i]]

\* Mutant: a change of names alone skips the graph-wide checks.
KeepsShapeOfLinks(nodes, docs) ==
  \A i \in Live(docs) : nodes[i] # NoNode /\ docs[i].deps = nodes[i].deps

KeepsShape(nodes, docs) ==
  \A i \in Live(docs) : /\ nodes[i] # NoNode
                        /\ docs[i].deps = nodes[i].deps
                        /\ docs[i].name = nodes[i].name

\* Snapshot::validate_changes.  Graph-wide checks are skipped for a change
\* that leaves every name and dependency alone.
ValidChanges(nodes, project, docs) ==
  /\ ModulesFree(docs, project)
  /\ NoSelfLink(docs)
  /\ KeepsShape(nodes, docs) \/
       LET merged == Merge(nodes, docs)
       IN  /\ UniqueNames(merged)
           /\ \A i \in Live(docs) : docs[i].deps \subseteq Live(merged)
           /\ Acyclic(merged)

(***************************************************************************)
(* Edits that reach beyond the node a request names.                       *)
(***************************************************************************)
\* names::rename_imports and rename_latex_refs on the referenced names.
RenameRefs(source, old, new) ==
  IF source # NoBlock /\ old \in source THEN (source \ {old}) \cup {new}
                                        ELSE source

Rewritten(node, old, new) ==
  [node EXCEPT !.lean  = RenameRefs(@, old, new),
               !.latex = RenameRefs(@, old, new)]

\* Removing a node and the dependency links that its referrers hold on it.
Removed(nodes, id, referrers) ==
  [i \in Ids |->
     IF i = id THEN NoNode
     ELSE IF i \in referrers THEN [nodes[i] EXCEPT !.deps = @ \ {id}]
     ELSE nodes[i]]
=============================================================================
