----------------------------- MODULE NodeGraph -----------------------------
(***************************************************************************)
(* What a branch promises its users: one graph that changes only by whole  *)
(* edits, one after the other, each of which leaves it valid.  There are   *)
(* no services, snapshots, versions or transactions here; BranchStore is   *)
(* shown to implement this module with the database head as the graph.     *)
(***************************************************************************)
EXTENDS NodeData

VARIABLES nodes, project, latex

content == <<nodes, project, latex>>

Init == ValidGraph(nodes, project)

\* The edit turns the graph into g, which must be valid.
Becomes(g) ==
  /\ nodes' = g
  /\ ValidGraph(g, project)
  /\ UNCHANGED <<project, latex>>

Create(i, n) ==
  /\ nodes[i] = NoNode
  /\ Becomes([nodes EXCEPT ![i] = NewNode(n)])

CreateUnder(i, n, parent) ==
  /\ nodes[i] = NoNode
  /\ nodes[parent] # NoNode
  /\ Becomes([nodes EXCEPT ![i] = NewNode(n), ![parent].deps = @ \cup {i}])

\* Nothing keeps a link to a deleted node.
Delete(i) ==
  /\ nodes[i] # NoNode
  /\ Becomes([j \in Ids |->
       IF j = i \/ nodes[j] = NoNode THEN NoNode
       ELSE [nodes[j] EXCEPT !.deps = @ \ {i}]])

\* References follow a rename everywhere else.
Rename(i, n) ==
  /\ nodes[i] # NoNode
  /\ Becomes([j \in Ids |->
       IF j = i THEN [nodes[i] EXCEPT !.name = n]
       ELSE IF nodes[j] = NoNode THEN NoNode
       ELSE Rewritten(nodes[j], nodes[i].name, n)])

Write(i, lean, text) ==
  /\ nodes[i] # NoNode
  /\ Becomes([nodes EXCEPT ![i].lean = lean, ![i].latex = text])

Relink(i, D) ==
  /\ nodes[i] # NoNode
  /\ Becomes([nodes EXCEPT ![i].deps = D])

Configure(p) ==
  /\ project' = p
  /\ ValidGraph(nodes, p)
  /\ UNCHANGED <<nodes, latex>>

ConfigureLatex(l) == latex' = l /\ UNCHANGED <<nodes, project>>

Populate(g, p, l) ==
  /\ nodes = EmptyGraph
  /\ nodes' = g
  /\ project' = p
  /\ latex' = l
  /\ ValidGraph(g, p)

Edit(i) ==
  \/ \E n \in Names : Create(i, n) \/ Rename(i, n)
  \/ \E n \in Names, parent \in Ids \ {i} : CreateUnder(i, n, parent)
  \/ Delete(i)
  \/ nodes[i] # NoNode /\ nodes'[i] # NoNode
       /\ Write(i, nodes'[i].lean, nodes'[i].latex)
  \/ \E D \in SUBSET Ids : Relink(i, D)

Next ==
  \/ \E i \in Ids : Edit(i)
  \/ \E p \in Projects : Configure(p)
  \/ \E l \in LatexProjects : ConfigureLatex(l)
  \/ Populate(nodes', project', latex')

Spec == Init /\ [][Next]_content
=============================================================================
