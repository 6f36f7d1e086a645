--------------------------- MODULE MCBranchStore ---------------------------
(***************************************************************************)
(* Instances of BranchStore.  Alpha and alpha are two names of one module  *)
(* file; the project bundled adds a supporting file that claims Beta's.    *)
(***************************************************************************)
EXTENDS BranchStore, TLC

CONSTANTS i1, i2, i3, Alpha, alpha, Beta, Gamma, plain, bundled, tex1, tex2

MCCaseFold == [n \in Names |-> IF n = alpha THEN Alpha ELSE n]

MCProjectFiles == [p \in Projects |-> IF p = bundled THEN {Beta} ELSE {}]

Named(n, lean, deps) ==
  [name |-> n, lean |-> lean, latex |-> NoBlock, deps |-> deps]

Holding(nodes) == [nodes |-> nodes, project |-> plain, latex |-> tex1]

\* Two unrelated nodes, the second importing the first by name.
Pair == Holding([EmptyGraph EXCEPT ![i1] = Named(Alpha, {}, {}),
                                   ![i2] = Named(Beta, {Alpha}, {})])

\* A chain of three dependencies: i3 -> i2 -> i1.
Chain == Holding([i \in Ids |->
                    CASE i = i1 -> Named(Alpha, {}, {})
                      [] i = i2 -> Named(Beta, {Alpha}, {i1})
                      [] OTHER -> Named(Gamma, {}, {i2})])

Exported == Holding([EmptyGraph EXCEPT ![i1] = Named(Alpha, {Beta}, {i2}),
                                       ![i2] = Named(Beta, {}, {})])

\* A graph of one node, with projects of its own.
Brought == [nodes |-> [EmptyGraph EXCEPT ![i1] = Named(Alpha, {}, {})],
            project |-> bundled, latex |-> tex2]

StartPairOrEmpty == {Pair, Holding(EmptyGraph)}
StartChainOrEmpty == {Chain, Holding(EmptyGraph)}
OneBundle == {Exported}
ProjectsToo == {Brought}

NoInputs == {}
BetaInput == {{Beta}}

Symmetric == Permutations(Services) \cup Permutations(Clients)
=============================================================================
