-------------------------- MODULE MCServerRegistry --------------------------
(***************************************************************************)
(* Instances of ServerRegistry.                                            *)
(***************************************************************************)
EXTENDS ServerRegistry, TLC

CONSTANTS main, fork, t1, t2

OneDatabase == {{main, fork}}
LoneBranch == {{main}}
OneMain == {main}

Symmetric == Permutations(Tasks)
=============================================================================
