----------------------------- MODULE MCCacheGC -----------------------------
(***************************************************************************)
(* Instances of CacheGC.  The first pool has two mappings that share an    *)
(* object; the second pool has one.                                        *)
(***************************************************************************)
EXTENDS EvictionLoop, TLC

CONSTANTS p1, p2, x, y, z, both, one, other, proof, s1, s2, t1, t2

MCHome == [f \in Files |-> IF f \in {z, other} THEN p2 ELSE p1]
MCRefs == [m \in Mappings |->
  CASE m = both -> {x, y} [] m = one -> {y} [] OTHER -> {z}]
MCBranch == [s \in Services |-> IF s = s2 THEN p2 ELSE p1]

Symmetric == Permutations(Tasks)
=============================================================================
