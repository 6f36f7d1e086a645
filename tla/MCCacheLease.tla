---------------------------- MODULE MCCacheLease ----------------------------
(***************************************************************************)
(* Instances of CacheLease.                                                *)
(***************************************************************************)
EXTENDS CacheLease, TLC

Symmetric == Permutations(Keepers) \cup Permutations(Probers)
               \cup Permutations(Inodes) \cup Permutations(Tokens)
=============================================================================
