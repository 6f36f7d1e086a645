---------------------------- MODULE MCLeanCheck ----------------------------
(***************************************************************************)
(* Instances of LeanCheck: a theorem that uses a lemma.                    *)
(***************************************************************************)
EXTENDS LeanCheck, TLC

CONSTANTS lemma, theorem

TwoNodes == <<lemma, theorem>>
TheoremUsesLemma == (lemma :> {}) @@ (theorem :> {lemma})

\* A file that is broken itself is as well seen in the lemma, and certificates
\* that could not be stored one at a time.
FewCases ==
  /\ \A s \in Services : head[s][theorem] # "broken"
  /\ Cardinality(missed) <= 1

Symmetric == Permutations(Checks) \cup Permutations(Services)
=============================================================================
