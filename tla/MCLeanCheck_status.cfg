\* A check of older inputs answers from the cache after the branch was read again.
CONSTANTS
  lemma = lemma
  theorem = theorem
  Services = {s1}
  Checks = {c1}
  Order <- TwoNodes
  DepsOf <- TheoremUsesLemma
  Sources = {"proved", "gap"}
  Slots = 2
  MaxSaves = 2
  Nothing = Nothing
SPECIFICATION Spec
INVARIANTS StatusRestored
