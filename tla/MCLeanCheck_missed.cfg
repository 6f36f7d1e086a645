\* A lemma is certified while the store cannot be opened, and the theorem after.
CONSTANTS
  lemma = lemma
  theorem = theorem
  Services = {s1}
  Checks = {c1}
  Order <- TwoNodes
  DepsOf <- TheoremUsesLemma
  Sources = {"proved", "gap"}
  Slots = 2
  MaxSaves = 0
  Nothing = Nothing
SPECIFICATION Spec
INVARIANTS ImportsStored
