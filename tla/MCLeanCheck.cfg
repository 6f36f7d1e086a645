\* Two checks at one branch, one of whose sources changes.
CONSTANTS
  lemma = lemma
  theorem = theorem
  Services = {s1}
  Checks = {c1, c2}
  Order <- TwoNodes
  DepsOf <- TheoremUsesLemma
  Sources = {"proved", "gap", "broken"}
  Slots = 2
  MaxSaves = 1
  Nothing = Nothing
SYMMETRY Symmetric
CONSTRAINT FewCases
SPECIFICATION Spec
INVARIANTS TypeOK StatusTrue StoreClosed CheckDecides
PROPERTIES ReadRestores
