\* One document among its own changes, those of its dependency and reconnections.
CONSTANTS
  lemma = lemma
  theorem = theorem
  Nodes = {lemma, theorem}
  DepsOf <- TheoremUsesLemma
  Changing = {lemma}
  Docs = {theorem}
  l1 = l1 l2 = l2 t1 = t1 t2 = t2
  Revisions = {l1, l2, t1, t2}
  SourcesOf <- MCSources
  Ids = {i1}
  MaxVersion = 2
  MaxQueue = 1
  MaxSaves = 2
  None = None
SYMMETRY Symmetric
VIEW Claimed
SPECIFICATION Spec
INVARIANTS TypeOK EvidenceUnlessReused EnvironmentUnlessReturned
