\* An identifier used again while the reply to its first use is on its way.
CONSTANTS
  lemma = lemma
  theorem = theorem
  Nodes = {lemma, theorem}
  DepsOf <- TheoremUsesLemma
  Changing = {lemma}
  Docs = {theorem}
  l1 = l1 l2 = l2 t1 = t1 t2 = t2
  Revisions = {l1, l2, t1, t2}
  SourcesOf <- MCSources
  Ids = {i1, i2}
  MaxVersion = 1
  MaxQueue = 1
  MaxSaves = 0
  None = None
SYMMETRY Symmetric
VIEW Deciding
SPECIFICATION Spec
CONSTRAINT SameRequest
INVARIANTS EvidenceExact
