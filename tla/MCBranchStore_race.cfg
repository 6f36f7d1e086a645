\* Two services serve one branch; a client and the requests it abandoned race on two
\* nodes, or with an import into an empty branch.
CONSTANTS
  i1 = i1 i2 = i2 i3 = i3
  Alpha = Alpha alpha = alpha Beta = Beta Gamma = Gamma
  plain = plain bundled = bundled tex1 = tex1 tex2 = tex2
  Ids = {i1, i2}
  Names = {Alpha, alpha, Beta}
  CaseFold <- MCCaseFold
  Projects = {plain, bundled}
  ProjectFiles <- MCProjectFiles
  LatexProjects = {tex1, tex2}
  NoNode = NoNode
  NoBlock = NoBlock
  NoId = NoId
  NoKey = NoKey
  Services = {s1, s2}
  Clients = {c1}
  Nobody = Nobody
  Inputs <- NoInputs
  Requests = {"create", "link", "delete", "rename"}
  Bundles <- ProjectsToo
  InitialBranches <- StartPairOrEmpty
  MaxVersion = 3
  MaxWire = 2
SYMMETRY Symmetric
SPECIFICATION Spec
INVARIANTS TypeOK GraphStaysValid SnapshotCoherent WireStaysValid
PROPERTIES GuardedEdits MonotonicReads
