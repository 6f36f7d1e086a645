\* Every edit, from a chain of three dependencies and from an empty branch.
CONSTANTS
  i1 = i1 i2 = i2 i3 = i3
  Alpha = Alpha alpha = alpha Beta = Beta Gamma = Gamma
  plain = plain bundled = bundled tex1 = tex1 tex2 = tex2
  Ids = {i1, i2, i3}
  Names = {Alpha, alpha, Beta, Gamma}
  CaseFold <- MCCaseFold
  Projects = {plain, bundled}
  ProjectFiles <- MCProjectFiles
  LatexProjects = {tex1, tex2}
  NoNode = NoNode
  NoBlock = NoBlock
  NoId = NoId
  NoKey = NoKey
  Services = {s1}
  Clients = {c1}
  Nobody = Nobody
  Inputs <- BetaInput
  Requests = {"create", "project", "link", "delete", "rename", "source"}
  Bundles <- OneBundle
  InitialBranches <- StartChainOrEmpty
  MaxVersion = 3
  MaxWire = 1
SYMMETRY Symmetric
SPECIFICATION Spec
INVARIANTS IndexCoherent
PROPERTIES GuardedProjects ImplementsNodeGraph
