\* One pool: a manual collection among two tasks.
CONSTANTS
  p1 = p1 p2 = p2 x = x y = y z = z both = both one = one other = other
  proof = proof s1 = s1 s2 = s2 t1 = t1 t2 = t2
  Pools = {p1}
  Objects = {x, y}
  Mappings = {both, one}
  Certificates = {proof}
  Home <- MCHome
  Refs <- MCRefs
  Services = {s1}
  Branch <- MCBranch
  Tasks = {t1, t2}
  Legacy = {one}
  Automatic = {}
  Manual = {m1}
  Budget = 1
  Limits = {1, NoLimit}
  NoLimit = NoLimit
  MaxKills = NoLimit
  MaxAborts = NoLimit
SYMMETRY Symmetric
SPECIFICATION Spec
INVARIANTS TypeOK UsesSurvive CertificatesKept EndsWithinBudget LoopPlansEvictions
PROPERTIES MappedKeepsObjects
