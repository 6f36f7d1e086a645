\* Do the caches come down to the budget with a mapping that is half-written?
CONSTANTS
  p1 = p1 p2 = p2 x = x y = y z = z both = both one = one other = other
  proof = proof s1 = s1 s2 = s2 t1 = t1 t2 = t2
  Pools = {p1, p2}
  Objects = {y, z}
  Mappings = {one, other}
  Certificates = {}
  Home <- MCHome
  Refs <- MCRefs
  Services = {s1, s2}
  Branch <- MCBranch
  Tasks = {t1}
  Legacy = {}
  Automatic = {a1}
  Manual = {}
  Budget = 1
  Limits = {1, NoLimit}
  NoLimit = NoLimit
  MaxKills = 1
  MaxAborts = 1
SPECIFICATION LiveSpec
PROPERTIES BudgetMetByAll
