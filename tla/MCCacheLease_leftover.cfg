\* A probe meets the successor of the service whose address it reads.
CONSTANTS
  Keepers = {k1, k2, k3}
  Probers = {r1}
  Inodes = {f1, f2, f3}
  Tokens = {t1, t2}
  NoFile = NoFile
  Blank = Blank
SYMMETRY Symmetric
SPECIFICATION Spec
INVARIANTS LeftoverIsNoEvidence
