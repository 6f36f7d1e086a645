\* Three processes take or delete one cache while another looks for its service.
CONSTANTS
  Keepers = {k1, k2, k3}
  Probers = {r1}
  Inodes = {f1, f2, f3}
  Tokens = {t1, t2}
  NoFile = NoFile
  Blank = Blank
SYMMETRY Symmetric
SPECIFICATION Spec
INVARIANTS TypeOK OneOwner RecordNamesService ProbeFindsService
