\* Two operations, a server's life and crashes over a database of two branches.
CONSTANTS
  main = main
  fork = fork
  t1 = t1
  t2 = t2
  Databases <- OneDatabase
  Mains <- OneMain
  Tasks = {t1, t2}
  Main = Main
  None = None
SYMMETRY Symmetric
SPECIFICATION Spec
INVARIANTS TypeOK ServedExists OpenRemembered RestoreListExact DrainedEmpty
