\* A background server removes a project of an earlier foreground run.
CONSTANTS
  main = main
  fork = fork
  t1 = t1
  t2 = t2
  Databases <- LoneBranch
  Mains <- OneMain
  Tasks = {t1}
  Main = Main
  None = None
SPECIFICATION Spec
PROPERTIES RemovalForgets
