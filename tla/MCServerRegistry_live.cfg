\* Operations on one branch and the end of the server, under the tasks' fairness.
CONSTANTS
  main = main
  fork = fork
  t1 = t1
  t2 = t2
  Databases <- LoneBranch
  Mains <- OneMain
  Tasks = {t1, t2}
  Main = Main
  None = None
SPECIFICATION FairSpec
PROPERTIES ReservationsEnd ShutdownEnds
