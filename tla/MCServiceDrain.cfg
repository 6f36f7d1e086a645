\* Two sessions compete for a slot, two previews for the worker, or one of each runs.
CONSTANTS
  Sessions = {e1, e2}
  EditorSlots = 1
  Previews = {p1, p2}
  PreviewSlots = 2
  Projects = {k1, k2}
  MaxWork = 2
  Main = Main
  None = None
SPECIFICATION Spec
INVARIANTS TypeOK LiveSessionsBounded NothingAfterShutdown AnswersExact
PROPERTIES WorkEnds
CHECK_DEADLOCK FALSE
