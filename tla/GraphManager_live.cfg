CONSTANTS
  p1 = p1
  p2 = p2
  c1 = c1
  c2 = c2
  c3 = c3
  Procs = {p1, p2}
  Callers = {c1, c2, c3}
  Home <- MCHome
  Handles = {1, 2, 3}
  Jobs = {1, 2}
  Versions = {1, 2, 3}
  Broken = {2}
  Foreign = Foreign
  None = None
  Absent = Absent
  MaxIno = 0
  Scenes <- LiveScenes
SPECIFICATION FairSpec
PROPERTIES
  EventuallyFresh
  EventuallyQuiet
  WaitBuildReturns
