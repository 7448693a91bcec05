CONSTANTS
  p1 = p1
  p2 = p2
  p3 = p3
  Procs = {p1, p2, p3}
  Scenes <- PassingScenes
SPECIFICATION FairSpec
INVARIANTS
  VersionDescribesSchema
  SentinelMeansScrubbed
PROPERTIES
  EventuallyServes
