CONSTANTS
  s1 = s1
  s2 = s2
  q1 = q1
  q2 = q2
  p1 = p1
  Sessions = {s1, s2}
  Hooks = {q1, q2}
  Paths = {p1}
  Absent = Absent
  Torn = Torn
  NoSession = NoSession
  Threshold = 2
  Scenes <- SafetyScenes
SPECIFICATION Spec
SYMMETRY Symmetry
INVARIANTS
  StoredIsEarned
  StageSilencesGate
PROPERTIES
  EarnedSummaryIsKept
  LiveSessionIsShielded
