CONSTANTS
  w1 = w1
  w2 = w2
  Writers = {w1, w2}
  Tasks = {"a", "b"}
  Kinds = {"user_rule", "task_pattern", "session_summary"}
  Texts <- MCTexts
  TagLists = {"plain", "token"}
  CleanTags = {"plain"}
  Prints <- MCPrints
  Fingerprint <- MCFingerprint
  Scrub <- MCScrub
  Requests <- MCRequests
  NoRequest = NoRequest
  MaxSummaries = 2
  MaxAuto = 2
  Grace = 1
  CandidateLimit = 1
  MaxTime = 2
  MaxIds = 4
  Scenes <- SafetyScenes
SPECIFICATION Spec
SYMMETRY WriterSymmetry
INVARIANTS
  UniquePrints
  BaselineMeansScrubbed
PROPERTIES
  KnowledgeOnlyLeavesOnRequest
  RetentionKeepsTheBest
  PoolAndStoreStayApart
