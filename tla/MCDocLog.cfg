SPECIFICATION Spec
CONSTANTS
  s1 = s1
  s2 = s2
  u1 = u1
  u2 = u2
  Seed <- MCSeed
  Instance <- MCInstance
  Update <- MCUpdate
  MaxId = 4
  CompactAfter = 1
INVARIANTS SafePruning SeedsOnlyNewDocuments
PROPERTY KeepsPromise
CHECK_DEADLOCK FALSE
