SPECIFICATION Spec
CONSTANTS
  Tab = {t1, t2}
  Inst = {i1, i2}
  Sock = {s1, s2, s3}
  None = None
  Seed = Seed
  First = t1
  Home = i1
  MaxEdits = 2
  MaxBreaks = 1
  BusLoses = TRUE
INVARIANTS QuietSocketsAgree OnlyMissedFramesDivide
PROPERTY TypingReachesTheLog
CHECK_DEADLOCK FALSE
