SPECIFICATION FilesSpec
CONSTANTS
  Req = {q1, q2}
  Name = {"a", "b"}
  Start <- TwoDirectories
  Sock = {s1, s2, s3}
  MAX_DEPTH = 2
INVARIANT DeletionsAreComplete
PROPERTIES OrphansComeFromRaces SubtreesMoveWhole
SYMMETRY Alike
CHECK_DEADLOCK FALSE
