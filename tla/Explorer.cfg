SPECIFICATION ExplorerSpec
CONSTANTS
  NoFile = NoFile
  NoOp = NoOp
  MAX_RECENT = 2
  Op = {o1, o2}
  AskedPath <- MCAskedPath
  Name = {"a", "b"}
  StartRows <- MCStart
  MaxClicks = 1
  MaxTroubles = 1
INVARIANTS YourChangesShow DeletedTabsClose LabelsFollowFiles
SYMMETRY Alike
CHECK_DEADLOCK FALSE
