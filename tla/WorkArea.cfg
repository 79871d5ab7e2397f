SPECIFICATION Spec
CONSTANTS
  Files = {f1, f2}
  NoFile = NoFile
  MAX_RECENT = 2
  MaxRefreshes = 3
  MaxRoleChanges = 1
  Runs = {r1, r2}
  NoRun = NoRun
  MaxReveals = 1
SYMMETRY Alike
INVARIANTS StatesAreLive EditableAsAllowed StreamsBelongToThePanel
PROPERTY HistorySurvivesSwitching
CHECK_DEADLOCK FALSE
