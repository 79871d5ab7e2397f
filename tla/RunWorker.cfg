SPECIFICATION WorkerSpec
CONSTANTS
  Run = {r1, r2}
  CONCURRENCY = 1
  MAX_OUTPUT = 1
  Chunks = {1}
  Stalls = 1
  MaxBreaks = 1
INVARIANT ReportsAreTrue
PROPERTIES LiveRunsAreSpared RunsAreReported ContainersGo
CHECK_DEADLOCK FALSE
