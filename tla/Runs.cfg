SPECIFICATION FairSpec
CONSTANTS
  j1 = j1
  j2 = j2
  w1 = w1
  w2 = w2
  Job <- MCJob
  Watcher <- MCWatcher
  NoWatcher = NoWatcher
  MaxRuns = 1
  BufferLimit = 2
  MaxOutput <- MCMaxOutput
  RedisFails = TRUE
INVARIANTS TheBeginningIsKept EachFrameOnce
PROPERTIES SubscribersAreReleased SoleStreamEnds
CHECK_DEADLOCK FALSE
