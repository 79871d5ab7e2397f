SPECIFICATION BufferFairSpec
CONSTANTS
  MaxEdits = 3
  FlushAt = 3
  MaxFailures = 2
  MaxCrashes = 1
INVARIANTS NothingDropped RowsInOrder
PROPERTIES EvictionKeepsAll EveryEditIsLogged OpenRoomsRunCurrentText
