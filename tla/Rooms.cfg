SPECIFICATION FairSpec
CONSTANTS
  c1 = c1
  c2 = c2
  c3 = c3
  Conn <- MCThree
  RoomId <- MCRoomId
  NoRoom = NoRoom
  MaxEdits = 1
  EarlyClose = TRUE
  OpenErrors = TRUE
INVARIANTS OneRoom ReopenHasEverything BusFollowsRoom
PROPERTY EmptyRoomsGo
CHECK_DEADLOCK FALSE
