SPECIFICATION Spec
CONSTANTS
  User = {ana, bo}
  Conn = {s1}
  Newcomer = {bo}
  Reader = {bo}
  MaxWrites = 1
  MaxRequests = 2
INVARIANT SocketsFollowRoles
PROPERTIES LastOwnerGoesByARace OutOfDateSocketsGo
CHECK_DEADLOCK FALSE
