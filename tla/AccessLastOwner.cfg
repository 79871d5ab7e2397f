SPECIFICATION Spec
CONSTANTS
  User = {ana, bo}
  Conn = {s1}
  Newcomer = {bo}
  Reader = {bo}
  MaxWrites = 1
  MaxRequests = 2
INVARIANT AlwaysAnOwner
CHECK_DEADLOCK FALSE
