SPECIFICATION Spec
CHECK_DEADLOCK FALSE
CONSTANTS
  File <- Two
  Owner <- MCOwner
  Size <- FirstSize2
  Reply <- None
  Request = 0
  Start <- FirstPartial
  Minors <- Newest
  BatchLimit = 1
  Window = 1
  MaxSessions = 2
  CanCut = FALSE
  CanDie = TRUE
  CanStall = TRUE
  CanRefuse = TRUE
  CanFill = TRUE
  CanReplace = TRUE
INVARIANTS
  DeliveredIsWhole
