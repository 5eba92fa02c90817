SPECIFICATION Spec
CHECK_DEADLOCK FALSE
CONSTANTS
  File <- Two
  Owner <- MCOwner
  Size <- AllSize2
  Reply <- None
  Request = 0
  Start <- AllPartial
  Minors <- Newest
  BatchLimit = 3
  Window = 3
  MaxSessions = 1
  CanCut = FALSE
  CanDie = FALSE
  CanStall = FALSE
  CanRefuse = FALSE
  CanFill = FALSE
  CanReplace = FALSE
INVARIANTS
  OpenFileIsAnnounced
