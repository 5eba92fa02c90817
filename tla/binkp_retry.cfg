SPECIFICATION Spec
CHECK_DEADLOCK FALSE
CONSTANTS
  File <- Two
  Owner <- MCOwner
  Size <- FirstSize2
  Reply <- None
  Request = 0
  Start <- Fresh
  Minors <- Newest
  BatchLimit = 3
  Window = 3
  MaxSessions = 2
  CanCut = TRUE
  CanDie = FALSE
  CanStall = FALSE
  CanRefuse = FALSE
  CanFill = FALSE
  CanReplace = FALSE
INVARIANTS
  RetrySound
PROPERTIES
  ExchangesFiles
