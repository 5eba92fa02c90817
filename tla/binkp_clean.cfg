SPECIFICATION Spec
CHECK_DEADLOCK FALSE
CONSTANTS
  File <- Four
  Owner <- MCOwner
  Size <- FirstSize2
  Reply <- Third
  Request = 1
  Start <- Fresh
  Minors <- Versions
  BatchLimit = 3
  Window = 3
  MaxSessions = 1
  CanCut = FALSE
  CanDie = FALSE
  CanStall = FALSE
  CanRefuse = FALSE
  CanFill = FALSE
  CanReplace = FALSE
INVARIANTS
  TypeOK
  EndsAgree
PROPERTIES
  ExchangesAllFiles
  Ends
