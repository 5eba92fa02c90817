CONSTANTS
  p1 = p1
  p2 = p2
  p3 = p3
  Proc <- ThreeProcs
  Common = Common
  None = None
  Kinds <- Every
  CanCrash = TRUE
SPECIFICATION FairSpec
CHECK_DEADLOCK FALSE
INVARIANTS LockTypeOK SoleRunner LockNamesOwner
PROPERTY CallReturns
