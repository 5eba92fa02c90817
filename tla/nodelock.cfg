CONSTANTS
  p1 = p1
  p2 = p2
  Proc <- TwoProcs
  Foreign = Foreign
  NoFile = NoFile
  ZeroLocks = TRUE
  CanOverstay = TRUE
  CanCrash = TRUE
SPECIFICATION FairSpec
INVARIANTS BsyTypeOK SoleHolder UnlinkJudged
PROPERTY DeadOwnerGivesWay
