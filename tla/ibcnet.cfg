SPECIFICATION Spec
CHECK_DEADLOCK FALSE
CONSTANTS
  Server = {"a", "b", "c"}
  Edge <- LineOf3
  User = {"u", "v"}
  Home <- AtTheEnds
  Nicks <- OwnNick
  Channel = {"#x"}
  Private = {}
  MaxOps = 3
  MaxStops = 1
  CanCrash = TRUE
  Hasty = FALSE
INVARIANTS
  TypeOK
  ChannelCount
  NoGhosts
  Agreement
PROPERTY
  Converges
