SPECIFICATION Spec
CONSTANTS
  PingAfter = 6
  DeadAfter = 13
  DialDelays <- ShortDial
  DeadDelay = 12
  HalfDelay = 6
  HangDelay = 12
  FailDelay = 12
  HalfdeadMax = 5
  Passwords = {"x", "y"}
  MaxFaults = 2
  MaxTies = 1
  MaxTokens = 8
INVARIANTS
  TypeOK
  Authorized
  OneCaller
PROPERTIES
  Heals
