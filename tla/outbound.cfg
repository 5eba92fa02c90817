SPECIFICATION Spec
CONSTANTS
  Mail = {m1, m2}
  Net = {n1}
  File = {f1}
  Packet = Packet
  MaxNr = 1
  MaxArc = 1
  Closes = TRUE
  MaxFaults = 1
  MaxWeeks = 2
INVARIANTS
  TypeOK
  NothingLost
  Attached
PROPERTY
  Delivered
