\* Two nodes, one session over the internet at a time, one on a line.
SPECIFICATION Spec
CONSTANTS
  Scan <- MCScan
  Line = {"a"}
  PidOf <- MCPidOf
  MaxTasks = 2
  MaxTcp = 1
  Lines = 1
  Undialable = 2
  Count <- MCCount
  MaxEvents = 3
INVARIANT TypeOK CallKnown ListedOnce
PROPERTY CalledInTime Served
