\* A tosser, a user and ftnmsg on a base with two messages.
SPECIFICATION Spec
CHECK_DEADLOCK FALSE
CONSTANTS
  Proc = {"tosser", "user", "ftnmsg"}
  Jobs <- ThreePrograms
  Already = 2
  MaxMsgs = 3
  MaxFiles = 3
  MaxJobs = 4
  MaxKills = 1
  Wide = 16
INVARIANT TypeOK BaseSound UnreadKept
