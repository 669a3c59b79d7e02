\* Four jobs of three kinds; power fails anywhere, the image may be truncated.
SPECIFICATION FairSpec
CONSTANTS
  Blocks = 2
  MaxJobs = 4
  Reboots = {"absent", "true", "false"}
CHECK_DEADLOCK FALSE
INVARIANTS RunsWhole DoneIsBootable
PROPERTIES NeverOlder UpdateEnds
