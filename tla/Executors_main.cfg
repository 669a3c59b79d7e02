\* Two updates of one board or two, of the four kinds.
SPECIFICATION FairSpec
CONSTANTS
  Boards = {"lpc", "can", "stm", "probe"}
  PerSector = 2
  Parts = 2
  Resends = 5
  Retries = 2
  BankA = {1, 2}
  BankB = {0, 1}
  MaxPages = 2
  PageBytes = 13
  Tails = {4, 5, 12, 13}
  Indexes = 2
  Wrap = 2
  Rates = {1000000, 500000, 800000}
  Supported = {1000000, 500000, 250000, 125000}
  Default = 125000
  BootRate = 1000000
  EnterRate = 125000
  StmBlocks = 2
  BlockBytes = 4
  ByteWidth = 4
  StmTails = {3, 4}
  ProbeBlocks = 2
  AckRead = 8
  Metas <- MCMetas
  MaxJobs = 2
  Updates <- MCUpdates
  MaxBoards = 1
CHECK_DEADLOCK FALSE
INVARIANTS DoneIsProgrammed FailsForCause PageArrives
PROPERTIES WritesErased UpdateEnds
