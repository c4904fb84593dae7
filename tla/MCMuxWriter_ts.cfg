\* A split TS, writes and closes may fail; calls and the job end
CONSTANTS
  HasSub = FALSE
  Interleave = FALSE
  M2ts = FALSE
  Switcher = "main"
  LateSub = FALSE
  BlockLimit = 2
  UnitLimit <- NoUnits
  MaxPackets = 4
  MaxParts = 3
  WaitAbove = 1
  QueueMax = 3
  Faulty = TRUE
SPECIFICATION FairSpec
INVARIANTS SuccessIsComplete NothingToClosedFile
PROPERTIES JobEnds
