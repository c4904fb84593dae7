SPECIFICATION FairSpec
CONSTANTS
  N = 3
  Files = {"f", "g"}
  Sources <- MCSources
  MinBlock = 2
  FileBlock = 3
  Quarter = 4
  Margin = 1
  T = 20
INVARIANTS TypeOK NothingLost AllDelivered NoOverflow
PROPERTIES InTimeOrder NotLate Finishes
CHECK_DEADLOCK FALSE
