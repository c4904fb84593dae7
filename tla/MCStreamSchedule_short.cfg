SPECIFICATION Spec
CONSTANTS
  N = 3
  Files = {"f", "g"}
  Sources <- ShortStart
  MinBlock = 2
  FileBlock = 3
  Quarter = 4
  Margin = 1
  T = 20
INVARIANTS NoOverflow
CHECK_DEADLOCK FALSE
