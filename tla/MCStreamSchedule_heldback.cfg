SPECIFICATION Spec
CONSTANTS
  N = 3
  Files = {"f", "g"}
  Sources <- HeldBack
  MinBlock = 2
  FileBlock = 3
  Quarter = 4
  Margin = 1
  T = 21
INVARIANTS AllDelivered
CHECK_DEADLOCK FALSE
