\* 3D in an image, split: the blocks of the base view are held back
CONSTANTS
  HasSub = TRUE
  Interleave = TRUE
  M2ts = TRUE
  Switcher = "main"
  LateSub = FALSE
  BlockLimit = 2
  UnitLimit <- ThreeD
  MaxPackets = 3
  MaxParts = 2
  WaitAbove = 1
  QueueMax = 3
  Faulty = FALSE
SPECIFICATION Spec
INVARIANTS TypeOK PartsInOrder ClosedPartIsWhole UnitsAlternate
