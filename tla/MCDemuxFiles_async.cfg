CONSTANTS
  Outputs <- WavAndHalves
  Async = TRUE
  Unit = 4
  BlockSize = 8
  MaxPacket = 2
  AddData = 1
  RiffMax = 24
  HeaderSize = 1
  Sizes = {2, 13}
  AddSizes = {9}
  MaxMade = 19
  WaitAbove = 1
  Faulty = TRUE
SPECIFICATION Spec
INVARIANTS TypeOK NoOverflow UnitsOnly PartsValid FinishedIsWhole
