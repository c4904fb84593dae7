\* A join with a missing file, a source of short reads, read errors; blocked calls return
CONSTANTS
  a = a
  b = b
  Readers = {a, b}
  NoReader = NoReader
  BlockSize = 2
  QueueMax = 8
  PartEnd <- FaultParts
  Joined = {a}
  Missing <- SecondOfA
  Rescanned = {}
  ExtraReads <- TwiceB
  Faulty = {a}
  Pipes = {b}
  GotoTo <- NoneOf
SPECIFICATION FairSpec
INVARIANTS TypeOK IteratorAlive EofMeansAllDelivered
PROPERTIES CallsReturn
