\* A join of files, some empty, some shorter than a block, and a source that is not
\* joined, scanned and put back to its start, or started at an offset
CONSTANTS
  a = a
  b = b
  Readers = {a, b}
  NoReader = NoReader
  BlockSize = 2
  QueueMax = 4
  PartEnd <- JoinParts
  Joined = {a}
  Missing <- NoneOf
  Rescanned = {b}
  ExtraReads <- Never
  Faulty = {}
  Pipes = {}
  GotoTo <- GotoB
SPECIFICATION Spec
INVARIANTS NoUseAfterFree NoTornBlock EofAfterLastPart
PROPERTIES StreamSpec
