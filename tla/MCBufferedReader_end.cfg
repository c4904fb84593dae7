\* A join, and a transport stream scanned by getTrackList and put back to its start: is the
\* end told only after the last block?
CONSTANTS
  a = a
  b = b
  Readers = {a, b}
  NoReader = NoReader
  BlockSize = 2
  QueueMax = 4
  PartEnd <- EndParts
  Joined = {a}
  Missing <- NoneOf
  Rescanned = {b}
  ExtraReads <- Never
  Faulty = {}
  Pipes = {}
  GotoTo <- NoneOf
SPECIFICATION Spec
INVARIANT EofMeansAllDelivered
