\* A 3D mux with one or two parts, and copies of titles, on discs with and without layer breaks
CONSTANTS
  Layouts <- MCLayouts
  Jobs <- MCJobs
  Block = 2
  Meta = 2
  MaxExtent = 5
  MaxHeld = 2
  DepMax = 1
  BaseMax = 2
  Buffer = 3
  Margin = 4
  UdfMargin = 8
  MaxParts = 4
  MaxSectors = 22
SPECIFICATION Spec
INVARIANTS TypeOK ReadsBack SsifInOrder ZonesFree CopiesInPlace FitsDisc
CHECK_DEADLOCK FALSE
