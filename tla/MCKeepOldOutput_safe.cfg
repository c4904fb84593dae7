\* Every kind of output; a process has no number that left files
CONSTANTS
  p1 = p1
  p2 = p2
  Kinds = {"file", "image", "disc", "demux"}
  Pids = {p1, p2}
  PidReuse = FALSE
  MaxFiles = 2
  MaxJobs = 4
SPECIFICATION Spec
INVARIANTS TypeOK OutputKept NotMovedIsWhole FailureLeavesNothing SuccessInPlace MadeByOneJob
PROPERTIES OldUntouched
SYMMETRY Numbers
CHECK_DEADLOCK FALSE
