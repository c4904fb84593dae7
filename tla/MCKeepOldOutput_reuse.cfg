\* A split output is written again by a process with the number of one that crashed
CONSTANTS
  p1 = p1
  p2 = p2
  Kinds = {"file"}
  Pids = {p1}
  PidReuse = TRUE
  MaxFiles = 2
  MaxJobs = 3
SPECIFICATION Spec
INVARIANT MadeByOneJob
CHECK_DEADLOCK FALSE
