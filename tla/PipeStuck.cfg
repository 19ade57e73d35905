\* The second stage may return before it read all of the first one's output.
SPECIFICATION FairPipeSpec
CONSTANTS
  Procs = {1, 2}
  N = 2
  Wrapped = {}
  Timeout = TRUE
  Fds = {"stdout"}
  Runnerless = {}
  Drainers = {1}
  Ops = {}
  Data = {"a"}
  MaxChunk = 1
  MaxUnits = 1
  MaxRuns = 1
  Nil = Nil
  Bytes = Bytes
PROPERTIES DeadlineEnds
CHECK_DEADLOCK FALSE
