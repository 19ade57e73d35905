\* Up to three fresh stages that return when they like, one Run with a deadline;
\* the third, if there is one, has no runner.
SPECIFICATION PipeSpec
CONSTANTS
  Procs = {1, 2, 3}
  N = 3
  Wrapped = {}
  Timeout = TRUE
  Fds = {"stdout", "stderr"}
  Runnerless = {3}
  Drainers = {2}
  Ops = {}
  Data = {"a"}
  MaxChunk = 1
  MaxUnits = 2
  MaxRuns = 1
  Nil = Nil
  Bytes = Bytes
INVARIANTS LTypeOK SendHasRoom ErrorsOfAllStages ResultIsLastOutput
PROPERTIES LinksAreStreams
CHECK_DEADLOCK FALSE
