\* Up to three fresh stages that read their input to the end, the pipeline run twice.
SPECIFICATION FairPipeSpec
CONSTANTS
  Procs = {1, 2, 3}
  N = 3
  Wrapped = {}
  Timeout = FALSE
  Fds = {"stdout"}
  Runnerless = {}
  Drainers = {1, 2, 3}
  Ops = {}
  Data = {"a"}
  MaxChunk = 2
  MaxUnits = 2
  MaxRuns = 2
  Nil = Nil
  Bytes = Bytes
INVARIANTS NoStageRefused ResultIsLastOutput DoneMeansClosed
PROPERTIES RunIsForkJoin RunReturns
CHECK_DEADLOCK FALSE
