\* The caller feeds the first stage, a process it wrapped, while the pipeline runs.
SPECIFICATION FairPipeSpec
CONSTANTS
  Procs = {1, 2}
  N = 2
  Wrapped = {1}
  Timeout = FALSE
  Fds = {"stdout"}
  Runnerless = {}
  Drainers = {2}
  Ops = {"write"}
  Data = {"a"}
  MaxChunk = 2
  MaxUnits = 2
  MaxRuns = 2
  Nil = Nil
  Bytes = Bytes
INVARIANTS PipeConservation
PROPERTIES FedStageReleases
CHECK_DEADLOCK FALSE
