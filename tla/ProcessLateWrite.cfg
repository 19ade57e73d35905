\* The program of TestProcess_ContinuousStdin: Run and the first Write race.
SPECIFICATION RunWhileWritingSpec
CONSTANTS
  p1 = p1
  a = a
  Procs = {p1}
  Fds = {"stdout"}
  Runnerless = {}
  Drainers = {p1}
  Ops = {"write"}
  Data = {a}
  MaxChunk = 1
  MaxUnits = 2
  MaxRuns = 1
  Nil = Nil
  Bytes = Bytes
INVARIANTS WriteReachesRunner
CHECK_DEADLOCK FALSE
