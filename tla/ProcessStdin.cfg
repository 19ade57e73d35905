\* One process fed by Write, Close, SetStdin and RunWithIO while it runs, with a
\* client that reads its stdout; another process without a runner.
SPECIFICATION ConfiguredIfRunnableSpec
CONSTANTS
  p1 = p1
  p2 = p2
  a = a
  Procs = {p1, p2}
  Fds = {"stdout"}
  Runnerless = {p2}
  Drainers = {}
  Ops = {"write", "stdin", "runio", "pipe", "read", "writer"}
  Data = {a}
  MaxChunk = 2
  MaxUnits = 2
  MaxRuns = 2
  Nil = Nil
  Bytes = Bytes
INVARIANTS PipeConservation
PROPERTIES WriterReleased
CHECK_DEADLOCK FALSE
