\* Two processes, each may read the stdout of the other, captured, piped or both,
\* and run twice; p2 reads to the end of its input, p1 returns when it likes.
SPECIFICATION ProcSpec
CONSTANTS
  p1 = p1
  p2 = p2
  a = a
  Procs = {p1, p2}
  Fds = {"stdout"}
  Runnerless = {}
  Drainers = {p2}
  Ops = {"pipe", "join", "capture"}
  Data = {a}
  MaxChunk = 2
  MaxUnits = 2
  MaxRuns = 2
  Nil = Nil
  Bytes = Bytes
INVARIANTS PTypeOK PipeConservation CaptureComplete FirstRunIsHeard EofIsComplete
CHECK_DEADLOCK FALSE
