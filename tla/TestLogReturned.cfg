\* What the logger of NewTestLogger logs, the handler it returns does not have.
SPECIFICATION Spec
CONSTANTS
  Derived = {}
  Loggers = {g1}
  Watchers = {w1}
  Keys = {"test"}
  Vals = {"true"}
  Msgs = {"yes"}
  Wanted = {"yes"}
  MaxLogs = 1
  None = None
INVARIANTS LoggerIsHeard
CHECK_DEADLOCK FALSE
