\* Two goroutines log through the two handlers of NewTestLogger and one derived
\* from either, while one calls RequireEntry again and again.
SPECIFICATION FairSpec
CONSTANTS
  Derived = {"d1"}
  Loggers = {g1, g2}
  Watchers = {w1}
  Keys = {"test"}
  Vals = {"true", "no"}
  Msgs = {"yes", "other"}
  Wanted = {"yes"}
  MaxLogs = 2
  None = None
INVARIANTS TypeOK Attribution FoundIsFirst FailsOnlyForLate
PROPERTIES WaitEnds IsEventLog
CHECK_DEADLOCK FALSE
