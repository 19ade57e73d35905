\* Two writers of two calls each and a reader of one file.
SPECIFICATION Spec
CONSTANTS
  Writers = {w1, w2}
  Readers = {r1}
  MaxWrites = 2
  Parts = 2
  None = None
INVARIANTS TypeOK NeverPartial NoLitter
PROPERTIES IsAtomicFile
CHECK_DEADLOCK FALSE
