SPECIFICATION DiagnosticsFairSpec
CONSTANTS
  r1 = r1  r2 = r2
  Request = {r1, r2}
  Kind = {"class_histogram", "thread_dump"}
  Histogram = "class_histogram"
  Keep = 1
  Retention = 1
  MaxTime = 2
  MaxJvms = 2
  MaxPasses = 2
  Maintainer = Maintainer  NoOne = NoOne
INVARIANTS RunningComparedWithItself
PROPERTIES OnlySurplusDropped QuotaAfterPass RequestAnswered
CHECK_DEADLOCK FALSE
