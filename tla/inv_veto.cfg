SPECIFICATION Spec
CONSTANTS
  k1 = k1  p1 = p1  w1 = w1  w2 = w2
  NoKey = NoKey
  Key = {k1}
  Pid = {p1}
  PidOf <- OnePid
  Worker = {w1, w2}
  KindsOf <- PlainOnly
  MaxLoads = 2
  AutoAttach = TRUE
  MaxRetries = 1
  MaxRequests = 1
  MaxMisses = 0
  MaxRestarts = 0
PROPERTY VetoHolds
