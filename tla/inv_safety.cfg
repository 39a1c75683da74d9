SPECIFICATION Spec
CONSTANTS
  k1 = k1  p1 = p1  w1 = w1  w2 = w2
  NoKey = NoKey
  Key = {k1}
  Pid = {p1}
  PidOf <- OnePid
  Worker = {w1, w2}
  KindsOf <- Varied
  MaxLoads = 2
  AutoAttach = TRUE
  MaxRetries = 2
  MaxRequests = 2
  MaxMisses = 1
  MaxRestarts = 1
SYMMETRY WorkerSymmetry
INVARIANTS OneHandshake AttachingIsInFlight LoadedAgainOnlyBlindly AttachedIsConfigured
