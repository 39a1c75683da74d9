SPECIFICATION Spec
CONSTANTS
  p1 = p1  p2 = p2  s = s
  Process = {p1, p2}
  Service = {s}
  ServiceOf <- MCServiceOf
  RequireToken = TRUE
  Inline = {p1}
  MaxTokens = 3
  MaxStarts = 2
  OneShot = OneShot  NoToken = NoToken  NoProcess = NoProcess
INVARIANTS InstrumentedIsHeard StartsAgain
CHECK_DEADLOCK FALSE
