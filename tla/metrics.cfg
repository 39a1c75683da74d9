SPECIFICATION MetricsSpec
CONSTANTS
  a = a  b = b  x = x  y = y  e1 = e1  e2 = e2
  Exporter = {e1, e2}
  Service = {a, b}
  Operation = {x, y}
  NoName = NoName  OverflowLabel = OverflowLabel  HostService = HostService
  MaxServices = 1
  MaxOperations = 1
  Sends <- MCSends
  MaxCalls = 1
  Pid = {1}
  NameOf <- MCNameOf
  NumCPU = 1
  MaxTime = 2
  MaxProcesses = 2
INVARIANTS FiledNamesBounded OneLabelPerName UsageAddsUp
CHECK_DEADLOCK FALSE
