SPECIFICATION Spec
CONSTANTS
  c1 = c1  g1 = g1  p1 = p1  p2 = p2
  Pid = {p1, p2}
  Program <- MCProgram
  NoProcess = NoProcess  NoJVM = NoJVM
  Container = {c1}  NoContainer = NoContainer
  Known = {c1}
  Gateway = {g1}  NoGateway = NoGateway
  GatewayOf <- MCGatewayOf
  AutoBind = TRUE
  MaxChanges = 2
INVARIANTS ReportMatchesHost
PROPERTIES NamesSettle GatewaysSettle
