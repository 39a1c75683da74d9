SPECIFICATION Spec
CONSTANTS
  p1 = p1  p2 = p2
  Pid = {p1, p2}
  Port = {80, 81}
  ApiPorts = {81}
  BaseName <- MCBase
  Name <- MCName
  Program <- MCProgram
  Suffixed <- MCSuffixed
  Self <- MCSelf
  Runtime = {"go", "python", "nginx", "php"}
  NoPid = NoPid  NoName = NoName  NoRuntime = NoRuntime
  NoProcess = NoProcess  NoProgram = NoProgram
  MaxRemembered = 3
  MaxChanges = 2
SYMMETRY Symmetry
INVARIANTS SinksMatchHost RulesSeparate NamesSeparate RegistryLabels
