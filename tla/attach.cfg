SPECIFICATION FairSpec
CONSTANTS
  x1 = x1  x2 = x2
  Exchange = {x1, x2}
  User = {"root", "app", "other"}
  Root = "root"
  JvmUser = "app"
  NoFile = NoFile
INVARIANTS TriggersRemoved SettledBeforeAnswer
PROPERTIES ImplementsContract ExchangeEnds
CHECK_DEADLOCK FALSE
