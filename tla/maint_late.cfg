SPECIFICATION Spec
CONSTANTS
  s1 = s1  s2 = s2  s3 = s3
  Span = {s1, s2}
  EntrySpan = {s1, s2}
  NoSpan = NoSpan
  ParentOf <- MCParentOf
  NoMark = NoMark
  MaxClock = 4
  MaxLate = 2
  CatchUp = 2
  SpanRetention = 0
  RollupRetention = 0
  MaxFaults = 0
INVARIANTS RollupsNotContradicted
CHECK_DEADLOCK FALSE
