SPECIFICATION FairSpec
CONSTANTS
  s1 = s1  s2 = s2  s3 = s3
  Span = {s1, s2, s3}
  EntrySpan = {s1, s2}
  NoSpan = NoSpan
  ParentOf <- MCParentOf
  NoMark = NoMark
  MaxClock = 4
  MaxLate = 2
  CatchUp = 2
  SpanRetention = 1
  RollupRetention = 2
  MaxFaults = 2
INVARIANTS RolledExactlyOnce DropsFollowRollup
PROPERTIES BacklogDrains
CHECK_DEADLOCK FALSE
