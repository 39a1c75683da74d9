SPECIFICATION Spec
CONSTANTS
  e1 = e1  e2 = e2  e3 = e3
  Exporter = {e1, e3}
  Item <- MCItem
  Payload <- MCPayload
  LaneOf <- MCLaneOf
  TransportOf <- MCTransportOf
  QueueSize <- MCQueueSize
  BatchSize = 2
  RateLimit = 0
  MaxTries = 1
  CanStop = TRUE
INVARIANTS CleanShutdown
CHECK_DEADLOCK FALSE
