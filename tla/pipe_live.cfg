SPECIFICATION FairSpec
CONSTANTS
  e1 = e1  e2 = e2  e3 = e3
  Exporter = {e2, e3}
  Item <- MCItem
  Payload <- MCPayload
  LaneOf <- MCLaneOf
  TransportOf <- MCTransportOf
  QueueSize <- MCQueueSize
  BatchSize = 2
  RateLimit = 1
  MaxTries = 2
  CanStop = TRUE
PROPERTIES Delivered ShutdownCompletes
CHECK_DEADLOCK FALSE
