CONSTANTS
    Producers = {p1, p2}
    Capacity = 2
    MaxMsgs = 3
SPECIFICATION FairSpec
CHECK_DEADLOCK FALSE
INVARIANTS
  DeliveryExact
PROPERTIES
  GracefulExit
  EventuallyExecuted
