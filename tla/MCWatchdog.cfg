SPECIFICATION WatchdogFairSpec
CONSTANTS
    Threshold = 3
    Heartbeat = 4
    Throttle = 2
    Gap = 4
    QueueCap = 2
CHECK_DEADLOCK FALSE
INVARIANTS
  RecoverySound
PROPERTIES
  StepsSound
  OutagesAnswered
