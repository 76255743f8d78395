SPECIFICATION RecoverySpec
CONSTANTS
  Guids = {d1, d2}
  NoRow = noRow
  RetryAfter = 0
  MaxDeliveryAttempts = 2
  Overlap = 1
  Seed = 1
  MaxAge = 2
  Window = 3
  Retention = 4
  PerPage = 2
  MaxPages = 2
  MaxPerRun = 2
  MaxRequests = 2
  MaxHours = 5
  MaxSends = 3
  LastSend = 2
  MaxHiccups = 1
INVARIANT RefusedStaysInSight
CHECK_DEADLOCK FALSE
