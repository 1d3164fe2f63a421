\* No crash is needed: a timeout is enough.
SPECIFICATION DeliverySpec
CONSTANTS
  Request = {r1}
  None = None
  LegacyPolicy <- NeverAllowed
  Window = 1
  BusyTimeout = 1
  Timestamps = {0}
  MaxTime = 0
  MaxCrashes = 0
  MaxGatewayCrashes = 0
INVARIANT FailedIsNotStored
CHECK_DEADLOCK FALSE
