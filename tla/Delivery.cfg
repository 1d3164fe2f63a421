\* Both servers may crash once; a gateway clock may be outside the window.  Only the
\* device is scheduled.
SPECIFICATION DeviceFairSpec
CONSTANTS
  Request = {r1, r2, r3}
  None = None
  LegacyPolicy <- NeverAllowed
  Window = 1
  BusyTimeout = 1
  Timestamps <- InAndOutsideWindow
  MaxTime = 0
  MaxCrashes = 1
  MaxGatewayCrashes = 1
PROPERTIES DeliveryKeepsPromise DeviceNeverBlocks
CHECK_DEADLOCK FALSE
