\* Order of clock readings: few reports, time passes while calls wait.
SPECIFICATION FairSpec
CONSTANTS
  Device = {d1, d2}
  Normal = {t1}
  Sentinel = {}
  Disconnect = Disconnect
  None = None
  StuckThreshold = 2
  SilenceTimeout = 3
  MaxTrackedDevices = 2
  Handler = {h1, h2}
  MaxStall = 1
  LastCall = 3
  MaxTime = 8
  MaxReports = 2
INVARIANTS ContactWithinStall
PROPERTIES SilenceIsAccurate QuietDevicesAreCounted
