\* Order of reports: the clock stands still, logs are long.
SPECIFICATION Spec
CONSTANTS
  Device = {d1, d2, d3}
  Normal = {t1, t2}
  Sentinel = {s1}
  Disconnect = Disconnect
  None = None
  StuckThreshold = 2
  SilenceTimeout = 1
  MaxTrackedDevices = 2
  Handler = {h1, h2}
  MaxStall = 0
  LastCall = 0
  MaxTime = 0
  MaxReports = 3
SYMMETRY Symmetry
INVARIANTS TypeOK WithinCapacity
PROPERTIES ImplementsReports OnlyNewDevicesAreRefused
