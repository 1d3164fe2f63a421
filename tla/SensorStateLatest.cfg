\* Two calls of one device, the older one applied last.
SPECIFICATION Spec
CONSTANTS
  Device = {d1}
  Normal = {t1}
  Sentinel = {}
  Disconnect = Disconnect
  None = None
  StuckThreshold = 2
  SilenceTimeout = 3
  MaxTrackedDevices = 1
  Handler = {h1, h2}
  MaxStall = 1
  LastCall = 1
  MaxTime = 1
  MaxReports = 2
INVARIANT DisconnectedFollowsLatestContact
