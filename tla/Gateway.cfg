\* Two threads, two devices and room for one of them; the cloud may stay silent for ever.
SPECIFICATION FairSpec
CONSTANTS
  Device = {d1, d2}
  Normal = {t1}
  Sentinel = {s1}
  Disconnect = Disconnect
  None = None
  StuckThreshold = 2
  SilenceTimeout = 1
  MaxTrackedDevices = 1
  Handler = {h1, h2}
  MaxRequests = 3
INVARIANTS TypeOK ForwardingIsAccounted SamplesAreCounted SuspectedDevicesHadEpisodes
PROPERTIES EveryRequestEnds
