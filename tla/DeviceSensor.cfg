\* The threshold of the gateway and the shortest episode of the device as in the code.
SPECIFICATION Spec
CONSTANTS
  Device = {d1}
  Normal <- Range15To17
  Sentinel = {85}
  Disconnect = Disconnect
  None = None
  StuckThreshold = 3
  SilenceTimeout = 1
  MaxTrackedDevices = 1
  Low = 15
  High = 17
  MinStuck = 3
  MaxStuck = 4
  MaxReads = 6
  MaxLate = 1
INVARIANTS TypeOK RunningEpisodesAreSuspected InjectedEpisodesAreDetected EpisodesAreCountedOnce
