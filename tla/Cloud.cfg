\* Two requests that contend for the write lock, every body, one crash.
SPECIFICATION FairSpec
CONSTANTS
  Request = {r1, r2}
  None = None
  LegacyPolicy <- DisabledLater
  Window = 1
  BusyTimeout = 1
  Timestamps <- EveryTimestamp
  MaxTime = 5
  MaxCrashes = 1
INVARIANTS TypeOK StorageMatchesAnswers ReceivedCountsCommits ReplaysAreBounded ServedReadingsStay
PROPERTIES EveryRequestEnds
