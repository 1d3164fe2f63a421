\* Three samples, at most one reading while waiting for a recovery: the isolated
\* sequence sends 16.
SPECIFICATION FairSpec
CONSTANTS
  None = None
  Plans <- EveryPlan
  Count = 3
  MaxAttempts = 1
  Registries <- SmallRegistries
  MaxMishaps = 2
  MaxSends = 16
INVARIANTS AcknowledgementsAreObserved  StackIsRestored EveryPollSeesTheFault
PROPERTIES ScriptEnds
CHECK_DEADLOCK FALSE
