\* Three generations of keys, three samples in the range of increase().
SPECIFICATION FairSpec
CONSTANTS
  None = None
  MaxGenerations = 3
  Window = 3
  HoldDown = 2
  MaxMissed = 1
INVARIANTS CloudLeads RejectionAlertsAreReal
PROPERTIES RejectionsAreAlerted MismatchesAreReported OutagesAreReported
