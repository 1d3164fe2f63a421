\* Two threads, two groups, a list of two rows, three posts and one crash.
SPECIFICATION FairSpec
CONSTANTS
  Thread = {t1, t2}
  g1 = g1
  g2 = g2
  Group = {g1, g2}
  Schedules <- OneOrTwoGroups
  None = None
  Limit = 2
  MaxPosts = 3
  MaxCrashes = 1
INVARIANTS TypeOK AnswersMatchRows AcknowledgedAreServed AcknowledgedInOrder HealthyMeansReadable
PROPERTIES EveryRequestEnds
