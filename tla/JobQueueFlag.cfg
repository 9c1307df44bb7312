SPECIFICATION FlagFairSpec
CONSTANTS
  NumJobs = 4
  Size = 3
INVARIANTS
  NoLostWakeup
  AllProcessedAtReturn
PROPERTIES
  ImplementsPool
  MainReturns
