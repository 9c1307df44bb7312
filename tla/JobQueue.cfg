SPECIFICATION QueueFairSpec
CONSTANTS
  NumJobs = 4
  Size = 3
INVARIANTS
  ListInv
  NoUseAfterFree
  EveryJobAccounted
PROPERTIES
  ImplementsPool
  MainReturns
