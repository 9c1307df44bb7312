SPECIFICATION SemFairSpec
CONSTANTS
  NumJobs = 4
  Size = 3
\* The program ends with every thread blocked (EndsBlocked).
CHECK_DEADLOCK FALSE
INVARIANTS
  SemCountsJobs
PROPERTIES
  ImplementsPool
  EndsBlocked
